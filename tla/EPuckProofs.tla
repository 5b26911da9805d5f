------------------------------- MODULE EPuckProofs ------------------------------
(***************************************************************************)
(* Proofs about the e-puck: the controller of a real robot and its PIC,    *)
(* its camera, and the virtual range-and-bearing.                          *)
(*                                                                         *)
(* For every set of images, every number of detections and of threads, a   *)
(* control step copies the blobs of a whole detection as long as no two    *)
(* threads have been alive at once.  For every scene and every number of   *)
(* packets, a reading is what one robot sent, a packet is matched in one   *)
(* round and a blob with one packet of a round.  For every length of a     *)
(* packet, every set of experiment lengths and every set of calls that may *)
(* fail: type correctness, the steps an experiment has, and the framing of *)
(* the serial line, which carries no mark of where a packet begins.        *)
(***************************************************************************)
EXTENDS OmnidirectionalCamera, VirtualCamrab, EPuckBoard, FiniteSetTheorems, SequenceTheorems,
        WellFoundedInduction, TLAPS

Detections == [number : Nat, frame : SUBSET Pixels, whole : BOOLEAN]
Stages == {"none", "loop", "grabbed", "detecting", "detected", "closing", "freeing", "closed"}

Types ==
  /\ threads \in [Threads -> Stages]
  /\ controlStep \in {"control", "update", "freeing", "transfer", "copying"}
  /\ m_bEnabled \in BOOLEAN
  /\ m_tBlobQueueMutex \in Threads \cup {Nobody, ControlLoop}
  /\ m_pcHSVImage \in SUBSET Pixels
  /\ detected \in Detections /\ BlobList \in Detections
  /\ m_un_blobDetection_cycles \in Nat /\ Counter \in Nat
  /\ disabled \in BOOLEAN /\ crowded \in BOOLEAN

(* The thread that is in the middle of a detection has the mutex, which    *)
(* Enable and the end of a thread free whoever holds it, and a thread that *)
(* ends frees the blobs: that does no harm as long as at most one thread   *)
(* is alive, for it ends only when the camera is disabled, and a control   *)
(* step copies only when it is not.                                        *)
OneAlive == \A t, u \in Alive : t = u
Holding == \A t \in Threads : threads[t] = "detecting" => m_tBlobQueueMutex = t
InTheMiddle == ~detected.whole => \E t \in Threads : threads[t] = "detecting"
Ending == \A t \in Threads : threads[t] \in {"closing", "freeing"} => ~m_bEnabled
Copying ==
  /\ controlStep \in {"freeing", "transfer", "copying"} => m_bEnabled
  /\ controlStep = "copying" => m_tBlobQueueMutex = ControlLoop /\ detected.whole /\ BlobList = detected
Settled == controlStep \in {"control", "update"} /\ Freeing = {} => BlobList.whole
Alone == OneAlive /\ Holding /\ InTheMiddle /\ Ending /\ Copying /\ Settled
CameraInv == Types /\ (~crowded => Alone)

USE DEF Freeing

LEMMA CameraInvHolds == CameraSpec => []CameraInv
<1>1. CameraInit => CameraInv
  <2> SUFFICES ASSUME CameraInit PROVE CameraInv
    OBVIOUS
  <2>1. 1 \in Threads /\ Nothing \in Detections /\ Nothing.whole
    BY CameraAssumption DEF Threads, Nothing, Detections
  <2>2. Types
    BY <2>1, CameraAssumption DEF CameraInit, Types, Stages
  <2>3. OneAlive /\ Holding /\ InTheMiddle /\ Ending /\ Copying /\ Settled
    BY <2>1 DEF CameraInit, OneAlive, Alive, Holding, InTheMiddle, Ending, Copying, Settled
  <2>4. QED
    BY <2>2, <2>3 DEF CameraInv, Alone
<1>2. CameraInv /\ [CameraNext]_cameraVars => CameraInv'
  <2> SUFFICES ASSUME CameraInv, [CameraNext]_cameraVars
               PROVE  CameraInv'
    OBVIOUS
  <2>1. Types
    BY DEF CameraInv
  <2>2. Nobody \notin Threads /\ Threads \subseteq Nat /\ ControlLoop \notin Threads /\ ControlLoop # Nobody
    BY CameraAssumption DEF Nobody, Threads, ControlLoop
  <2>3. /\ Nothing \in Detections /\ Nothing.whole
        /\ \A d \in Detections : /\ [d EXCEPT !.whole = FALSE] \in Detections
                                 /\ \A b \in BOOLEAN : [d EXCEPT !.whole = b] \in Detections
                                 /\ \A b \in BOOLEAN : [d EXCEPT !.whole = @ /\ b] \in Detections
    BY DEF Nothing, Detections
  <2>4. crowded => crowded'
    BY <2>1 DEF CameraNext, cameraVars, MainStep, Update, ClearList, Transfer, Transferred, Control, Disable, Enable, Step,
           GrabFrame, Detect, Detected, CountCycle, LeaveLoop, FreeAtEnd, CloseThread, Types
  <2>5. CASE UNCHANGED cameraVars
    BY <2>5 DEF CameraInv, Types, Alone, OneAlive, Alive, Holding, InTheMiddle, Ending, Copying, Settled, cameraVars
  <2>6. CASE MainStep \/ Disable
    <3>1. UNCHANGED <<threads, detected, m_pcHSVImage, m_un_blobDetection_cycles, crowded>>
      BY <2>6 DEF MainStep, Update, ClearList, Transfer, Transferred, Control, Disable
    <3>2. Types'
      <4>1. BlobList' \in Detections
        BY <2>1, <2>3, <2>6 DEF MainStep, Update, ClearList, Transfer, Transferred, Control, Disable, FreeBlobs, ClearBlobs,
                                 Types
      <4>2. Counter' \in Nat
        BY <2>1, <2>6 DEF MainStep, Update, ClearList, Transfer, Transferred, Control, Disable, ClearBlobs, Types
      <4>3. /\ controlStep' \in {"control", "update", "freeing", "transfer", "copying"}
            /\ m_bEnabled' \in BOOLEAN /\ disabled' \in BOOLEAN
            /\ m_tBlobQueueMutex' \in Threads \cup {Nobody, ControlLoop}
        BY <2>1, <2>6 DEF MainStep, Update, ClearList, Transfer, Transferred, Control, Disable, Types
      <4>4. QED
        BY <2>1, <3>1, <4>1, <4>2, <4>3 DEF Types
    <3>3. ASSUME ~crowded PROVE Alone'
      <4>1. OneAlive /\ Holding /\ InTheMiddle /\ Ending /\ Copying /\ Settled
        BY <3>3 DEF CameraInv, Alone
      <4>2. OneAlive' /\ InTheMiddle'
        BY <3>1, <4>1 DEF OneAlive, Alive, InTheMiddle
      <4>3. Holding'
        <5>1. CASE UNCHANGED m_tBlobQueueMutex
          BY <3>1, <4>1, <5>1 DEF Holding
        <5>2. CASE Transfer \/ Transferred
          <6>1. m_tBlobQueueMutex \notin Threads
            BY <2>2, <4>1, <5>2 DEF Transfer, Transferred, Lockable, Copying
          <6>2. \A t \in Threads : threads[t] # "detecting"
            BY <4>1, <6>1 DEF Holding
          <6>3. QED
            BY <3>1, <6>2 DEF Holding
        <5>3. QED
          BY <2>6, <5>1, <5>2 DEF MainStep, Update, ClearList, Control, Disable
      <4>4. Ending'
        BY <2>6, <3>1, <4>1 DEF MainStep, Update, ClearList, Transfer, Transferred, Control, Disable, Ending
      <4>5. Copying'
        <5>1. CASE Transfer
          <6>1. detected.whole
            BY <2>2, <4>1, <5>1 DEF Transfer, Lockable, Holding, InTheMiddle
          <6>2. QED
            BY <3>1, <4>1, <5>1, <6>1 DEF Transfer, Copying
        <5>2. CASE ~Transfer
          BY <2>6, <4>1, <5>2 DEF MainStep, Update, ClearList, Transferred, Control, Disable, Copying
        <5>3. QED
          BY <5>1, <5>2
      <4>6. Settled'
        <5>1. CASE Transferred
          BY <2>1, <4>1, <5>1 DEF Transferred, Copying, Settled, Types, Detections
        <5>2. CASE ~Transferred
          BY <2>6, <3>1, <4>1, <5>2 DEF MainStep, Update, ClearList, Transfer, Control, Disable, Settled
        <5>3. QED
          BY <5>1, <5>2
      <4>7. QED
        BY <4>2, <4>3, <4>4, <4>5, <4>6 DEF Alone
    <3>4. QED
      BY <3>1, <3>2, <3>3 DEF CameraInv
  <2>7. CASE Enable
    <3>1. PICK t \in Threads : threads' = [threads EXCEPT ![t] = "loop"]
      BY <2>7 DEF Enable
    <3>2. Types'
      BY <2>1, <2>7, <3>1 DEF Enable, Types, Stages
    <3>3. ~crowded' => ~crowded /\ Alive = {}
      BY <2>7 DEF Enable
    <3>4. ASSUME ~crowded' PROVE Alone'
      <4>1. \A u \in Threads : threads[u] \in {"none", "closed"}
        BY <3>3, <3>4 DEF Alive
      <4>2. \A u \in Threads : threads'[u] = IF u = t THEN "loop" ELSE threads[u]
        BY <2>1, <3>1 DEF Types
      <4>3. InTheMiddle /\ Settled /\ UNCHANGED <<controlStep, detected, BlobList>> /\ controlStep = "control"
        BY <2>7, <3>3, <3>4 DEF Enable, CameraInv, Alone
      <4>4. detected.whole /\ BlobList.whole
        BY <4>1, <4>3 DEF InTheMiddle, Settled
      <4>5. OneAlive' /\ Holding' /\ InTheMiddle' /\ Ending'
        BY <4>1, <4>2, <4>3, <4>4 DEF OneAlive, Alive, Holding, InTheMiddle, Ending
      <4>6. Copying' /\ Settled'
        BY <4>3, <4>4 DEF Copying, Settled
      <4>7. QED
        BY <4>5, <4>6 DEF Alone
    <3>5. QED
      BY <3>2, <3>4 DEF CameraInv
  <2>8. ASSUME NEW t \in Threads, Step(t) PROVE CameraInv'
    <3>1. PICK l \in Stages \ {"none"} : threads' = [threads EXCEPT ![t] = l]
      BY <2>8 DEF Step, GrabFrame, Detect, Detected, CountCycle, LeaveLoop, FreeAtEnd, CloseThread, Stages
    <3>2. \A u \in Threads : threads'[u] = IF u = t THEN l ELSE threads[u]
      BY <2>1, <3>1 DEF Types
    <3>3. t \in Alive
      BY <2>8 DEF Step, GrabFrame, Detect, Detected, CountCycle, LeaveLoop, FreeAtEnd, CloseThread, Alive
    <3>4. Types'
      <4>1. threads' \in [Threads -> Stages]
        BY <2>1, <3>1 DEF Types
      <4>2. detected' \in Detections
        <5>1. detected \in Detections /\ detected.number \in Nat /\ m_pcHSVImage \in SUBSET Pixels
          BY <2>1 DEF Types, Detections
        <5>2. \/ UNCHANGED detected
              \/ detected' = [detected EXCEPT !.whole = FALSE]
              \/ detected' = [number |-> detected.number + 1, frame |-> m_pcHSVImage, whole |-> TRUE]
          BY <2>8 DEF Step, GrabFrame, Detect, Detected, CountCycle, LeaveLoop, FreeAtEnd, CloseThread
        <5>3. [detected EXCEPT !.whole = FALSE] \in Detections
          BY <5>1 DEF Detections
        <5>4. detected.number + 1 \in Nat
          BY <5>1
        <5>5. [number |-> detected.number + 1, frame |-> m_pcHSVImage, whole |-> TRUE] \in Detections
          BY <5>1, <5>4 DEF Detections
        <5>6. QED
          BY <5>1, <5>2, <5>3, <5>5
      <4>3. m_pcHSVImage' \in SUBSET Pixels
        BY <2>1, <2>8, CameraAssumption
           DEF Step, GrabFrame, Detect, Detected, CountCycle, LeaveLoop, FreeAtEnd, CloseThread, Types
      <4>4. BlobList' \in Detections
        BY <2>1, <2>3, <2>8
           DEF Step, GrabFrame, Detect, Detected, CountCycle, LeaveLoop, FreeAtEnd, CloseThread,
               FreeBlobs, ClearBlobs, Types
      <4>5. Counter' \in Nat /\ m_un_blobDetection_cycles' \in Nat
            /\ m_tBlobQueueMutex' \in Threads \cup {Nobody, ControlLoop}
        BY <2>1, <2>8
           DEF Step, GrabFrame, Detect, Detected, CountCycle, LeaveLoop, FreeAtEnd, CloseThread, ClearBlobs, Types
      <4>6. UNCHANGED <<controlStep, m_bEnabled, disabled, crowded>>
        BY <2>8 DEF Step, GrabFrame, Detect, Detected, CountCycle, LeaveLoop, FreeAtEnd, CloseThread
      <4>7. QED
        BY <2>1, <4>1, <4>2, <4>3, <4>4, <4>5, <4>6 DEF Types
    <3>5. ASSUME ~crowded' PROVE Alone'
      <4>1. OneAlive /\ Holding /\ InTheMiddle /\ Ending /\ Copying /\ Settled
        BY <2>4, <3>5 DEF CameraInv, Alone
      <4>2. \A u \in Threads \ {t} : threads[u] \in {"none", "closed"} /\ threads'[u] = threads[u]
        BY <3>2, <3>3, <4>1 DEF OneAlive, Alive
      <4>3. OneAlive'
        BY <4>2 DEF OneAlive, Alive
      <4>4. threads[t] \in Stages /\ threads'[t] = l /\ UNCHANGED <<controlStep, m_bEnabled>>
        BY <2>1, <2>8, <3>2 DEF Types, Step, GrabFrame, Detect, Detected, CountCycle, LeaveLoop, FreeAtEnd, CloseThread
      <4>5. CASE GrabFrame(t) \/ CountCycle(t)
        <5>1. /\ threads[t] \notin {"detecting", "freeing"} /\ l \notin {"detecting", "closing", "freeing"}
              /\ UNCHANGED <<m_tBlobQueueMutex, detected, BlobList>>
          BY <2>1, <4>4, <4>5 DEF GrabFrame, CountCycle, Types
        <5>2. QED
          BY <4>1, <4>2, <4>3, <4>4, <5>1 DEF Alone, Holding, InTheMiddle, Ending, Copying, Settled
      <4>6. CASE Detect(t)
        <5>1. /\ threads[t] = "grabbed" /\ l = "detecting" /\ m_tBlobQueueMutex = Nobody
              /\ m_tBlobQueueMutex' = t /\ UNCHANGED BlobList
          BY <2>1, <4>4, <4>6 DEF Detect, Types
        <5>2. controlStep # "copying"
          BY <2>2, <4>1, <5>1 DEF Copying
        <5>3. QED
          BY <4>1, <4>2, <4>3, <4>4, <5>1, <5>2 DEF Alone, Holding, InTheMiddle, Ending, Copying, Settled
      <4>7. CASE Detected(t)
        <5>1. /\ threads[t] = "detecting" /\ l = "detected" /\ detected'.whole /\ UNCHANGED BlobList
          BY <2>1, <4>4, <4>7 DEF Detected, Types
        <5>2. controlStep # "copying"
          BY <2>2, <4>1, <5>1 DEF Copying, Holding
        <5>3. QED
          BY <4>1, <4>2, <4>3, <4>4, <5>1, <5>2 DEF Alone, Holding, InTheMiddle, Ending, Copying, Settled
      <4>8. CASE LeaveLoop(t) \/ FreeAtEnd(t)
        <5>1. /\ threads[t] \in {"loop", "closing"} /\ l \in {"closing", "freeing"} /\ ~m_bEnabled
              /\ UNCHANGED <<m_tBlobQueueMutex, detected>>
              /\ l = "closing" => UNCHANGED BlobList /\ threads[t] = "loop"
          BY <2>1, <4>1, <4>4, <4>8 DEF LeaveLoop, FreeAtEnd, Ending, Types
        <5>2. controlStep \notin {"freeing", "transfer", "copying"}
          BY <4>1, <5>1 DEF Copying
        <5>3. Holding' /\ InTheMiddle' /\ Ending' /\ Copying'
          BY <4>1, <4>2, <4>4, <5>1, <5>2 DEF Holding, InTheMiddle, Ending, Copying
        <5>4. Settled'
          BY <4>1, <4>2, <4>4, <5>1 DEF Settled
        <5>5. QED
          BY <4>3, <5>3, <5>4 DEF Alone
      <4>9. CASE CloseThread(t)
        <5>1. /\ threads[t] = "freeing" /\ l = "closed" /\ ~m_bEnabled /\ UNCHANGED detected
              /\ ClearBlobs(controlStep \in {"freeing", "copying"} \/ Freeing # {t})
          BY <2>1, <4>1, <4>4, <4>9 DEF CloseThread, Ending, Types
        <5>2. controlStep \notin {"freeing", "transfer", "copying"} /\ Freeing = {t}
          BY <4>1, <4>2, <5>1 DEF Copying
        <5>3. BlobList'.whole
          BY <5>1, <5>2 DEF ClearBlobs, Nothing
        <5>4. QED
          BY <4>1, <4>2, <4>3, <4>4, <5>1, <5>2, <5>3 DEF Alone, Holding, InTheMiddle, Ending, Copying, Settled
      <4>10. QED
        BY <2>8, <4>5, <4>6, <4>7, <4>8, <4>9 DEF Step
    <3>6. QED
      BY <3>4, <3>5 DEF CameraInv
  <2>9. QED
    BY <2>5, <2>6, <2>7, <2>8 DEF CameraNext
<1>3. QED
  BY <1>1, <1>2, PTL DEF CameraSpec

(* What the controller reads is never a part of a detection that went on   *)
(* meanwhile, nor a list of which some blobs are freed, as long as one     *)
(* thread lives and none is freeing them.                                  *)
THEOREM SnapshotHolds == CameraSpec => []Snapshot
<1>1. CameraInv => Snapshot
  BY DEF CameraInv, Alone, Settled, Snapshot
<1>2. QED
  BY <1>1, CameraInvHolds, PTL
-----------------------------------------------------------------------------
(* A set of natural numbers that is not empty has a smallest one. *)
LEMMA SmallestNumber ==
  ASSUME NEW S \in SUBSET Nat, S # {}
  PROVE  \E n \in S : \A m \in S : n <= m
<1> DEFINE below(x) == {y \in S : y < x}
           T == {below(x) : x \in S}
<1>0. PICK top \in S : TRUE
  OBVIOUS
<1>1. IsWellFoundedOn(StrictSubsetOrdering(Nat), FiniteSubsetsOf(Nat))
  BY FS_StrictSubsetOrderingWellFounded
<1>2. T \subseteq FiniteSubsetsOf(Nat) /\ T # {}
  <2>1. ASSUME NEW x \in S
        PROVE  below(x) \in SUBSET Nat /\ IsFiniteSet(below(x))
    <3>0. x \in Nat /\ \A s \in S : s \in Nat
      OBVIOUS
    <3>2. \A s \in below(x) : s \in S /\ s < x
      OBVIOUS
    <3>3. \A s \in S : s < x => s <= x
      BY <3>0
    <3>4. below(x) \in SUBSET Nat /\ \A s \in below(x) : s <= x
      <4> HIDE DEF below
      <4>1. QED
        BY <3>0, <3>2, <3>3
    <3> HIDE DEF below
    <3>5. QED
      BY <3>0, <3>4, FS_BoundedSetOfNaturals
  <2> HIDE DEF below
  <2>2. QED
    BY <1>0, <2>1 DEF FiniteSubsetsOf
<1>3. PICK U \in T : \A V \in T : <<V, U>> \notin StrictSubsetOrdering(Nat)
  <2> HIDE DEF T
  <2>1. QED
    BY <1>1, <1>2, WFMin
<1>4. PICK x \in S : U = below(x)
  OBVIOUS
<1>5. ASSUME NEW y \in S, y < x
      PROVE  FALSE
  <2>1. x \in Nat /\ y \in Nat /\ \A z \in S : z \in Nat
    OBVIOUS
  <2>2. y \in below(x) /\ y \notin below(y)
    BY <1>5, <2>1
  <2>3. below(y) \subseteq below(x)
    <3>1. \A z \in S : z < y => z < x
      BY <1>5, <2>1
    <3>2. QED
      BY <3>1
  <2>4. below(y) \in T /\ below(y) \in SUBSET Nat /\ below(x) \in SUBSET Nat
    OBVIOUS
  <2> HIDE DEF below
  <2>5. <<below(y), below(x)>> \in StrictSubsetOrdering(Nat)
    BY <2>2, <2>3, <2>4 DEF StrictSubsetOrdering
  <2>6. QED
    BY <1>3, <1>4, <2>4, <2>5
<1>6. QED
  <2>1. \A z \in S : z \in Nat
    OBVIOUS
  <2>2. QED
    BY <1>5, <2>1

(* What holds at 0 and is passed on holds everywhere. *)
LEMMA PassedOn ==
  ASSUME NEW N \in Nat, NEW S \in SUBSET (0..N), 0 \in S,
         \A k \in 1..N : k - 1 \in S => k \in S
  PROVE  S = 0..N
<1> DEFINE T == (0..N) \ S
<1>1. CASE T # {}
  <2>0. T \in SUBSET Nat
    OBVIOUS
  <2>1. PICK k \in T : \A m \in T : k <= m
    <3> HIDE DEF T
    <3>1. QED
      BY <1>1, <2>0, SmallestNumber
  <2>2. k \in 1..N
    OBVIOUS
  <2>3. k - 1 \in 0..N /\ k - 1 \notin T
    BY <2>1, <2>2
  <2>4. QED
    BY <2>2, <2>3
<1>2. QED
  BY <1>1

-----------------------------------------------------------------------------
(* What the two passes make of an image, for every size of images: the     *)
(* first pass, pixel by pixel, and the roots of the labels.                *)
IsIteration(D, a, N, F, w) ==
  w \in [0..N -> D] /\ w = [k \in 0..N |-> IF k = 0 THEN a ELSE F[k][w[k - 1]]]
CanIterate(D, a, N, F) == \E w : IsIteration(D, a, N, F, w)

(* N steps from a value can be taken. *)
LEMMA IterationExists ==
  ASSUME NEW D, NEW a \in D, NEW N \in Nat, NEW F \in [1..N -> [D -> D]]
  PROVE  CanIterate(D, a, N, F)
<1> DEFINE Part(n, w) == w \in [0..n -> D] /\ w[0] = a /\ \A k \in 1..n : w[k] = F[k][w[k - 1]]
           S == {n \in 0..N : \E w : Part(n, w)}
<1>1. 0 \in S
  <2>1. Part(0, [k \in 0..0 |-> a])
    OBVIOUS
  <2> HIDE DEF Part
  <2>2. QED
    BY <2>1
<1>2. ASSUME NEW n \in 1..N, n - 1 \in S
      PROVE  n \in S
  <2>1. PICK w : Part(n - 1, w)
    BY <1>2
  <2> DEFINE new == F[n][w[n - 1]]
             u == [k \in 0..n |-> IF k = n THEN new ELSE w[k]]
  <2>2. n \in Nat /\ n - 1 \in 0..(n - 1) /\ 0 # n /\ 0 \in 0..n /\ n \in 0..N
    OBVIOUS
  <2>3. new \in D
    BY <2>1, <2>2
  <2>4. u \in [0..n -> D] /\ u[0] = a
    <3>1. ASSUME NEW k \in 0..n, k # n
          PROVE  w[k] \in D
      BY <2>1, <2>2, <3>1
    <3>2. w[0] = a
      BY <2>1
    <3> HIDE DEF new
    <3>3. QED
      BY <2>2, <2>3, <3>1, <3>2
  <2>5. ASSUME NEW k \in 1..n
        PROVE  u[k] = F[k][u[k - 1]]
    <3>1. k \in 0..n /\ k - 1 \in 0..n /\ k - 1 # n
      BY <2>2
    <3>2. u[k - 1] = w[k - 1]
      BY <3>1
    <3>3. CASE k = n
      BY <3>1, <3>2, <3>3
    <3>4. CASE k # n
      <4>1. k \in 1..(n - 1)
        BY <2>2, <3>4
      <4>2. u[k] = w[k] /\ w[k] = F[k][w[k - 1]]
        BY <2>1, <3>1, <3>4, <4>1
      <4>3. QED
        BY <3>2, <4>2
    <3>5. QED
      BY <3>3, <3>4
  <2> HIDE DEF u
  <2>6. Part(n, u)
    BY <2>4, <2>5
  <2> HIDE DEF Part
  <2>7. QED
    BY <2>2, <2>6
<1>3. S = 0..N
  <2>1. S \in SUBSET (0..N)
    OBVIOUS
  <2> HIDE DEF S
  <2>2. QED
    BY <1>1, <1>2, <2>1, PassedOn
<1>4. PICK w : Part(N, w)
  <2>1. N \in S
    <3> HIDE DEF S
    <3>1. QED
      BY <1>3
  <2> HIDE DEF Part
  <2>2. QED
    BY <2>1
<1>5. w = [k \in 0..N |-> IF k = 0 THEN a ELSE F[k][w[k - 1]]]
  <2>1. \A k \in 0..N : k # 0 => k \in 1..N
    OBVIOUS
  <2>2. \A k \in 0..N : w[k] = IF k = 0 THEN a ELSE F[k][w[k - 1]]
    BY <1>4, <2>1
  <2>3. QED
    BY <1>4, <2>2
<1>6. QED
  BY <1>4, <1>5 DEF CanIterate, IsIteration

(* The root of each label exists if parents have smaller labels, and is    *)
(* the root of its parent.                                                 *)
ParentsBelow(parents) == \A l \in 1..Len(parents) : parents[l] \in 1..l
LEMMA RootOfParent ==
  ASSUME NEW parents \in Seq(Nat), ParentsBelow(parents)
  PROVE  \A l \in 1..Len(parents) :
           MinLabel(parents)[l] = IF parents[l] = l THEN l ELSE MinLabel(parents)[parents[l]]
<1> DEFINE N == Len(parents)
           Roots(n, r) == \A l \in 1..n : r[l] = IF parents[l] = l THEN l ELSE r[parents[l]]
           S == {n \in 0..N : \E r : Roots(n, r)}
           root == CHOOSE r : r = [l \in 1..N |-> IF parents[l] = l THEN l ELSE r[parents[l]]]
<1>0. N \in Nat
  BY LenProperties
<1>1. 0 \in S
  <2>1. Roots(0, <<>>)
    OBVIOUS
  <2> HIDE DEF Roots
  <2>2. QED
    BY <1>0, <2>1
<1>2. ASSUME NEW n \in 1..N, n - 1 \in S
      PROVE  n \in S
  <2>1. PICK r : Roots(n - 1, r)
    BY <1>2
  <2> DEFINE new == IF parents[n] = n THEN n ELSE r[parents[n]]
             u == [l \in 1..n |-> IF l = n THEN new ELSE r[l]]
  <2>2. n \in Nat /\ n \in 0..N
    BY <1>0
  <2>3. ASSUME NEW l \in 1..n
        PROVE  u[l] = IF parents[l] = l THEN l ELSE u[parents[l]]
    <3>1. l \in Nat /\ parents[l] \in 1..l
      BY <1>0, <2>2 DEF ParentsBelow
    <3>2. CASE l = n
      <4>1. u[l] = new
        BY <2>2, <3>2
      <4>2. parents[l] # l => parents[l] \in 1..n /\ parents[l] # n
        BY <2>2, <3>1, <3>2
      <4>3. parents[l] # l => u[parents[l]] = r[parents[l]]
        BY <4>2
      <4> HIDE DEF u
      <4>4. QED
        BY <3>2, <4>1, <4>3
    <3>3. CASE l # n
      <4>1. l \in 1..(n - 1) /\ parents[l] \in 1..n /\ parents[l] # n
        BY <2>2, <3>1, <3>3
      <4>2. u[l] = r[l] /\ u[parents[l]] = r[parents[l]]
        BY <3>3, <4>1
      <4>3. r[l] = IF parents[l] = l THEN l ELSE r[parents[l]]
        BY <2>1, <4>1
      <4> HIDE DEF u
      <4>4. QED
        BY <4>2, <4>3
    <3>4. QED
      BY <3>2, <3>3
  <2> HIDE DEF u
  <2>4. Roots(n, u)
    BY <2>3
  <2> HIDE DEF Roots
  <2>5. QED
    BY <2>2, <2>4
<1>3. S = 0..N
  <2>1. S \in SUBSET (0..N)
    OBVIOUS
  <2> HIDE DEF S, N
  <2>2. QED
    BY <1>0, <1>1, <1>2, <2>1, PassedOn
<1>4. PICK r : Roots(N, r)
  <2>1. N \in S
    <3> HIDE DEF S, N
    <3>1. QED
      BY <1>0, <1>3
  <2> HIDE DEF Roots, N
  <2>2. QED
    BY <2>1
<1> DEFINE u == [l \in 1..N |-> r[l]]
<1>5. u = [l \in 1..N |-> IF parents[l] = l THEN l ELSE u[parents[l]]]
  <2>1. ASSUME NEW l \in 1..N
        PROVE  r[l] = IF parents[l] = l THEN l ELSE u[parents[l]]
    <3>1. l \in Nat /\ parents[l] \in 1..l
      BY <1>0 DEF ParentsBelow
    <3>2. parents[l] \in 1..N
      BY <1>0, <3>1
    <3>3. u[parents[l]] = r[parents[l]]
      BY <3>2
    <3> HIDE DEF u
    <3>4. QED
      BY <1>4, <3>3
  <2>2. QED
    BY <2>1
<1> HIDE DEF u
<1>6. root = [l \in 1..N |-> IF parents[l] = l THEN l ELSE root[parents[l]]]
  <2> HIDE DEF N
  <2>1. QED
    BY <1>5
<1>7. MinLabel(parents) = root
  BY DEF MinLabel
<1> HIDE DEF root
<1>8. QED
  BY <1>6, <1>7

(* What has to be known of the pixels before p. *)
Traced == [Labels : [Pixels -> Nat], LabelParentList : Seq(Nat), met : BOOLEAN]
Known(image, p, s) ==
  \A q \in Pixels : /\ s.Labels[q] # 0 <=> q \in image /\ q <= p
                   /\ s.Labels[q] <= Len(s.LabelParentList)
Around(s, p) == {North(s.Labels, p), West(s.Labels, p)} \ {0}

(* A pixel has the neighbours that Touch says, on both sides.              *)
LEMMA Neighbours ==
  ASSUME NEW p \in Pixels
  PROVE  /\ p > Width => p - Width \in Pixels /\ p - Width < p /\ Touch(p - Width, p) /\ Touch(p, p - Width)
         /\ (p - 1) % Width > 0 => p - 1 \in Pixels /\ p - 1 < p /\ Touch(p - 1, p) /\ Touch(p, p - 1)
         /\ \A q \in Pixels : q < p /\ (Touch(q, p) \/ Touch(p, q)) =>
              (p > Width /\ q = p - Width) \/ ((p - 1) % Width > 0 /\ q = p - 1)
<1> DEFINE N == Width * Height
<1>1. Width \in Nat /\ Width >= 1 /\ N \in Nat /\ Pixels = 1..N
  BY ImageAssumption DEF Pixels
<1> HIDE DEF N
<1>2. p \in Nat /\ p >= 1 /\ p <= N
  BY <1>1
<1>3. (p - 1) % Width \in Nat
  BY <1>1, <1>2
<1>4. p > Width => p - Width \in Pixels /\ p - Width < p /\ (p - Width) + Width = p
  BY <1>1, <1>2
<1>5. ASSUME (p - 1) % Width > 0
      PROVE  p - 1 \in Pixels /\ p - 1 < p /\ (p - 1) + 1 = p
  <2>1. p # 1
    <3>1. 0 % Width = 0
      BY <1>1
    <3>2. QED
      BY <1>5, <3>1
  <2>2. QED
    BY <1>1, <1>2, <2>1
<1>6. p > Width => Touch(p - Width, p) /\ Touch(p, p - Width)
  BY <1>4 DEF Touch
<1>7. (p - 1) % Width > 0 => Touch(p - 1, p) /\ Touch(p, p - 1)
  BY <1>3, <1>5 DEF Touch
<1>8. ASSUME NEW q \in Pixels, q < p, Touch(q, p) \/ Touch(p, q)
      PROVE  (p > Width /\ q = p - Width) \/ ((p - 1) % Width > 0 /\ q = p - 1)
  <2>1. q \in Nat /\ q >= 1
    BY <1>1
  <2>2. \/ q + Width = p \/ (p = q + 1 /\ q % Width # 0)
    BY <1>1, <1>2, <1>8, <2>1 DEF Touch
  <2>3. CASE q + Width = p
    BY <1>1, <1>2, <2>1, <2>3
  <2>4. CASE p = q + 1 /\ q % Width # 0
    <3>1. q = p - 1
      BY <2>1, <2>4
    <3>2. QED
      BY <1>3, <2>4, <3>1
  <2>5. QED
    BY <2>2, <2>3, <2>4
<1>9. QED
  BY <1>4, <1>5, <1>6, <1>7, <1>8

LEMMA NeighboursLabels ==
  ASSUME NEW image \in SUBSET Pixels, NEW p \in Pixels, NEW s \in Traced, Known(image, p - 1, s)
  PROVE  /\ North(s.Labels, p) \in Nat /\ West(s.Labels, p) \in Nat
         /\ \A m \in Around(s, p) : /\ m \in 1..Len(s.LabelParentList)
                                  /\ \E q \in image : s.Labels[q] = m /\ Touch(q, p) /\ Touch(p, q)
         /\ \A q \in Pixels : s.Labels[q] # 0 /\ (Touch(q, p) \/ Touch(p, q)) =>
              s.Labels[q] \in Around(s, p)
<1>1. /\ p > Width => p - Width \in Pixels /\ p - Width < p /\ Touch(p - Width, p) /\ Touch(p, p - Width)
      /\ (p - 1) % Width > 0 => p - 1 \in Pixels /\ p - 1 < p /\ Touch(p - 1, p) /\ Touch(p, p - 1)
      /\ \A q \in Pixels : q < p /\ (Touch(q, p) \/ Touch(p, q)) =>
              (p > Width /\ q = p - Width) \/ ((p - 1) % Width > 0 /\ q = p - 1)
  BY Neighbours
<1>2. s.Labels \in [Pixels -> Nat] /\ s.LabelParentList \in Seq(Nat)
  BY DEF Traced
<1>3. Len(s.LabelParentList) \in Nat
  BY <1>2, LenProperties
<1>4. p \in Nat /\ \A q \in Pixels : q \in Nat
  BY ImageAssumption DEF Pixels
<1>5. ASSUME NEW q \in Pixels, s.Labels[q] # 0
      PROVE  q \in image /\ q < p /\ s.Labels[q] \in 1..Len(s.LabelParentList)
  <2>1. q \in image /\ q <= p - 1 /\ s.Labels[q] <= Len(s.LabelParentList)
    BY <1>5 DEF Known
  <2>2. q \in Nat /\ s.Labels[q] \in Nat
    BY <1>2, <1>4
  <2>3. QED
    BY <1>3, <1>4, <1>5, <2>1, <2>2
<1>6. North(s.Labels, p) = IF p > Width THEN s.Labels[p - Width] ELSE 0
  BY DEF North
<1>7. West(s.Labels, p) = IF (p - 1) % Width > 0 THEN s.Labels[p - 1] ELSE 0
  BY DEF West
<1>8. North(s.Labels, p) \in Nat /\ West(s.Labels, p) \in Nat
  BY <1>1, <1>2, <1>6, <1>7
<1>9. ASSUME NEW m \in Around(s, p)
      PROVE  /\ m \in 1..Len(s.LabelParentList)
             /\ \E q \in image : s.Labels[q] = m /\ Touch(q, p) /\ Touch(p, q)
  <2>1. \E q \in Pixels : s.Labels[q] = m /\ m # 0 /\ Touch(q, p) /\ Touch(p, q)
    BY <1>1, <1>6, <1>7 DEF Around
  <2>2. QED
    BY <1>5, <2>1
<1>10. ASSUME NEW q \in Pixels, s.Labels[q] # 0, Touch(q, p) \/ Touch(p, q)
       PROVE  s.Labels[q] \in Around(s, p)
  <2>1. (p > Width /\ q = p - Width) \/ ((p - 1) % Width > 0 /\ q = p - 1)
    BY <1>1, <1>5, <1>10
  <2>2. QED
    BY <1>6, <1>7, <1>10, <2>1 DEF Around
<1>11. QED
  BY <1>8, <1>9, <1>10

(* The cases of a pixel: no neighbour has a label, one label is around it, *)
(* or two.                                                                 *)
Labelling(s, p, t) ==
  \E m \in Nat :
    /\ m # 0 /\ t.Labels = [s.Labels EXCEPT ![p] = m]
    /\ \/ /\ Around(s, p) = {} /\ m = Len(s.LabelParentList) + 1
          /\ t.LabelParentList = Append(s.LabelParentList, m) /\ t.met = s.met
       \/ /\ Around(s, p) = {m}
          /\ t.LabelParentList = s.LabelParentList /\ t.met = s.met
       \/ \E large \in Nat :
            /\ Around(s, p) = {m, large} /\ m < large
            /\ t.LabelParentList = [s.LabelParentList EXCEPT ![large] = m]
            /\ t.met = (s.met \/ s.LabelParentList[large] \notin {m, large})
LEMMA LabelPixelIs ==
  ASSUME NEW p \in Pixels, NEW s \in Traced,
         North(s.Labels, p) \in Nat, West(s.Labels, p) \in Nat
  PROVE  LabelPixel(s, p) \in Traced /\ Labelling(s, p, LabelPixel(s, p))
<1> DEFINE north == North(s.Labels, p)
           west == West(s.Labels, p)
           parents == s.LabelParentList
           new == Len(parents) + 1
           small == Smaller(north, west)
           large == Larger(north, west)
           t == LabelPixel(s, p)
<1>1. /\ s = [Labels |-> s.Labels, LabelParentList |-> parents, met |-> s.met]
      /\ s.Labels \in [Pixels -> Nat] /\ parents \in Seq(Nat) /\ s.met \in BOOLEAN
  BY DEF Traced
<1>2. new \in Nat /\ new # 0
  BY <1>1, LenProperties
<1>3. /\ small \in Nat /\ large \in Nat /\ small <= large /\ {small, large} = {north, west}
      /\ Around(s, p) = {small, large} \ {0}
  BY DEF Smaller, Larger, Around
<1> HIDE DEF north, west, small, large, t
<1>4. CASE large = 0
  <2>1. t = [s EXCEPT !.Labels[p] = new, !.LabelParentList = Append(@, new)]
    <3>1. small = 0
      BY <1>3, <1>4
    <3>2. QED
      BY <1>4, <3>1 DEF t, LabelPixel, north, west, small, large
  <2>2. /\ t.Labels = [s.Labels EXCEPT ![p] = new] /\ t.LabelParentList = Append(parents, new)
        /\ t.met = s.met /\ t = [Labels |-> t.Labels, LabelParentList |-> t.LabelParentList, met |-> t.met]
    BY <1>1, <2>1
  <2>3. Around(s, p) = {}
    BY <1>3, <1>4
  <2>4. t.Labels \in [Pixels -> Nat] /\ t.LabelParentList \in Seq(Nat)
    BY <1>1, <1>2, <2>2, AppendProperties
  <2>5. t \in Traced
    BY <1>1, <2>2, <2>4 DEF Traced
  <2>6. Labelling(s, p, t)
    BY <1>2, <2>2, <2>3 DEF Labelling
  <2>7. QED
    BY <2>5, <2>6 DEF t
<1>5. CASE large # 0 /\ (small = 0 \/ small = large)
  <2>1. t = [s EXCEPT !.Labels[p] = large]
    BY <1>5 DEF t, LabelPixel, north, west, small, large
  <2>2. /\ t.Labels = [s.Labels EXCEPT ![p] = large] /\ t.LabelParentList = parents
        /\ t.met = s.met /\ t = [Labels |-> t.Labels, LabelParentList |-> t.LabelParentList, met |-> t.met]
    BY <1>1, <2>1
  <2>3. Around(s, p) = {large}
    BY <1>3, <1>5
  <2>4. t.Labels \in [Pixels -> Nat]
    BY <1>1, <1>3, <2>2
  <2>5. t \in Traced
    BY <1>1, <2>2, <2>4 DEF Traced
  <2>6. Labelling(s, p, t)
    BY <1>3, <1>5, <2>2, <2>3 DEF Labelling
  <2>7. QED
    BY <2>5, <2>6 DEF t
<1>6. CASE small # 0 /\ small # large
  <2>1. t = [s EXCEPT !.Labels[p] = small, !.LabelParentList = [@ EXCEPT ![large] = small],
                      !.met = @ \/ parents[large] \notin {small, large}]
    <3>1. large # 0
      BY <1>3, <1>6
    <3>2. QED
      BY <1>6, <3>1 DEF t, LabelPixel, SetParent, north, west, small, large
  <2>2. /\ t.Labels = [s.Labels EXCEPT ![p] = small]
        /\ t.LabelParentList = [parents EXCEPT ![large] = small]
        /\ t.met = (s.met \/ parents[large] \notin {small, large})
        /\ t = [Labels |-> t.Labels, LabelParentList |-> t.LabelParentList, met |-> t.met]
    BY <1>1, <2>1
  <2>3. Around(s, p) = {small, large} /\ small < large
    BY <1>3, <1>6
  <2>4. t.Labels \in [Pixels -> Nat] /\ t.LabelParentList \in Seq(Nat) /\ t.met \in BOOLEAN
    <3>1. t.Labels \in [Pixels -> Nat] /\ t.met \in BOOLEAN
      BY <1>1, <1>3, <2>2
    <3>2. t.LabelParentList \in Seq(Nat)
      <4>1. CASE large \in 1..Len(parents)
        BY <1>1, <1>3, <2>2, <4>1, ExceptSeq
      <4>2. CASE large \notin 1..Len(parents)
        <5>1. DOMAIN parents = 1..Len(parents) /\ parents = [l \in DOMAIN parents |-> parents[l]]
          BY <1>1, LenProperties
        <5>2. t.LabelParentList = parents
          BY <2>2, <4>2, <5>1
        <5>3. QED
          BY <1>1, <5>2
      <4>3. QED
        BY <4>1, <4>2
    <3>3. QED
      BY <3>1, <3>2
  <2>5. t \in Traced
    BY <2>2, <2>4 DEF Traced
  <2>6. Labelling(s, p, t)
    BY <1>3, <1>6, <2>2, <2>3 DEF Labelling
  <2>7. QED
    BY <2>5, <2>6 DEF t
<1>7. QED
  BY <1>4, <1>5, <1>6

(* The first pass: a region is never divided by labels that lead to each   *)
(* other, and of two pixels that touch one label is the parent of the other *)
(* until a label has lost a parent.                                        *)
Closed(image, R) == R \subseteq image /\ \A q \in R, r \in image : Touch(q, r) => r \in R
Divided(s, R, L) ==
  /\ \A q \in Pixels : s.Labels[q] # 0 => (q \in R <=> s.Labels[q] \in L)
  /\ \A l \in 1..Len(s.LabelParentList) : l \in L <=> s.LabelParentList[l] \in L
AllDivided(image, s) == \A R : Closed(image, R) => \E L : Divided(s, R, L)
Connected(parents, a, b) == a = b \/ parents[a] = b \/ parents[b] = a
Joined(s) ==
  \A q \in Pixels, r \in Pixels :
    s.Labels[q] # 0 /\ s.Labels[r] # 0 /\ Touch(q, r) =>
      Connected(s.LabelParentList, s.Labels[q], s.Labels[r])
Labelled(image, p, s) ==
  /\ s \in Traced /\ Known(image, p, s) /\ ParentsBelow(s.LabelParentList)
  /\ AllDivided(image, s) /\ (~s.met => Joined(s))

Near(image, p, s) ==
  /\ \A m \in Around(s, p) : /\ m \in 1..Len(s.LabelParentList)
                            /\ \E q \in image : s.Labels[q] = m /\ Touch(q, p) /\ Touch(p, q)
  /\ \A q \in Pixels : s.Labels[q] # 0 /\ (Touch(q, p) \/ Touch(p, q)) => s.Labels[q] \in Around(s, p)
Onward(image, p, s, t) ==
  /\ image \subseteq Pixels /\ p \in image /\ Labelled(image, p - 1, s) /\ Near(image, p, s)
  /\ t \in Traced /\ Labelling(s, p, t)

(* What changes in the list of parents. *)
NewLabel(s, p, t, m) ==
  /\ Around(s, p) = {} /\ m = Len(s.LabelParentList) + 1
  /\ Len(t.LabelParentList) = m /\ t.LabelParentList[m] = m
  /\ \A l \in 1..Len(s.LabelParentList) : t.LabelParentList[l] = s.LabelParentList[l]
  /\ t.met = s.met
OneLabel(s, p, t, m) ==
  Around(s, p) = {m} /\ t.LabelParentList = s.LabelParentList /\ t.met = s.met
TwoLabels(s, p, t, m, large) ==
  /\ Around(s, p) = {m, large} /\ m < large
  /\ Len(t.LabelParentList) = Len(s.LabelParentList) /\ t.LabelParentList[large] = m
  /\ \A l \in 1..Len(s.LabelParentList) : l # large => t.LabelParentList[l] = s.LabelParentList[l]
  /\ t.met = (s.met \/ s.LabelParentList[large] \notin {m, large})
NewParents(s, p, t, m) ==
  \/ NewLabel(s, p, t, m) \/ OneLabel(s, p, t, m)
  \/ \E large \in 1..Len(s.LabelParentList) : TwoLabels(s, p, t, m, large)
OnwardWith(image, p, s, t, m) ==
  /\ m \in Nat /\ m # 0 /\ t.Labels = [s.Labels EXCEPT ![p] = m] /\ NewParents(s, p, t, m)
LEMMA OnwardParts ==
  ASSUME NEW image, NEW p, NEW s, NEW t, Onward(image, p, s, t)
  PROVE  \E m : OnwardWith(image, p, s, t, m)
<1>1. s.LabelParentList \in Seq(Nat)
  BY DEF Onward, Labelled, Traced
<1>2. PICK m \in Nat :
        /\ m # 0 /\ t.Labels = [s.Labels EXCEPT ![p] = m]
        /\ \/ /\ Around(s, p) = {} /\ m = Len(s.LabelParentList) + 1
              /\ t.LabelParentList = Append(s.LabelParentList, m) /\ t.met = s.met
           \/ /\ Around(s, p) = {m}
              /\ t.LabelParentList = s.LabelParentList /\ t.met = s.met
           \/ \E large \in Nat :
                /\ Around(s, p) = {m, large} /\ m < large
                /\ t.LabelParentList = [s.LabelParentList EXCEPT ![large] = m]
                /\ t.met = (s.met \/ s.LabelParentList[large] \notin {m, large})
  BY DEF Onward, Labelling
<1>3. \A l \in Around(s, p) : l \in 1..Len(s.LabelParentList)
  BY DEF Onward, Near
<1>4. CASE /\ Around(s, p) = {} /\ m = Len(s.LabelParentList) + 1
           /\ t.LabelParentList = Append(s.LabelParentList, m) /\ t.met = s.met
  <2>1. /\ Len(t.LabelParentList) = m /\ t.LabelParentList[m] = m
        /\ \A l \in 1..Len(s.LabelParentList) : t.LabelParentList[l] = s.LabelParentList[l]
    BY <1>1, <1>4, AppendProperties
  <2>2. NewParents(s, p, t, m)
    BY <1>4, <2>1 DEF NewParents, NewLabel
  <2>3. QED
    BY <1>2, <2>2 DEF OnwardWith
<1>5. CASE /\ Around(s, p) = {m} /\ t.LabelParentList = s.LabelParentList /\ t.met = s.met
  <2>1. NewParents(s, p, t, m)
    BY <1>5 DEF NewParents, OneLabel
  <2>2. QED
    BY <1>2, <2>1 DEF OnwardWith
<1>6. ASSUME NEW large \in Nat, Around(s, p) = {m, large}, m < large,
             t.LabelParentList = [s.LabelParentList EXCEPT ![large] = m],
             t.met = (s.met \/ s.LabelParentList[large] \notin {m, large})
      PROVE  OnwardWith(image, p, s, t, m)
  <2>1. large \in 1..Len(s.LabelParentList)
    BY <1>3, <1>6
  <2>2. /\ Len(t.LabelParentList) = Len(s.LabelParentList) /\ t.LabelParentList[large] = m
        /\ \A l \in 1..Len(s.LabelParentList) : l # large => t.LabelParentList[l] = s.LabelParentList[l]
    BY <1>1, <1>6, <2>1, ExceptSeq
  <2>3. NewParents(s, p, t, m)
    BY <1>6, <2>1, <2>2 DEF NewParents, TwoLabels
  <2>4. QED
    BY <1>2, <2>3 DEF OnwardWith
<1>7. QED
  BY <1>2, <1>4, <1>5, <1>6

LEMMA OnwardFacts ==
  ASSUME NEW image, NEW p, NEW s, NEW t, Onward(image, p, s, t)
  PROVE  /\ image \subseteq Pixels /\ p \in image /\ p \in Nat /\ (\A q \in Pixels : q \in Nat)
         /\ s.Labels \in [Pixels -> Nat] /\ Len(s.LabelParentList) \in Nat
         /\ \A q \in Pixels : s.Labels[q] # 0 =>
              q # p /\ q \in image /\ s.Labels[q] \in 1..Len(s.LabelParentList)
<1>1. /\ image \subseteq Pixels /\ p \in image /\ p \in Nat /\ (\A q \in Pixels : q \in Nat)
      /\ s.Labels \in [Pixels -> Nat] /\ s.LabelParentList \in Seq(Nat)
  BY ImageAssumption DEF Onward, Labelled, Traced, Pixels
<1>2. Len(s.LabelParentList) \in Nat
  BY <1>1, LenProperties
<1>3. Known(image, p - 1, s)
  BY DEF Onward, Labelled
<1>4. ASSUME NEW q \in Pixels, s.Labels[q] # 0
      PROVE  q # p /\ q \in image /\ s.Labels[q] \in 1..Len(s.LabelParentList)
  <2>1. q \in image /\ q <= p - 1 /\ s.Labels[q] <= Len(s.LabelParentList)
    BY <1>3, <1>4 DEF Known
  <2>2. q \in Nat /\ s.Labels[q] \in Nat
    BY <1>1
  <2>3. QED
    BY <1>1, <1>2, <1>4, <2>1, <2>2
<1>5. QED
  BY <1>1, <1>2, <1>4

LEMMA KnownKept ==
  ASSUME NEW image, NEW p, NEW s, NEW t, Onward(image, p, s, t)
  PROVE  Known(image, p, t) /\ ParentsBelow(t.LabelParentList)
<1>1. /\ image \subseteq Pixels /\ p \in image /\ p \in Nat /\ (\A q \in Pixels : q \in Nat)
      /\ s.Labels \in [Pixels -> Nat] /\ Len(s.LabelParentList) \in Nat
  BY OnwardFacts
<1>2. PICK m : OnwardWith(image, p, s, t, m)
  BY OnwardParts
<1>3. m \in Nat /\ m # 0 /\ t.Labels = [s.Labels EXCEPT ![p] = m] /\ NewParents(s, p, t, m)
  BY <1>2 DEF OnwardWith
<1>4. /\ Known(image, p - 1, s) /\ ParentsBelow(s.LabelParentList)
      /\ \A l \in Around(s, p) : l \in 1..Len(s.LabelParentList)
  BY DEF Onward, Labelled, Near
<1>5. /\ m <= Len(t.LabelParentList) /\ Len(s.LabelParentList) <= Len(t.LabelParentList)
      /\ \A l \in 1..Len(t.LabelParentList) :
           \/ t.LabelParentList[l] = m /\ m <= l
           \/ l <= Len(s.LabelParentList) /\ t.LabelParentList[l] = s.LabelParentList[l]
  <2>1. CASE NewLabel(s, p, t, m)
    BY <1>1, <2>1 DEF NewLabel
  <2>2. CASE OneLabel(s, p, t, m)
    <3>1. m \in Around(s, p)
      BY <2>2 DEF OneLabel
    <3>2. QED
      BY <1>1, <1>4, <2>2, <3>1 DEF OneLabel
  <2>3. ASSUME NEW large \in 1..Len(s.LabelParentList), TwoLabels(s, p, t, m, large)
        PROVE  /\ m <= Len(t.LabelParentList) /\ Len(s.LabelParentList) <= Len(t.LabelParentList)
               /\ \A l \in 1..Len(t.LabelParentList) :
                    \/ t.LabelParentList[l] = m /\ m <= l
                    \/ l <= Len(s.LabelParentList) /\ t.LabelParentList[l] = s.LabelParentList[l]
    BY <1>1, <1>3, <2>3 DEF TwoLabels
  <2>4. QED
    BY <1>3, <2>1, <2>2, <2>3 DEF NewParents
<1>6. Len(t.LabelParentList) \in Nat
  BY LenProperties DEF Onward, Traced
<1>7. ASSUME NEW l \in 1..Len(t.LabelParentList)
      PROVE  t.LabelParentList[l] \in 1..l
  <2>1. l <= Len(s.LabelParentList) => s.LabelParentList[l] \in 1..l
    BY <1>1, <1>4, <1>6 DEF ParentsBelow
  <2>2. QED
    BY <1>3, <1>5, <1>6, <2>1
<1>8. ASSUME NEW q \in Pixels
      PROVE  /\ t.Labels[q] # 0 <=> q \in image /\ q <= p
             /\ t.Labels[q] <= Len(t.LabelParentList)
  <2>1. CASE q = p
    <3>1. t.Labels[q] = m
      BY <1>1, <1>3, <2>1
    <3>2. QED
      BY <1>1, <1>3, <1>5, <2>1, <3>1
  <2>2. CASE q # p
    <3>1. t.Labels[q] = s.Labels[q]
      BY <1>1, <1>3, <2>2
    <3>2. (s.Labels[q] # 0 <=> q \in image /\ q <= p - 1) /\ s.Labels[q] <= Len(s.LabelParentList)
      BY <1>4 DEF Known
    <3>3. q \in Nat /\ (q <= p - 1 <=> q <= p) /\ s.Labels[q] \in Nat
      BY <1>1, <2>2
    <3>4. QED
      BY <1>1, <1>5, <1>6, <3>1, <3>2, <3>3
  <2>3. QED
    BY <2>1, <2>2
<1>9. QED
  BY <1>7, <1>8 DEF Known, ParentsBelow

LEMMA DividedKept ==
  ASSUME NEW image, NEW p, NEW s, NEW t, Onward(image, p, s, t)
  PROVE  AllDivided(image, t)
<1>1. /\ image \subseteq Pixels /\ p \in image
      /\ s.Labels \in [Pixels -> Nat] /\ Len(s.LabelParentList) \in Nat
      /\ \A q \in Pixels : s.Labels[q] # 0 =>
              q # p /\ q \in image /\ s.Labels[q] \in 1..Len(s.LabelParentList)
  BY OnwardFacts
<1>2. PICK m : OnwardWith(image, p, s, t, m)
  BY OnwardParts
<1>3. m \in Nat /\ m # 0 /\ t.Labels = [s.Labels EXCEPT ![p] = m] /\ NewParents(s, p, t, m)
  BY <1>2 DEF OnwardWith
<1>4. /\ AllDivided(image, s) /\ ParentsBelow(s.LabelParentList)
      /\ \A l \in Around(s, p) : /\ l \in 1..Len(s.LabelParentList)
                                /\ \E q \in image : s.Labels[q] = l /\ Touch(q, p) /\ Touch(p, q)
  BY DEF Onward, Labelled, Near
<1>5. t.Labels[p] = m /\ \A q \in Pixels : q # p => t.Labels[q] = s.Labels[q]
  BY <1>1, <1>3
<1>6. ASSUME NEW R, Closed(image, R)
      PROVE  \E L : Divided(t, R, L)
  <2>1. PICK L : Divided(s, R, L)
    BY <1>4, <1>6 DEF AllDivided
  <2>2. ASSUME NEW l \in Around(s, p)
        PROVE  p \in R <=> l \in L
    <3>1. PICK q \in image : s.Labels[q] = l /\ Touch(q, p) /\ Touch(p, q)
      BY <1>4
    <3>2. q \in R <=> p \in R
      BY <1>1, <1>6, <3>1 DEF Closed
    <3>3. l # 0 /\ q \in Pixels
      BY <1>1, <1>4
    <3>4. QED
      BY <2>1, <3>1, <3>2, <3>3 DEF Divided
  <2>3. CASE NewLabel(s, p, t, m)
    <3>0. /\ m = Len(s.LabelParentList) + 1
          /\ Len(t.LabelParentList) = m /\ t.LabelParentList[m] = m
          /\ \A l \in 1..Len(s.LabelParentList) : t.LabelParentList[l] = s.LabelParentList[l]
      BY <2>3 DEF NewLabel
    <3> DEFINE K == IF p \in R THEN L \cup {m} ELSE L \ {m}
    <3>1. (m \in K <=> p \in R) /\ \A l : l # m => (l \in K <=> l \in L)
      OBVIOUS
    <3> HIDE DEF K
    <3>2. ASSUME NEW q \in Pixels, t.Labels[q] # 0
          PROVE  q \in R <=> t.Labels[q] \in K
      <4>1. CASE q = p
        BY <1>5, <3>1, <4>1
      <4>2. CASE q # p
        <5>1. t.Labels[q] = s.Labels[q] /\ s.Labels[q] \in 1..Len(s.LabelParentList)
          BY <1>1, <1>5, <3>2, <4>2
        <5>2. s.Labels[q] # m
          BY <1>1, <3>0, <5>1
        <5>3. q \in R <=> s.Labels[q] \in L
          BY <2>1, <3>2, <5>1 DEF Divided
        <5>4. QED
          BY <3>1, <5>1, <5>2, <5>3
      <4>3. QED
        BY <4>1, <4>2
    <3>3. ASSUME NEW l \in 1..Len(t.LabelParentList)
          PROVE  l \in K <=> t.LabelParentList[l] \in K
      <4>1. CASE l = m
        BY <3>0, <4>1
      <4>2. CASE l # m
        <5>1. l \in 1..Len(s.LabelParentList)
          BY <1>1, <3>0, <4>2
        <5>2. t.LabelParentList[l] = s.LabelParentList[l] /\ s.LabelParentList[l] \in 1..l
          BY <1>4, <3>0, <5>1 DEF ParentsBelow
        <5>3. s.LabelParentList[l] # m
          BY <1>1, <3>0, <5>1, <5>2
        <5>4. l \in L <=> s.LabelParentList[l] \in L
          BY <2>1, <5>1 DEF Divided
        <5>5. QED
          BY <3>1, <4>2, <5>2, <5>3, <5>4
      <4>3. QED
        BY <4>1, <4>2
    <3>4. Divided(t, R, K)
      BY <3>2, <3>3 DEF Divided
    <3>5. QED
      BY <3>4
  <2>4. CASE m \in Around(s, p)
    <3>1. ASSUME NEW q \in Pixels, t.Labels[q] # 0
          PROVE  q \in R <=> t.Labels[q] \in L
      <4>1. CASE q = p
        BY <1>5, <2>2, <2>4, <4>1
      <4>2. CASE q # p
        <5>1. t.Labels[q] = s.Labels[q]
          BY <1>5, <4>2
        <5>2. QED
          BY <2>1, <3>1, <5>1 DEF Divided
      <4>3. QED
        BY <4>1, <4>2
    <3>2. /\ Len(t.LabelParentList) = Len(s.LabelParentList)
          /\ \A l \in 1..Len(s.LabelParentList) :
               t.LabelParentList[l] = s.LabelParentList[l] \/ (l \in Around(s, p) /\ t.LabelParentList[l] = m)
      <4>1. CASE NewLabel(s, p, t, m)
        BY <2>4, <4>1 DEF NewLabel
      <4>2. CASE OneLabel(s, p, t, m)
        BY <4>2 DEF OneLabel
      <4>3. ASSUME NEW large \in 1..Len(s.LabelParentList), TwoLabels(s, p, t, m, large)
            PROVE  /\ Len(t.LabelParentList) = Len(s.LabelParentList)
                   /\ \A l \in 1..Len(s.LabelParentList) :
                        t.LabelParentList[l] = s.LabelParentList[l] \/ (l \in Around(s, p) /\ t.LabelParentList[l] = m)
        BY <4>3 DEF TwoLabels
      <4>4. QED
        BY <1>3, <4>1, <4>2, <4>3 DEF NewParents
    <3>3. ASSUME NEW l \in 1..Len(t.LabelParentList)
          PROVE  l \in L <=> t.LabelParentList[l] \in L
      <4>1. l \in 1..Len(s.LabelParentList)
        BY <3>2
      <4>2. l \in L <=> s.LabelParentList[l] \in L
        BY <2>1, <4>1 DEF Divided
      <4>3. l \in Around(s, p) => (l \in L <=> m \in L)
        BY <2>2, <2>4
      <4>4. QED
        BY <3>2, <4>1, <4>2, <4>3
    <3>4. Divided(t, R, L)
      BY <3>1, <3>3 DEF Divided
    <3>5. QED
      BY <3>4
  <2>5. m \in Around(s, p) \/ NewLabel(s, p, t, m)
    BY <1>3 DEF NewParents, OneLabel, TwoLabels
  <2>6. QED
    BY <2>3, <2>4, <2>5
<1>7. QED
  BY <1>6 DEF AllDivided

LEMMA JoinedKept ==
  ASSUME NEW image, NEW p, NEW s, NEW t, Onward(image, p, s, t), ~t.met
  PROVE  Joined(t)
<1>1. /\ image \subseteq Pixels /\ p \in image
      /\ s.Labels \in [Pixels -> Nat] /\ Len(s.LabelParentList) \in Nat
      /\ \A q \in Pixels : s.Labels[q] # 0 =>
              q # p /\ q \in image /\ s.Labels[q] \in 1..Len(s.LabelParentList)
  BY OnwardFacts
<1>2. PICK m : OnwardWith(image, p, s, t, m)
  BY OnwardParts
<1>3. m \in Nat /\ m # 0 /\ t.Labels = [s.Labels EXCEPT ![p] = m] /\ NewParents(s, p, t, m)
  BY <1>2 DEF OnwardWith
<1>4. /\ ~s.met => Joined(s)
      /\ \A q \in Pixels : s.Labels[q] # 0 /\ (Touch(q, p) \/ Touch(p, q)) => s.Labels[q] \in Around(s, p)
  BY DEF Onward, Labelled, Near
<1>5. t.Labels[p] = m /\ \A q \in Pixels : q # p => t.Labels[q] = s.Labels[q]
  BY <1>1, <1>3
<1>6. ASSUME NEW l \in Around(s, p)
      PROVE  l = m \/ t.LabelParentList[l] = m
  BY <1>3 DEF NewParents, NewLabel, OneLabel, TwoLabels
<1>7. ASSUME NEW a \in 1..Len(s.LabelParentList), NEW b \in 1..Len(s.LabelParentList),
             s.LabelParentList[a] = b
      PROVE  ~s.met /\ (a = b \/ t.LabelParentList[a] = b)
  BY <1>3, <1>7 DEF NewParents, NewLabel, OneLabel, TwoLabels
<1>8. ~s.met
  BY <1>3 DEF NewParents, NewLabel, OneLabel, TwoLabels
<1>9. ASSUME NEW q \in Pixels, NEW r \in Pixels, t.Labels[q] # 0, t.Labels[r] # 0, Touch(q, r)
      PROVE  Connected(t.LabelParentList, t.Labels[q], t.Labels[r])
  <2>1. CASE q = p /\ r = p
    BY <2>1 DEF Connected
  <2>2. CASE q = p /\ r # p
    <3>1. t.Labels[r] = s.Labels[r] /\ t.Labels[q] = m /\ s.Labels[r] \in Around(s, p)
      BY <1>4, <1>5, <1>9, <2>2
    <3>2. QED
      BY <1>6, <3>1 DEF Connected
  <2>3. CASE q # p /\ r = p
    <3>1. t.Labels[q] = s.Labels[q] /\ t.Labels[r] = m /\ s.Labels[q] \in Around(s, p)
      BY <1>4, <1>5, <1>9, <2>3
    <3>2. QED
      BY <1>6, <3>1 DEF Connected
  <2>4. CASE q # p /\ r # p
    <3>1. t.Labels[q] = s.Labels[q] /\ t.Labels[r] = s.Labels[r]
      BY <1>5, <2>4
    <3>2. /\ s.Labels[q] \in 1..Len(s.LabelParentList) /\ s.Labels[r] \in 1..Len(s.LabelParentList)
          /\ Connected(s.LabelParentList, s.Labels[q], s.Labels[r])
      BY <1>1, <1>4, <1>8, <1>9, <3>1 DEF Joined
    <3>3. QED
      BY <1>7, <3>1, <3>2 DEF Connected
  <2>5. QED
    BY <2>1, <2>2, <2>3, <2>4
<1>10. QED
  BY <1>9 DEF Joined

LEMMA NorthWestNumbers ==
  ASSUME NEW p \in Pixels, NEW s \in Traced
  PROVE  North(s.Labels, p) \in Nat /\ West(s.Labels, p) \in Nat
<1>1. /\ p > Width => p - Width \in Pixels
      /\ (p - 1) % Width > 0 => p - 1 \in Pixels
  BY Neighbours
<1>2. s.Labels \in [Pixels -> Nat]
  BY DEF Traced
<1>3. QED
  BY <1>1, <1>2 DEF North, West

(* What the first pass leaves.                                             *)
LEMMA FirstPassIs ==
  ASSUME NEW image \in SUBSET Pixels
  PROVE  Labelled(image, Width * Height, FirstPass(image))
<1> DEFINE N == Width * Height
           Next1(k, s) == IF k \in image THEN LabelPixel(s, k) ELSE s
           F == [k \in 1..N |-> [s \in Traced |-> Next1(k, s)]]
           pass == CHOOSE f : f = [p \in 0..Width * Height |->
                                     IF p = 0 THEN NoLabels
                                     ELSE LET s == f[p - 1] IN IF p \in image THEN LabelPixel(s, p) ELSE s]
<1>1. N \in Nat /\ Pixels = 1..N
  BY ImageAssumption DEF Pixels
<1>2. NoLabels \in Traced
  <2>1. <<>> \in Seq(Nat)
    BY EmptySeq
  <2>2. QED
    BY <2>1 DEF NoLabels, Traced
<1>3. F \in [1..N -> [Traced -> Traced]]
  <2>1. ASSUME NEW k \in 1..N, NEW s \in Traced
        PROVE  Next1(k, s) \in Traced
    <3>1. k \in Pixels
      BY <1>1
    <3>2. North(s.Labels, k) \in Nat /\ West(s.Labels, k) \in Nat
      BY <3>1, NorthWestNumbers
    <3>3. LabelPixel(s, k) \in Traced
      BY <3>1, <3>2, LabelPixelIs
    <3>4. QED
      BY <3>3
  <2> HIDE DEF N, Next1
  <2>2. QED
    BY <2>1
<1>4. PICK w : IsIteration(Traced, NoLabels, N, F, w)
  <2> HIDE DEF N, F
  <2>1. CanIterate(Traced, NoLabels, N, F)
    BY <1>1, <1>2, <1>3, IterationExists
  <2>2. QED
    BY <2>1 DEF CanIterate
<1>5. w \in [0..N -> Traced] /\ w = [k \in 0..N |-> IF k = 0 THEN NoLabels ELSE F[k][w[k - 1]]]
  <2> HIDE DEF N, F
  <2>1. QED
    BY <1>4 DEF IsIteration
<1>6. w = [k \in 0..N |-> IF k = 0 THEN NoLabels ELSE Next1(k, w[k - 1])]
  <2>1. ASSUME NEW k \in 0..N, k # 0
        PROVE  F[k][w[k - 1]] = Next1(k, w[k - 1])
    <3>1. k \in 1..N /\ k - 1 \in 0..N
      BY <1>1, <2>1
    <3>2. w[k - 1] \in Traced
      BY <1>5, <3>1
    <3> HIDE DEF N, Next1
    <3>3. QED
      BY <3>1, <3>2
  <2> HIDE DEF N, F, Next1
  <2>2. QED
    BY <1>5, <2>1
<1>7. pass = [k \in 0..N |-> IF k = 0 THEN NoLabels ELSE Next1(k, pass[k - 1])]
  <2>1. w = [p \in 0..Width * Height |->
                IF p = 0 THEN NoLabels
                ELSE LET s == w[p - 1] IN IF p \in image THEN LabelPixel(s, p) ELSE s]
    BY <1>6
  <2>2. pass = [p \in 0..Width * Height |->
                IF p = 0 THEN NoLabels
                ELSE LET s == pass[p - 1] IN IF p \in image THEN LabelPixel(s, p) ELSE s]
    BY <2>1
  <2> HIDE DEF pass
  <2>3. QED
    BY <2>2
<1>8. FirstPass(image) = pass[N]
  BY DEF FirstPass
<1> HIDE DEF pass, F
<1> DEFINE P == {k \in 0..N : Labelled(image, k, pass[k])}
<1>9. 0 \in P
  <2>1. pass[0] = NoLabels /\ 0 \in 0..N
    BY <1>1, <1>7
  <2>2. Known(image, 0, NoLabels)
    <3>1. \A q \in Pixels : q \in Nat /\ q >= 1
      BY <1>1
    <3>2. Len(<<>>) = 0
      OBVIOUS
    <3>3. QED
      BY <3>1, <3>2 DEF Known, NoLabels
  <2>3. ParentsBelow(NoLabels.LabelParentList) /\ Joined(NoLabels)
    BY DEF ParentsBelow, NoLabels, Joined
  <2>4. AllDivided(image, NoLabels)
    <3>1. \A R : Divided(NoLabels, R, {})
      BY DEF Divided, NoLabels
    <3>2. QED
      BY <3>1 DEF AllDivided
  <2>5. Labelled(image, 0, NoLabels)
    BY <1>2, <2>2, <2>3, <2>4 DEF Labelled
  <2> HIDE DEF N
  <2>6. QED
    BY <2>1, <2>5
<1>10. ASSUME NEW k \in 1..N, k - 1 \in P
       PROVE  k \in P
  <2>1. k \in 0..N /\ k # 0 /\ k \in Pixels /\ k \in Nat
    BY <1>1
  <2>2. pass[k] = Next1(k, pass[k - 1])
    <3> HIDE DEF N, Next1
    <3>1. QED
      BY <1>7, <2>1
  <2> DEFINE s == pass[k - 1]
             t == pass[k]
  <2>3. Labelled(image, k - 1, s)
    BY <1>10
  <2> HIDE DEF N, s, t
  <2>4. CASE k \in image
    <3>1. t = LabelPixel(s, k)
      BY <2>2, <2>4 DEF s, t
    <3>2. s \in Traced /\ Known(image, k - 1, s)
      BY <2>3 DEF Labelled
    <3>3. North(s.Labels, k) \in Nat /\ West(s.Labels, k) \in Nat /\ Near(image, k, s)
      BY <2>1, <3>2, NeighboursLabels DEF Near
    <3>4. t \in Traced /\ Labelling(s, k, t)
      BY <2>1, <3>1, <3>2, <3>3, LabelPixelIs
    <3>5. Onward(image, k, s, t)
      BY <2>3, <2>4, <3>3, <3>4 DEF Onward
    <3>6. Labelled(image, k, t)
      BY <3>4, <3>5, KnownKept, DividedKept, JoinedKept DEF Labelled
    <3>7. QED
      BY <2>1, <3>6 DEF t
  <2>5. CASE k \notin image
    <3>1. t = s
      BY <2>2, <2>5 DEF s, t
    <3>2. Known(image, k, s)
      <4>1. \A q \in Pixels : q \in image => (q <= k - 1 <=> q <= k)
        <5>1. \A q \in Pixels : q \in Nat
          BY <1>1
        <5>2. QED
          BY <2>1, <2>5, <5>1
      <4>2. QED
        BY <2>3, <4>1 DEF Labelled, Known
    <3>3. Labelled(image, k, t)
      BY <2>3, <3>1, <3>2 DEF Labelled
    <3>4. QED
      BY <2>1, <3>3 DEF t
  <2>6. QED
    BY <2>4, <2>5
<1>11. P = 0..N
  <2>1. P \in SUBSET (0..N)
    OBVIOUS
  <2> HIDE DEF P, N
  <2>2. QED
    BY <1>1, <1>9, <1>10, <2>1, PassedOn
<1>12. N \in P
  <2> HIDE DEF P, N
  <2>1. QED
    BY <1>1, <1>11
<1>13. QED
  BY <1>8, <1>12

(* A label and its root are on the same side of every division, and labels *)
(* of which one is the parent of the other have one root.                  *)
LEMMA RootIs ==
  ASSUME NEW parents \in Seq(Nat), ParentsBelow(parents)
  PROVE  LET n == Len(parents)
             root == MinLabel(parents)
         IN  /\ \A l \in 1..n : root[l] \in 1..n
             /\ \A L : (\A l \in 1..n : l \in L <=> parents[l] \in L) =>
                   \A l \in 1..n : l \in L <=> root[l] \in L
             /\ \A a \in 1..n, b \in 1..n : Connected(parents, a, b) => root[a] = root[b]
<1> DEFINE n == Len(parents)
           root == MinLabel(parents)
<1>1. n \in Nat /\ \A l \in 1..n : parents[l] \in 1..l
  BY LenProperties DEF ParentsBelow
<1>2. \A l \in 1..n : root[l] = IF parents[l] = l THEN l ELSE root[parents[l]]
  BY RootOfParent
<1> HIDE DEF n, root
<1>3. ASSUME NEW bad \in SUBSET (1..n), bad # {},
             \A l \in bad : parents[l] # l /\ parents[l] \in bad
      PROVE  FALSE
  <2>1. bad \in SUBSET Nat
    BY <1>1
  <2>2. PICK l \in bad : \A k \in bad : l <= k
    BY <1>3, <2>1, SmallestNumber
  <2>3. l \in Nat /\ parents[l] \in 1..l /\ parents[l] # l /\ l <= parents[l]
    BY <1>1, <1>3, <2>2
  <2>4. QED
    BY <2>3
<1>4. ASSUME NEW l \in 1..n
      PROVE  parents[l] \in 1..n
  BY <1>1
<1>5. \A l \in 1..n : root[l] \in 1..n
  <2> DEFINE bad == {l \in 1..n : root[l] \notin 1..n}
  <2>1. \A l \in bad : parents[l] # l /\ parents[l] \in bad
    BY <1>2, <1>4
  <2>2. bad \in SUBSET (1..n)
    OBVIOUS
  <2>3. bad = {}
    <3> HIDE DEF bad
    <3>1. QED
      BY <1>3, <2>1, <2>2
  <2>4. QED
    BY <2>3
<1>6. ASSUME NEW L, \A l \in 1..n : l \in L <=> parents[l] \in L
      PROVE  \A l \in 1..n : l \in L <=> root[l] \in L
  <2> DEFINE bad == {l \in 1..n : ~(l \in L <=> root[l] \in L)}
  <2>1. \A l \in bad : parents[l] # l /\ parents[l] \in bad
    BY <1>2, <1>4, <1>6
  <2>2. bad \in SUBSET (1..n)
    OBVIOUS
  <2>3. bad = {}
    <3> HIDE DEF bad
    <3>1. QED
      BY <1>3, <2>1, <2>2
  <2>4. QED
    BY <2>3
<1>7. ASSUME NEW a \in 1..n, NEW b \in 1..n, Connected(parents, a, b)
      PROVE  root[a] = root[b]
  BY <1>2, <1>7 DEF Connected
<1>8. QED
  BY <1>5, <1>6, <1>7 DEF n, root

(* A region: the smallest closed set with the pixel.                       *)
Grown(image, S) == S \cup {q \in image : \E r \in S : Touch(r, q)}
LEMMA RegionIs ==
  ASSUME NEW image \in SUBSET Pixels, NEW p \in image
  PROVE  /\ p \in Region(image, p) /\ Closed(image, Region(image, p))
         /\ \A R : p \in R /\ Closed(image, R) => Region(image, p) \subseteq R
<1> DEFINE N == Width * Height
           D == SUBSET image
           F == [k \in 1..N |-> [S \in D |-> Grown(image, S)]]
           near == CHOOSE f : f = [n \in 0..Width * Height |->
                                     IF n = 0 THEN {p}
                                     ELSE LET S == f[n - 1] IN S \cup {q \in image : \E r \in S : Touch(r, q)}]
<1>1. N \in Nat /\ Pixels = 1..N
  BY ImageAssumption DEF Pixels
<1>2. IsFiniteSet(image) /\ Cardinality(image) \in Nat /\ Cardinality(image) <= N
  <2>1. IsFiniteSet(1..N) /\ Cardinality(1..N) = IF 1 > N THEN 0 ELSE N - 1 + 1
    <3> HIDE DEF N
    <3>1. QED
      BY <1>1, FS_Interval
  <2>2. image \in SUBSET (1..N)
    BY <1>1
  <2> HIDE DEF N
  <2>3. IsFiniteSet(image) /\ Cardinality(image) <= Cardinality(1..N)
    BY <2>1, <2>2, FS_Subset
  <2>4. Cardinality(image) \in Nat
    BY <2>3, FS_CardinalityType
  <2>5. QED
    BY <1>1, <2>1, <2>3, <2>4
<1>3. {p} \in D /\ F \in [1..N -> [D -> D]]
  BY DEF Grown
<1>4. PICK w : IsIteration(D, {p}, N, F, w)
  <2> HIDE DEF N, F, D
  <2>1. CanIterate(D, {p}, N, F)
    BY <1>1, <1>3, IterationExists
  <2>2. QED
    BY <2>1 DEF CanIterate
<1>5. w \in [0..N -> D] /\ w = [k \in 0..N |-> IF k = 0 THEN {p} ELSE F[k][w[k - 1]]]
  <2> HIDE DEF N, F, D
  <2>1. QED
    BY <1>4 DEF IsIteration
<1>6. w = [k \in 0..N |-> IF k = 0 THEN {p} ELSE Grown(image, w[k - 1])]
  <2>1. ASSUME NEW k \in 0..N, k # 0
        PROVE  F[k][w[k - 1]] = Grown(image, w[k - 1])
    <3>1. k \in 1..N /\ k - 1 \in 0..N
      BY <1>1, <2>1
    <3>2. w[k - 1] \in D
      BY <1>5, <3>1
    <3> HIDE DEF N, D
    <3>3. QED
      BY <3>1, <3>2
  <2> HIDE DEF N, F, D
  <2>2. QED
    BY <1>5, <2>1
<1>7. near = [k \in 0..N |-> IF k = 0 THEN {p} ELSE Grown(image, near[k - 1])]
  <2>1. w = [n \in 0..Width * Height |->
                IF n = 0 THEN {p}
                ELSE LET S == w[n - 1] IN S \cup {q \in image : \E r \in S : Touch(r, q)}]
    BY <1>6 DEF Grown
  <2>2. near = [n \in 0..Width * Height |->
                IF n = 0 THEN {p}
                ELSE LET S == near[n - 1] IN S \cup {q \in image : \E r \in S : Touch(r, q)}]
    BY <2>1
  <2> HIDE DEF near
  <2>3. QED
    BY <2>2 DEF Grown
<1>8. Region(image, p) = near[N]
  BY DEF Region
<1> HIDE DEF near, F
<1> DEFINE Good(k, S) == /\ S \subseteq image /\ p \in S
                         /\ \A R : p \in R /\ Closed(image, R) => S \subseteq R
                         /\ Cardinality(S) >= k + 1 \/ Closed(image, S)
           P == {k \in 0..N : Good(k, near[k])}
<1>9. 0 \in P
  <2>1. near[0] = {p} /\ 0 \in 0..N
    BY <1>1, <1>7
  <2>2. Cardinality({p}) = 1
    BY FS_Singleton
  <2>3. Good(0, {p})
    BY <2>2
  <2> HIDE DEF Good, N
  <2>4. QED
    BY <2>1, <2>3
<1>10. ASSUME NEW k \in 1..N, k - 1 \in P
       PROVE  k \in P
  <2>0. k \in Nat /\ k \in 0..N /\ k # 0
    BY <1>1
  <2> DEFINE S == near[k - 1]
             U == near[k]
  <2>1. Good(k - 1, S)
    BY <1>10
  <2>2. U = Grown(image, S)
    <3> HIDE DEF N
    <3>1. QED
      BY <1>7, <2>0
  <2> HIDE DEF S, U, N
  <2>3. /\ S \subseteq image /\ p \in S
        /\ \A R : p \in R /\ Closed(image, R) => S \subseteq R
        /\ Cardinality(S) >= (k - 1) + 1 \/ Closed(image, S)
    BY <2>1
  <2>4. U \subseteq image /\ p \in U /\ S \subseteq U
    BY <2>2, <2>3 DEF Grown
  <2>5. ASSUME NEW R, p \in R, Closed(image, R)
        PROVE  U \subseteq R
    <3>1. S \subseteq R
      BY <2>3, <2>5
    <3>2. QED
      BY <2>2, <2>5, <3>1 DEF Grown, Closed
  <2>6. CASE Closed(image, S)
    <3>1. U = S
      BY <2>2, <2>6 DEF Grown, Closed
    <3>2. Good(k, U)
      BY <2>4, <2>5, <2>6, <3>1
    <3> HIDE DEF Good
    <3>3. QED
      BY <2>0, <3>2 DEF U
  <2>7. CASE ~Closed(image, S)
    <3>1. PICK q \in S, r \in image : Touch(q, r) /\ r \notin S
      BY <2>3, <2>7 DEF Closed
    <3>2. r \in U
      BY <2>2, <3>1 DEF Grown
    <3>3. /\ IsFiniteSet(S) /\ IsFiniteSet(U)
          /\ Cardinality(S) \in Nat /\ Cardinality(U) \in Nat
      BY <1>2, <2>3, <2>4, FS_Subset, FS_CardinalityType
    <3>4. Cardinality(S) <= Cardinality(U) /\ Cardinality(S) # Cardinality(U)
      <4>1. S # U
        BY <3>1, <3>2
      <4>2. QED
        BY <2>4, <3>3, <4>1, FS_Subset
    <3>5. Cardinality(U) >= k + 1
      BY <2>0, <2>3, <2>7, <3>3, <3>4
    <3>6. Good(k, U)
      BY <2>4, <2>5, <3>5
    <3> HIDE DEF Good
    <3>7. QED
      BY <2>0, <3>6 DEF U
  <2>8. QED
    BY <2>6, <2>7
<1>11. P = 0..N
  <2>1. P \in SUBSET (0..N)
    OBVIOUS
  <2> HIDE DEF P, N
  <2>2. QED
    BY <1>1, <1>9, <1>10, <2>1, PassedOn
<1>12. Good(N, near[N])
  <2>1. N \in P
    <3> HIDE DEF P, N
    <3>1. QED
      BY <1>1, <1>11
  <2> HIDE DEF Good, N
  <2>2. QED
    BY <2>1
<1>13. Closed(image, near[N])
  <2>1. near[N] \subseteq image
    BY <1>12
  <2>2. Cardinality(near[N]) \in Nat /\ Cardinality(near[N]) <= Cardinality(image)
    BY <1>2, <2>1, FS_Subset, FS_CardinalityType
  <2>3. ~(Cardinality(near[N]) >= N + 1)
    <3> HIDE DEF N
    <3>1. QED
      BY <1>1, <1>2, <2>2
  <2>4. QED
    BY <1>12, <2>3
<1>14. QED
  BY <1>8, <1>12, <1>13

(* The second pass finds the regions.                                      *)
LEMMA RegionsAre ==
  ASSUME NEW image \in SUBSET Pixels, NEW s, Labelled(image, Width * Height, s), ~s.met
  PROVE  Regions(s) = {Region(image, p) : p \in image}
<1> DEFINE n == Len(s.LabelParentList)
           root == MinLabel(s.LabelParentList)
           C(l) == {q \in Pixels : s.Labels[q] # 0 /\ root[s.Labels[q]] = l}
<1>1. /\ s.LabelParentList \in Seq(Nat) /\ s.Labels \in [Pixels -> Nat]
      /\ Known(image, Width * Height, s) /\ ParentsBelow(s.LabelParentList)
      /\ AllDivided(image, s) /\ Joined(s)
  BY DEF Labelled, Traced
<1>2. /\ \A l \in 1..n : root[l] \in 1..n
      /\ \A L : (\A l \in 1..n : l \in L <=> s.LabelParentList[l] \in L) =>
                   \A l \in 1..n : l \in L <=> root[l] \in L
      /\ \A a \in 1..n, b \in 1..n : Connected(s.LabelParentList, a, b) => root[a] = root[b]
  BY <1>1, RootIs
<1>3. n \in Nat
  BY <1>1, LenProperties
<1>4. Regions(s) = {C(l) : l \in 1..n} \ {{}}
  BY DEF Regions
<1> HIDE DEF n, root
<1>5. ASSUME NEW q \in Pixels
      PROVE  /\ s.Labels[q] # 0 <=> q \in image
             /\ q \in image => s.Labels[q] \in 1..n
  <2>1. /\ s.Labels[q] # 0 <=> q \in image /\ q <= Width * Height
        /\ s.Labels[q] <= n
    BY <1>1 DEF Known, n
  <2>2. q <= Width * Height /\ s.Labels[q] \in Nat
    BY <1>1, ImageAssumption DEF Pixels
  <2>3. QED
    BY <1>3, <2>1, <2>2
<1>6. ASSUME NEW p \in image
      PROVE  /\ s.Labels[p] \in 1..n /\ root[s.Labels[p]] \in 1..n
             /\ Region(image, p) = C(root[s.Labels[p]])
  <2> DEFINE l == root[s.Labels[p]]
  <2>1. s.Labels[p] \in 1..n /\ l \in 1..n
    BY <1>2, <1>5
  <2>2. p \in C(l)
    BY <1>5
  <2>3. Closed(image, C(l))
    <3>1. C(l) \subseteq image
      BY <1>5
    <3>2. ASSUME NEW q \in C(l), NEW r \in image, Touch(q, r)
          PROVE  r \in C(l)
      <4>1. q \in image /\ root[s.Labels[q]] = l
        BY <1>5
      <4>2. s.Labels[q] \in 1..n /\ s.Labels[r] \in 1..n /\ s.Labels[q] # 0 /\ s.Labels[r] # 0
        BY <1>5, <4>1
      <4>3. Connected(s.LabelParentList, s.Labels[q], s.Labels[r])
        BY <1>1, <3>2, <4>1, <4>2 DEF Joined
      <4>4. root[s.Labels[r]] = root[s.Labels[q]]
        BY <1>2, <4>2, <4>3
      <4>5. QED
        BY <4>1, <4>2, <4>4
    <3> HIDE DEF l, C
    <3>3. QED
      BY <3>1, <3>2 DEF Closed
  <2>4. ASSUME NEW R, Closed(image, R), p \in R
        PROVE  C(l) \subseteq R
    <3>1. PICK L : Divided(s, R, L)
      BY <1>1, <2>4 DEF AllDivided
    <3>2. \A k \in 1..n : k \in L <=> root[k] \in L
      BY <1>2, <3>1 DEF Divided, n
    <3>3. ASSUME NEW q \in C(l)
          PROVE  q \in R
      <4>1. q \in image /\ root[s.Labels[q]] = l
        BY <1>5
      <4>2. s.Labels[q] \in 1..n /\ s.Labels[q] # 0 /\ s.Labels[p] # 0
        BY <1>5, <4>1
      <4>3. p \in Pixels /\ q \in Pixels
        BY <4>1
      <4>4. s.Labels[p] \in L /\ (s.Labels[q] \in L <=> q \in R)
        BY <2>4, <3>1, <4>2, <4>3 DEF Divided
      <4>5. QED
        BY <2>1, <3>2, <4>1, <4>2, <4>4
    <3>4. QED
      BY <3>3
  <2>5. /\ p \in Region(image, p) /\ Closed(image, Region(image, p))
        /\ \A R : p \in R /\ Closed(image, R) => Region(image, p) \subseteq R
    BY RegionIs
  <2> HIDE DEF C, l
  <2>6. Region(image, p) = C(l)
    BY <2>2, <2>3, <2>4, <2>5
  <2>7. QED
    BY <2>1, <2>6 DEF l
<1>7. ASSUME NEW l \in 1..n, C(l) # {}
      PROVE  \E p \in image : C(l) = Region(image, p)
  <2>1. PICK p \in Pixels : s.Labels[p] # 0 /\ root[s.Labels[p]] = l
    BY <1>7
  <2>2. p \in image
    BY <1>5, <2>1
  <2> HIDE DEF C
  <2>3. QED
    BY <1>6, <2>1, <2>2
<1>8. ASSUME NEW p \in image
      PROVE  \E l \in 1..n : C(l) = Region(image, p) /\ C(l) # {}
  <2>1. p \in Region(image, p)
    BY RegionIs
  <2> HIDE DEF C
  <2>2. QED
    BY <1>6, <2>1
<1> HIDE DEF C
<1>9. QED
  BY <1>4, <1>7, <1>8

(* The two passes find the regions in every image on which no label loses  *)
(* a parent.                                                               *)
LEMMA DetectionIs ==
  ASSUME NEW image \in SUBSET Pixels, ~Detection[image].met
  PROVE  Detection[image].blobs = TrueBlobs[image]
<1> DEFINE s == FirstPass(image)
<1>1. Detection[image] = [blobs |-> LabelBlobs(s), met |-> s.met]
  BY DEF Detection
<1>2. Labelled(image, Width * Height, s)
  BY FirstPassIs
<1>3. TrueBlobs[image] = {S \in {Region(image, p) : p \in image} : Cardinality(S) \in MinArea..MaxArea}
  BY DEF TrueBlobs
<1> HIDE DEF s
<1>4. Regions(s) = {Region(image, p) : p \in image}
  BY <1>1, <1>2, RegionsAre
<1>5. QED
  BY <1>1, <1>3, <1>4 DEF LabelBlobs

(* The blobs of a detection are the regions of its frame, whatever the size *)
(* of the frame and the image in it, unless a label met two smaller ones.  *)
THEOREM BlobsAreRegionsHolds == CameraSpec => []BlobsAreRegions
<1>1. CameraInv => BlobsAreRegions
  <2> SUFFICES ASSUME CameraInv PROVE BlobsAreRegions
    OBVIOUS
  <2>1. detected.frame \in SUBSET Pixels
    BY DEF CameraInv, Types, Detections
  <2>2. QED
    BY <2>1, DetectionIs DEF BlobsAreRegions
<1>2. QED
  BY <1>1, CameraInvHolds, PTL
-----------------------------------------------------------------------------
(* What the empty set has, and what some element passes on to each other   *)
(* set, every finite set has.                                              *)
Hereditary(S, P) ==
  /\ P \in SUBSET (SUBSET S) /\ {} \in P
  /\ \A s \in SUBSET S : s # {} => \E x \in s : s \ {x} \in P => s \in P
LEMMA SetPassedOn ==
  ASSUME NEW S, IsFiniteSet(S), NEW P, Hereditary(S, P)
  PROVE  P = SUBSET S
<1> USE DEF Hereditary
<1> DEFINE T == (SUBSET S) \ P
<1>1. CASE T # {}
  <2>1. IsWellFoundedOn(StrictSubsetOrdering(S), FiniteSubsetsOf(S))
    BY FS_StrictSubsetOrderingWellFounded
  <2>2. T \subseteq FiniteSubsetsOf(S)
    BY FS_Subset DEF FiniteSubsetsOf
  <2>3. PICK U \in T : \A V \in T : <<V, U>> \notin StrictSubsetOrdering(S)
    <3> HIDE DEF T
    <3>1. QED
      BY <1>1, <2>1, <2>2, WFMin
  <2>4. U # {} /\ U \in SUBSET S
    OBVIOUS
  <2>5. PICK x \in U : U \ {x} \in P => U \in P
    BY <2>4
  <2>6. <<U \ {x}, U>> \in StrictSubsetOrdering(S)
    BY <2>4 DEF StrictSubsetOrdering
  <2>7. U \ {x} \notin T
    BY <2>3, <2>6
  <2>8. QED
    BY <2>4, <2>5, <2>7
<1>2. QED
  BY <1>1

(* A fold over a finite set exists, whichever elements it picks. *)
Folds(S, base, op, pick, f) ==
  f = [s \in SUBSET S |-> IF s = {} THEN base ELSE op[pick[s]][f[s \ {pick[s]}]]]
CanFold(S, D, base, op, pick) == \E f \in [SUBSET S -> D] : Folds(S, base, op, pick, f)
LEMMA FoldExists ==
  ASSUME NEW S, IsFiniteSet(S), NEW D, NEW base \in D, NEW op \in [S -> [D -> D]],
         NEW pick, \A s \in SUBSET S : s # {} => pick[s] \in s
  PROVE  CanFold(S, D, base, op, pick)
<1> DEFINE N == Cardinality(S)
           Small(n) == {s \in SUBSET S : Cardinality(s) <= n}
           Part(n, f) == /\ f \in [Small(n) -> D]
                         /\ \A s \in Small(n) : f[s] = IF s = {} THEN base ELSE op[pick[s]][f[s \ {pick[s]}]]
           P == {n \in 0..N : \E f : Part(n, f)}
<1>1. N \in Nat
  BY FS_CardinalityType
<1>2. \A s \in SUBSET S : /\ IsFiniteSet(s) /\ Cardinality(s) \in Nat /\ Cardinality(s) <= N
                          /\ Cardinality(s) = 0 <=> s = {}
                          /\ s # {} => Cardinality(s \ {pick[s]}) = Cardinality(s) - 1
  BY FS_Subset, FS_CardinalityType, FS_EmptySet, FS_RemoveElement
<1>3. 0 \in P
  <2> DEFINE f == [s \in Small(0) |-> base]
  <2>1. ASSUME NEW s \in Small(0)
        PROVE  s = {}
    <3>1. s \in SUBSET S /\ Cardinality(s) <= 0
      OBVIOUS
    <3>2. Cardinality(s) \in Nat
      BY <1>2, <3>1
    <3>3. Cardinality(s) = 0
      BY <3>1, <3>2
    <3>4. QED
      BY <1>2, <3>1, <3>3
  <2>2. Part(0, f)
    <3> HIDE DEF Small
    <3>1. QED
      BY <2>1
  <2> HIDE DEF Part, f
  <2>3. (\E g : Part(0, g)) /\ 0 \in 0..N
    BY <1>1, <2>2
  <2>4. QED
    BY <2>3
<1>4. ASSUME NEW n \in 1..N, n - 1 \in P
      PROVE  n \in P
  <2>1. PICK f : Part(n - 1, f)
    BY <1>4
  <2> DEFINE u == [s \in Small(n) |-> IF s = {} THEN base ELSE op[pick[s]][f[s \ {pick[s]}]]]
  <2>2. ASSUME NEW s \in Small(n), s # {}
        PROVE  /\ s \ {pick[s]} \in Small(n - 1) /\ s \ {pick[s]} \in Small(n)
               /\ pick[s] \in S /\ s \in SUBSET S
    <3>1. s \in SUBSET S /\ Cardinality(s) <= n /\ n \in Int
      OBVIOUS
    <3>2. pick[s] \in s /\ s \ {pick[s]} \in SUBSET S
      BY <2>2, <3>1
    <3>3. Cardinality(s) \in Nat /\ Cardinality(s \ {pick[s]}) = Cardinality(s) - 1
      BY <1>2, <2>2, <3>1
    <3>4. Cardinality(s \ {pick[s]}) <= n - 1 /\ Cardinality(s \ {pick[s]}) <= n
      BY <3>1, <3>3
    <3>5. QED
      BY <3>1, <3>2, <3>4
  <2>3. ASSUME NEW s \in Small(n - 1)
        PROVE  s \in Small(n)
    <3>1. s \in SUBSET S /\ Cardinality(s) <= n - 1 /\ n \in Int
      OBVIOUS
    <3>2. Cardinality(s) \in Nat
      BY <1>2, <3>1
    <3>3. Cardinality(s) <= n
      BY <3>1, <3>2
    <3>4. QED
      BY <3>1, <3>3
  <2> HIDE DEF Small
  <2>4. u \in [Small(n) -> D]
    <3>1. ASSUME NEW s \in Small(n), s # {}
          PROVE  op[pick[s]][f[s \ {pick[s]}]] \in D
      <4>1. f[s \ {pick[s]}] \in D
        BY <2>1, <2>2, <3>1
      <4>2. op[pick[s]] \in [D -> D]
        BY <2>2, <3>1
      <4>3. QED
        BY <4>1, <4>2
    <3>2. QED
      BY <3>1
  <2>5. \A s \in Small(n - 1) : u[s] = f[s]
    BY <2>1, <2>3
  <2>6. \A s \in Small(n) : u[s] = IF s = {} THEN base ELSE op[pick[s]][u[s \ {pick[s]}]]
    BY <2>2, <2>5
  <2>7. Part(n, u)
    BY <2>4, <2>6
  <2> HIDE DEF Part, u
  <2>8. (\E g : Part(n, g)) /\ n \in 0..N
    BY <2>7
  <2>9. QED
    BY <2>8
<1>5. P = 0..N
  <2>1. P \in SUBSET (0..N)
    OBVIOUS
  <2> HIDE DEF P, N
  <2>2. QED
    BY <1>1, <1>3, <1>4, <2>1, PassedOn
<1>6. PICK f : Part(N, f)
  <2>0. N \in 0..N
    <3> HIDE DEF N
    <3>1. QED
      BY <1>1
  <2>1. N \in P
    <3> HIDE DEF P, N
    <3>1. QED
      BY <1>5, <2>0
  <2>2. QED
    BY <2>1
<1>7. Small(N) = SUBSET S
  BY <1>2
<1>8. f \in [SUBSET S -> D]
  BY <1>6, <1>7
<1>9. f = [s \in SUBSET S |-> IF s = {} THEN base ELSE op[pick[s]][f[s \ {pick[s]}]]]
  BY <1>6, <1>7, <1>8
<1>10. QED
  BY <1>8, <1>9 DEF CanFold, Folds

(* A set of numbers up to n has a largest one. *)
LEMMA LargestIn ==
  ASSUME NEW n \in Nat, NEW s \in SUBSET (0..n), s # {}
  PROVE  Max(s) \in s
<1> DEFINE T == {n - m : m \in s}
<1>1. \A m \in s : m \in Nat /\ m <= n /\ n - m \in Nat
  OBVIOUS
<1>2. T \in SUBSET Nat /\ T # {}
  BY <1>1
<1>3. PICK t \in T : \A u \in T : t <= u
  <2> HIDE DEF T
  <2>1. QED
    BY <1>2, SmallestNumber
<1>4. PICK x \in s : t = n - x
  OBVIOUS
<1>5. ASSUME NEW m \in s
      PROVE  x >= m
  <2>1. n - x <= n - m
    BY <1>3, <1>4
  <2>2. QED
    BY <1>1, <2>1
<1>6. QED
  BY <1>5 DEF Max

LEMMA LargestBounds ==
  ASSUME NEW n \in Nat, NEW s \in SUBSET (0..n), s # {}
  PROVE  Max(s) \in s /\ \A m \in s : m <= Max(s)
<1>1. Max(s) \in s
  BY LargestIn
<1>2. PICK x \in s : \A m \in s : x >= m
  <2> DEFINE T == {n - m : m \in s}
  <2>1. \A m \in s : m \in Nat /\ m <= n /\ n - m \in Nat
    OBVIOUS
  <2>2. T \in SUBSET Nat /\ T # {}
    BY <2>1
  <2>3. PICK t \in T : \A u \in T : t <= u
    <3> HIDE DEF T
    <3>1. QED
      BY <2>2, SmallestNumber
  <2>4. PICK x \in s : t = n - x
    OBVIOUS
  <2>5. ASSUME NEW m \in s
        PROVE  x >= m
    <3>1. n - x <= n - m
      BY <2>3, <2>4
    <3>2. QED
      BY <2>1, <3>1
  <2>6. QED
    BY <2>5
<1>3. \A m \in s : Max(s) >= m
  <2>1. Max(s) = CHOOSE y \in s : \A m \in s : y >= m
    BY DEF Max
  <2>2. QED
    BY <1>2, <2>1, ZenonT(30)
<1>4. \A m \in s : m \in Int
  OBVIOUS
<1> HIDE DEF Max
<1>5. ASSUME NEW m \in s
      PROVE  m <= Max(s)
  <2>1. PICK y \in s : y = Max(s)
    BY <1>1
  <2>2. y >= m /\ y \in Int /\ m \in Int
    BY <1>3, <1>4, <2>1
  <2>3. QED
    BY <2>1, <2>2
<1>6. QED
  BY <1>1, <1>5

(* A fold over a sequence takes its last index away first. *)
LEMMA MaxIn ==
  ASSUME NEW n \in Nat, NEW s \in SUBSET (1..n), s # {}
  PROVE  Max(s) \in s
<1>1. s \in SUBSET (0..n)
  OBVIOUS
<1>2. QED
  BY <1>1, LargestIn

FoldsLeft(n, base, op, f) ==
  f = [s \in SUBSET (1..n) |-> IF s = {} THEN base ELSE op[Max(s)][f[s \ {Max(s)}]]]
CanFoldLeft(n, Q, base, op) == \E f \in [SUBSET (1..n) -> Q] : FoldsLeft(n, base, op, f)
LEMMA FoldLeftExists ==
  ASSUME NEW n \in Nat, NEW Q, NEW base \in Q, NEW op \in [1..n -> [Q -> Q]]
  PROVE  CanFoldLeft(n, Q, base, op)
<1> DEFINE S == 1..n
           pick == [s \in SUBSET S |-> Max(s)]
<1>1. IsFiniteSet(S)
  BY FS_Interval
<1>2. \A s \in SUBSET S : s # {} => pick[s] \in s
  BY MaxIn
<1>3. PICK f \in [SUBSET S -> Q] : Folds(S, base, op, pick, f)
  <2> HIDE DEF pick
  <2>1. op \in [S -> [Q -> Q]]
    OBVIOUS
  <2> HIDE DEF S
  <2>2. CanFold(S, Q, base, op, pick)
    BY <1>1, <1>2, <2>1, FoldExists
  <2>3. QED
    BY <2>2 DEF CanFold
<1>4. f = [s \in SUBSET S |-> IF s = {} THEN base ELSE op[Max(s)][f[s \ {Max(s)}]]]
  BY <1>3 DEF Folds
<1>5. QED
  BY <1>4 DEF CanFoldLeft, FoldsLeft

(* What the base has and every step keeps, the fold has. *)
Keeps(n, Q, iter) ==
  /\ iter[{}] \in Q
  /\ \A s \in SUBSET (1..n) : s # {} /\ iter[s \ {Max(s)}] \in Q => iter[s] \in Q
LEMMA FoldLeftKeeps ==
  ASSUME NEW n \in Nat, NEW Q, NEW iter, Keeps(n, Q, iter)
  PROVE  iter[1..n] \in Q
<1> DEFINE S == 1..n
           P == {s \in SUBSET S : iter[s] \in Q}
<1>1. IsFiniteSet(S)
  BY FS_Interval
<1>2. Hereditary(S, P)
  <2>1. P \in SUBSET (SUBSET S) /\ {} \in P
    BY DEF Keeps
  <2>2. ASSUME NEW s \in SUBSET S, s # {}
        PROVE  \E x \in s : s \ {x} \in P => s \in P
    <3>1. Max(s) \in s
      BY <2>2, MaxIn
    <3>2. s \ {Max(s)} \in P => s \in P
      BY <2>2 DEF Keeps
    <3>3. QED
      BY <3>1, <3>2
  <2> HIDE DEF P
  <2>3. QED
    BY <2>1, <2>2 DEF Hereditary
<1>3. S \in P
  <2> HIDE DEF P, S
  <2>1. QED
    BY <1>1, <1>2, SetPassedOn
<1>4. QED
  BY <1>3

LEMMA LastOfInterval ==
  ASSUME NEW n \in Nat, NEW k \in 1..n
  PROVE  /\ 1..k \in SUBSET (1..n) /\ 1..k # {} /\ Max(1..k) = k
         /\ (1..k) \ {k} = 1..k - 1
<1>1. k \in 1..k /\ 1..k \in SUBSET (1..n) /\ (1..k) \ {k} = 1..k - 1
  OBVIOUS
<1>2. \A x \in 1..k : (\A y \in 1..k : x >= y) => x = k
  BY <1>1
<1>3. \A y \in 1..k : k >= y
  OBVIOUS
<1>4. Max(1..k) = k
  BY <1>1, <1>2, <1>3 DEF Max
<1>5. QED
  BY <1>1, <1>4

-----------------------------------------------------------------------------
(* What the thread of the virtual camrab sensor can see, and the readings  *)
(* it can make of it.                                                      *)
Blobs == {NoBlob} \cup UNION {ToSet(Filtered[s]) : s \in Scenes}
Reading == [packet : Nat, round : Nat, blob : Blobs, Data : Int, Color : Int]

CamrabTypes ==
  /\ m_tQueuedPackets \in Seq(Nat) /\ m_tPackets \in Seq(Nat) /\ vec_packets \in Seq(Nat)
  /\ spoken \in Seq(Messages) /\ round \in Nat
  /\ todo \in Seq(Reading) /\ m_tQueuedReadings \in Seq(Reading) /\ m_tReadings \in Seq(Reading)
  /\ main = "pop" => m_tQueuedPackets # <<>>
  /\ thread = "pop" => m_tPackets # <<>>

(* A reading says what its packet says, and is of a round that was.        *)
Truthful(r) ==
  /\ r.packet \in 1..Len(spoken) /\ r.round <= round
  /\ r.Data = DataOf(Sent(spoken[r.packet])) /\ r.Color = ColorOf(Sent(spoken[r.packet]))

(* The packets that wait for the control step come after all others; those *)
(* that the thread is to copy, or has copied and not matched, have not     *)
(* been matched.                                                           *)
Waiting == IF main = "pop" THEN Tail(m_tQueuedPackets) ELSE m_tQueuedPackets
Matched == {r.packet : r \in AllReadings}
Given == ToSet(m_tPackets) \cup ToSet(vec_packets) \cup Matched
FreshPackets ==
  /\ ToSet(m_tQueuedPackets) \cup ToSet(m_tPackets) \cup ToSet(vec_packets) \subseteq 1..Len(spoken)
  /\ ToSet(Waiting) \cap Given = {}
  /\ \A i, j \in DOMAIN Waiting : Waiting[i] = Waiting[j] => i = j
  /\ thread = "get" => ToSet(m_tPackets) \cap Matched = {}
  /\ thread = "look" => ToSet(vec_packets) \cap Matched = {}

CamrabInv == CamrabTypes /\ (\A r \in AllReadings : Truthful(r)) /\ FreshPackets /\ MatchedOnce

(* The colours fit into the bits that are kept for them. *)
LEMMA ShiftFits == m_unNumberColors \in 1..9 /\ Shift \in {1, 2, 4, 8, 16} /\ m_unNumberColors <= Shift
<1>1. m_unNumberColors \in 1..9
  BY CamrabAssumption DEF m_unNumberColors
<1> DEFINE B == {b \in 0..4 : 2^b >= m_unNumberColors}
<1>2. 2^0 = 1 /\ 2^1 = 2 /\ 2^2 = 4 /\ 2^3 = 8 /\ 2^4 = 16
  OBVIOUS
<1>3. B \in SUBSET Nat /\ 4 \in B
  BY <1>1, <1>2
<1>4. PICK b \in B : \A c \in B : b <= c
  <2> HIDE DEF B
  <2>1. QED
    BY <1>3, SmallestNumber
<1>5. m_unNumberBitsToShift \in B
  BY <1>4 DEF m_unNumberBitsToShift, Min
<1>6. m_unNumberBitsToShift \in {0, 1, 2, 3, 4} /\ 2^m_unNumberBitsToShift >= m_unNumberColors
  BY <1>5
<1>7. QED
  BY <1>1, <1>2, <1>6 DEF Shift

(* What a robot says is read back from the byte, if it fits. *)
LEMMA ReadBack ==
  ASSUME NEW m \in Messages
  PROVE  /\ Sent(m) \in Int /\ ColorOf(Sent(m)) \in Int /\ DataOf(Sent(m)) \in Int
         /\ m.Data * Shift < 256 => ColorOf(Sent(m)) = m.Color /\ DataOf(Sent(m)) = m.Data
<1>1. m.Data \in 0..255 /\ m.Color \in Int /\ 0 <= m.Color /\ m.Color < m_unNumberColors
  <2>1. m.Data \in 0..255 /\ m.Color \in 0..Min({NumberColors, 9}) - 1
    <3>1. \A x \in Messages :
            x.Data \in 0..255 /\ x.Color \in 0..Min({NumberColors, 9}) - 1 /\ x.Bearing \in 0..719
      BY CamrabAssumption
    <3>2. QED
      BY <3>1
  <2>2. Min({NumberColors, 9}) = m_unNumberColors
    <3>1. \E x \in {NumberColors, 9} : \A y \in {NumberColors, 9} : x <= y
      BY CamrabAssumption
    <3>2. Min({NumberColors, 9}) \in {NumberColors, 9} /\ \A y \in {NumberColors, 9} : Min({NumberColors, 9}) <= y
      BY <3>1 DEF Min
    <3>3. QED
      BY <3>2, CamrabAssumption DEF m_unNumberColors
  <2>3. QED
    BY <2>1, <2>2, ShiftFits
<1> DEFINE d == m.Data
           c == m.Color
<1>2. d \in 0..255 /\ c \in Int /\ 0 <= c /\ c < Shift /\ Shift \in {1, 2, 4, 8, 16}
  BY <1>1, ShiftFits
<1>3. Sent(m) = (d * Shift + c) % 256 /\ d * Shift + c \in Nat
  BY <1>2 DEF Sent
<1> HIDE DEF d, c
<1>4. Sent(m) \in 0..255
  BY <1>3
<1>5. ColorOf(Sent(m)) \in Int /\ DataOf(Sent(m)) \in Int
  BY <1>2, <1>4 DEF ColorOf, DataOf
<1>6. ASSUME d * Shift < 256
      PROVE  ColorOf(Sent(m)) = c /\ DataOf(Sent(m)) = d
  <2>1. Sent(m) = d * Shift + c
    BY <1>2, <1>3, <1>6
  <2>2. (d * Shift + c) % Shift = c /\ (d * Shift + c) \div Shift = d
    BY <1>2
  <2>3. QED
    BY <2>1, <2>2 DEF ColorOf, DataOf
<1>7. QED
  BY <1>4, <1>5, <1>6 DEF d, c

(* Going backward leaves the first blob. *)
LEMMA BackwardIs ==
  ASSUME NEW U, NEW blobs \in Seq(U), blobs # <<>>
  PROVE  Backward(blobs) \in 0..Len(blobs) - 1
<1> DEFINE Taken(k) == \A i \in Len(blobs) - k + 1..Len(blobs) : BelongingToSameRobot(blobs[1], blobs[i])
           T == {k \in 0..Len(blobs) - 1 : Taken(k)}
<1>1. Len(blobs) \in Nat /\ Len(blobs) - 1 \in Nat
  OBVIOUS
<1>2. Taken(0)
  BY <1>1
<1>3. T \in SUBSET (0..Len(blobs) - 1) /\ T # {}
  <2> HIDE DEF Taken
  <2>1. 0 \in T
    BY <1>1, <1>2
  <2>2. QED
    BY <2>1
<1>4. Max(T) \in T
  <2> HIDE DEF T
  <2>1. QED
    BY <1>1, <1>3, LargestIn
<1>5. Backward(blobs) = Max(T)
  BY DEF Backward
<1>6. QED
  <2> HIDE DEF T
  <2>1. QED
    BY <1>3, <1>4, <1>5

-----------------------------------------------------------------------------
(* Angles on the circle.                                                   *)
LEMMA MinOfTwo ==
  ASSUME NEW x \in Int, NEW y \in Int, x <= y
  PROVE  Min({x, y}) = x /\ Min({y, x}) = x
<1>1. \A z \in {x, y} : (\A w \in {x, y} : z <= w) <=> z = x
  OBVIOUS
<1>2. Min({x, y}) = x
  BY <1>1 DEF Min
<1>3. {x, y} = {y, x}
  OBVIOUS
<1>4. QED
  BY <1>2, <1>3

(* The shorter way from one angle to another.                              *)
Angles == 0..719
HalfTurn == 0..360
Way(a, b) == IF b - a <= 360 THEN b - a ELSE 720 - (b - a)
LEMMA ApartIs ==
  ASSUME NEW a \in Angles, NEW b \in Angles, a <= b
  PROVE  Apart(a, b) = Way(a, b) /\ Apart(b, a) = Way(a, b) /\ Way(a, b) \in HalfTurn
<1>1. (b - a) % Circle = b - a
  BY DEF Circle, Angles
<1>2. PICK x \in Int : x = b - a /\ 0 <= x /\ x <= 719
  BY DEF Angles
<1>3. PICK y \in Int : y = (a - b) % Circle /\ y = IF x = 0 THEN 0 ELSE 720 - x
  <2>1. CASE x = 0
    BY <1>2, <2>1 DEF Circle, Angles
  <2>2. CASE x # 0
    <3>1. a - b = (-1) * 720 + (720 - x) /\ 720 - x \in 0..719
      BY <1>2, <2>2 DEF Angles
    <3>2. QED
      BY <2>2, <3>1 DEF Circle
  <2>3. QED
    BY <2>1, <2>2
<1>4. Apart(a, b) = Min({y, x}) /\ Apart(b, a) = Min({x, y})
  BY <1>1, <1>2, <1>3 DEF Apart
<1>5. Way(a, b) = IF x <= 360 THEN x ELSE 720 - x
  BY <1>2 DEF Way
<1>6. CASE x <= y
  <2>1. Min({x, y}) = x /\ Min({y, x}) = x
    BY <1>6, MinOfTwo
  <2>2. Way(a, b) = x /\ Way(a, b) \in HalfTurn
    BY <1>2, <1>3, <1>5, <1>6 DEF HalfTurn
  <2>3. QED
    BY <1>4, <2>1, <2>2
<1>7. CASE y <= x
  <2>1. Min({x, y}) = y /\ Min({y, x}) = y
    BY <1>7, MinOfTwo
  <2>2. Way(a, b) = y /\ Way(a, b) \in HalfTurn
    BY <1>2, <1>3, <1>5, <1>7 DEF HalfTurn
  <2>3. QED
    BY <1>4, <2>1, <2>2
<1>8. QED
  BY <1>6, <1>7

LEMMA ApartBoth ==
  ASSUME NEW a \in Angles, NEW b \in Angles
  PROVE  /\ Apart(a, b) \in HalfTurn /\ Apart(b, a) = Apart(a, b)
         /\ Apart(a, b) = IF a <= b THEN Way(a, b) ELSE Way(b, a)
<1>1. CASE a <= b
  <2>1. Apart(a, b) = Way(a, b) /\ Apart(b, a) = Way(a, b) /\ Way(a, b) \in HalfTurn
    BY <1>1, ApartIs
  <2>2. QED
    BY <1>1, <2>1
<1>2. CASE ~(a <= b)
  <2>1. b <= a
    BY <1>2 DEF Angles
  <2>2. Apart(a, b) = Way(b, a) /\ Apart(b, a) = Way(b, a) /\ Way(b, a) \in HalfTurn
    BY <2>1, ApartIs
  <2>3. QED
    BY <1>2, <2>2
<1>3. QED
  BY <1>1, <1>2

(* What the code takes for close is close.                                 *)
LEMMA CloseIs ==
  ASSUME NEW a \in Angles, NEW b \in Angles, NEW c \in 0..118
  PROVE  RelativelyCloseAngle(a, b, c) <=> Apart(a, b) <= c
<1>1. Apart(a, b) = IF a <= b THEN Way(a, b) ELSE Way(b, a)
  BY ApartBoth
<1>2. Circle \div 2 = 360 /\ Circle = 720
  BY DEF Circle
<1>3. CASE a - c < 0
  BY <1>1, <1>2, <1>3 DEF RelativelyCloseAngle, Way, Angles
<1>4. CASE a + c >= 720
  BY <1>1, <1>2, <1>4 DEF RelativelyCloseAngle, Way, Angles
<1>5. CASE a - c >= 0 /\ a + c < 720
  BY <1>1, <1>2, <1>5 DEF RelativelyCloseAngle, Way, Angles
<1>6. a - c < 0 \/ a + c >= 720 \/ (a - c >= 0 /\ a + c < 720)
  BY DEF Angles
<1>7. QED
  BY <1>3, <1>4, <1>5, <1>6

(* Once around at most. *)
LEMMA OneTurn ==
  /\ \A m \in -720..-1 : m % 720 = m + 720
  /\ \A m \in 0..719 : m % 720 = m
  /\ \A m \in 720..1439 : m % 720 = m - 720
<1>1. ASSUME NEW m \in -720..-1
      PROVE  m % 720 = m + 720
  <2>1. m = (-1) * 720 + (m + 720) /\ m + 720 \in 0..719
    OBVIOUS
  <2>2. QED
    BY <2>1
<1>2. ASSUME NEW m \in 0..719
      PROVE  m % 720 = m
  OBVIOUS
<1>3. ASSUME NEW m \in 720..1439
      PROVE  m % 720 = m - 720
  <2>1. m = 1 * 720 + (m - 720) /\ m - 720 \in 0..719
    OBVIOUS
  <2>2. QED
    BY <2>1
<1>4. QED
  BY <1>1, <1>2, <1>3

NearAngles == -118..837
LEMMA TurnIs ==
  ASSUME NEW m \in NearAngles
  PROVE  \E f \in Angles : f = m % 720 /\ f \in {m, m + 720, m - 720}
<1>1. CASE m < 0
  <2>1. m % 720 = m + 720 /\ m + 720 \in Angles
    BY <1>1, OneTurn DEF Angles, NearAngles
  <2>2. QED
    BY <2>1
<1>2. CASE 0 <= m /\ m < 720
  <2>1. m % 720 = m /\ m \in Angles
    BY <1>2, OneTurn DEF Angles, NearAngles
  <2>2. QED
    BY <2>1
<1>3. CASE m >= 720
  <2>1. m % 720 = m - 720 /\ m - 720 \in Angles
    BY <1>3, OneTurn DEF Angles, NearAngles
  <2>2. QED
    BY <2>1
<1>4. QED
  BY <1>1, <1>2, <1>3 DEF NearAngles

(* Angles straightened to one side of the circle lie as far apart, and an  *)
(* angle between two of them is no farther from any than these are.        *)
Straightened(x, lo, hi, m, a, l, h) ==
  /\ x \in Int /\ lo \in Int /\ hi \in Int /\ m \in Int /\ a \in Angles /\ l \in Angles /\ h \in Angles
  /\ x \in lo..hi /\ m \in lo..hi /\ hi - lo <= 236 /\ lo >= -118 /\ hi <= 837
  /\ x \in {a, a - 720} /\ lo \in {l, l - 720} /\ hi \in {h, h - 720}
NoFarther(m, a, h, l) == Apart(m % 720, a) <= Apart(h, l)
LEMMA BetweenAngles ==
  ASSUME NEW x, NEW lo, NEW hi, NEW m, NEW a, NEW l, NEW h, Straightened(x, lo, hi, m, a, l, h)
  PROVE  NoFarther(m, a, h, l)
<1>1. m \in NearAngles
  BY DEF Straightened, NearAngles
<1>2. PICK f \in Angles : f = m % 720 /\ f \in {m, m + 720, m - 720}
  BY <1>1, TurnIs
<1>3. a \in Angles /\ l \in Angles /\ h \in Angles
  BY DEF Straightened
<1>4. /\ f <= a => Apart(f, a) = Way(f, a)
      /\ a <= f => Apart(f, a) = Way(a, f)
      /\ h <= l => Apart(h, l) = Way(h, l)
      /\ l <= h => Apart(h, l) = Way(l, h)
  BY <1>3, ApartIs
<1>5. Apart(h, l) = hi - lo
  <2>1. CASE h <= l
    BY <1>4, <2>1 DEF Way, Angles, Straightened
  <2>2. CASE l <= h
    <3>1. Way(l, h) = hi - lo
      BY <2>2 DEF Way, Angles, Straightened
    <3>2. QED
      BY <1>4, <2>2, <3>1
  <2>3. QED
    BY <1>3, <2>1, <2>2 DEF Angles
<1>6. Apart(f, a) <= hi - lo
  <2>1. CASE f <= a
    BY <1>2, <1>4, <2>1 DEF Way, Angles, Straightened
  <2>2. CASE a <= f
    BY <1>2, <1>4, <2>2 DEF Way, Angles, Straightened
  <2>3. QED
    BY <1>3, <2>1, <2>2 DEF Angles
<1>7. QED
  BY <1>2, <1>5, <1>6 DEF NoFarther

(* A sum of numbers between two others.                                    *)
LEMMA SumBetween ==
  ASSUME NEW S, IsFiniteSet(S), NEW lo \in Int, NEW hi \in Int, NEW f \in [S -> lo..hi]
  PROVE  /\ SumFunction(f) \in Int
         /\ Cardinality(S) * lo <= SumFunction(f) /\ SumFunction(f) <= Cardinality(S) * hi
<1> DEFINE pick == [s \in SUBSET S |-> CHOOSE x \in s : TRUE]
           op == [x \in S |-> [n \in Int |-> f[x] + n]]
           iter == CHOOSE g : g = [s \in SUBSET S |-> IF s = {} THEN 0
                                     ELSE f[CHOOSE x \in s : TRUE] + g[s \ {CHOOSE x \in s : TRUE}]]
<1>1. \A x \in S : f[x] \in Int /\ lo <= f[x] /\ f[x] <= hi
  OBVIOUS
<1>2. \A s \in SUBSET S : s # {} => pick[s] \in s /\ pick[s] = CHOOSE x \in s : TRUE
  OBVIOUS
<1>3. op \in [S -> [Int -> Int]] /\ \A x \in S : \A n \in Int : op[x][n] = f[x] + n
  BY <1>1
<1>4. PICK g \in [SUBSET S -> Int] : Folds(S, 0, op, pick, g)
  <2> HIDE DEF op, pick
  <2>1. 0 \in Int
    OBVIOUS
  <2>2. CanFold(S, Int, 0, op, pick)
    BY <1>2, <1>3, <2>1, FoldExists
  <2>3. QED
    BY <2>2 DEF CanFold
<1>5. g = [s \in SUBSET S |-> IF s = {} THEN 0 ELSE f[CHOOSE x \in s : TRUE] + g[s \ {CHOOSE x \in s : TRUE}]]
  <2>1. ASSUME NEW s \in SUBSET S, s # {}
        PROVE  op[pick[s]][g[s \ {pick[s]}]] = f[CHOOSE x \in s : TRUE] + g[s \ {CHOOSE x \in s : TRUE}]
    <3> HIDE DEF op, pick
    <3>1. pick[s] \in S /\ pick[s] = (CHOOSE x \in s : TRUE) /\ g[s \ {pick[s]}] \in Int
      BY <1>2, <2>1
    <3>2. op[pick[s]][g[s \ {pick[s]}]] = f[pick[s]] + g[s \ {pick[s]}]
      BY <1>3, <3>1
    <3>3. QED
      BY <3>1, <3>2
  <2> HIDE DEF op, pick
  <2>2. g = [s \in SUBSET S |-> IF s = {} THEN 0 ELSE op[pick[s]][g[s \ {pick[s]}]]]
    BY <1>4 DEF Folds
  <2>3. QED
    BY <2>1, <2>2
<1>6. iter = [s \in SUBSET S |-> IF s = {} THEN 0
                           ELSE f[CHOOSE x \in s : TRUE] + iter[s \ {CHOOSE x \in s : TRUE}]]
  BY <1>5
<1>7. SumFunction(f) = iter[S]
  <2>1. SumFunction(f) = SumFunctionOnSet(f, S)
    BY DEF SumFunction
  <2>2. QED
    BY <2>1 DEF SumFunctionOnSet, FoldFunctionOnSet, MapThenFoldSet
<1> HIDE DEF iter, op
<1>8. \A s \in SUBSET S : iter[s] = IF s = {} THEN 0 ELSE f[pick[s]] + iter[s \ {pick[s]}]
  BY <1>2, <1>6
<1> HIDE DEF pick
<1> DEFINE Bounded(s) == /\ iter[s] \in Int
                         /\ Cardinality(s) * lo <= iter[s] /\ iter[s] <= Cardinality(s) * hi
           P == {s \in SUBSET S : Bounded(s)}
<1>9. {} \in P
  <2>1. iter[{}] = 0 /\ Cardinality({}) = 0
    BY <1>8, FS_EmptySet
  <2>2. QED
    BY <2>1
<1>10. ASSUME NEW s \in SUBSET S, s # {}
       PROVE  \E x \in s : s \ {x} \in P => s \in P
  <2>1. PICK x \in s : x = pick[s] /\ iter[s] = f[x] + iter[s \ {x}]
    BY <1>2, <1>8, <1>10
  <2>2. PICK n \in Nat : n = Cardinality(s \ {x}) /\ Cardinality(s) = n + 1
    <3>1. IsFiniteSet(s) /\ Cardinality(s) \in Nat
      BY FS_Subset, FS_CardinalityType
    <3>2. Cardinality(s \ {x}) = Cardinality(s) - 1 /\ IsFiniteSet(s \ {x})
      BY <3>1, FS_RemoveElement
    <3>3. Cardinality(s \ {x}) \in Nat
      BY <3>2, FS_CardinalityType
    <3>4. QED
      BY <3>1, <3>2, <3>3
  <2>3. ASSUME Bounded(s \ {x})
        PROVE  Bounded(s)
    <3>1. PICK v \in Int : v = iter[s \ {x}] /\ n * lo <= v /\ v <= n * hi
      BY <2>2, <2>3
    <3>2. PICK y \in Int : y = f[x] /\ lo <= y /\ y <= hi
      BY <1>1
    <3>3. (n + 1) * lo = n * lo + lo /\ (n + 1) * hi = n * hi + hi /\ n * lo \in Int /\ n * hi \in Int
      OBVIOUS
    <3>4. (n + 1) * lo <= y + v /\ y + v <= (n + 1) * hi /\ y + v \in Int
      BY <3>1, <3>2, <3>3
    <3>5. iter[s] = y + v
      BY <2>1, <3>1, <3>2
    <3>6. QED
      BY <2>2, <3>4, <3>5
  <2> HIDE DEF Bounded
  <2>4. s \ {x} \in P => s \in P
    BY <2>3
  <2>5. QED
    BY <2>4
<1>11. P = SUBSET S
  <2>1. P \in SUBSET (SUBSET S)
    OBVIOUS
  <2> HIDE DEF P
  <2>2. Hereditary(S, P)
    BY <1>9, <1>10, <2>1 DEF Hereditary
  <2>3. QED
    BY <2>2, SetPassedOn
<1>12. Bounded(S)
  BY <1>11
<1>13. QED
  BY <1>7, <1>12

(* The average lies between them, too.                                     *)
LEMMA AverageBetween ==
  ASSUME NEW n \in Nat \ {0}, NEW lo \in Int, NEW hi \in Int, NEW sum \in Int,
         n * lo <= sum, sum <= n * hi
  PROVE  sum \div n \in lo..hi
<1>1. PICK q \in Int, r \in 0..n - 1 : q = sum \div n /\ sum = n * q + r
  OBVIOUS
<1>2. CASE q < lo
  <2>1. PICK d \in Nat : lo = q + 1 + d
    <3>1. lo - q - 1 \in Nat /\ lo = q + 1 + (lo - q - 1)
      BY <1>2
    <3>2. QED
      BY <3>1
  <2>2. n * lo = n * q + n + n * d /\ n * d \in Nat /\ n * q \in Int
    BY <2>1
  <2>3. QED
    BY <1>1, <2>2
<1>3. CASE hi < q
  <2>1. PICK d \in Nat : q = hi + 1 + d
    <3>1. q - hi - 1 \in Nat /\ q = hi + 1 + (q - hi - 1)
      BY <1>3
    <3>2. QED
      BY <3>1
  <2>2. n * q = n * hi + n + n * d /\ n * d \in Nat /\ n * hi \in Int
    BY <2>1
  <2>3. QED
    BY <1>1, <2>2
<1>4. QED
  BY <1>1, <1>2, <1>3

-----------------------------------------------------------------------------
(* Scenes and robots.                                                      *)

(* A robot takes 59 degrees at most: it is more than four centimetres away. *)
RobotParameters == \A d \in DOMAIN MaxAngle : MaxAngle[d] <= 118

BlobIs(b) == /\ b.Color \in 0..m_unNumberColors - 1 /\ b.Angle \in Angles /\ b.Distance \in Nat
             /\ RobotParameters => MaxAngle[b.Distance] \in 0..118
LEMMA SceneIs ==
  ASSUME NEW s \in Scenes
  PROVE  /\ IsFiniteSet(s) /\ \A b \in s : BlobIs(b)
         /\ \A a, b \in s : a.Color = b.Color /\ a.Angle = b.Angle /\ a.Distance = b.Distance => a = b
<1>1. m_unNumberColors = Min({NumberColors, 9})
  <2>1. NumberColors \in Int /\ 9 \in Int
    BY CamrabAssumption
  <2>2. CASE NumberColors > 9
    <3>1. Min({NumberColors, 9}) = 9
      BY <2>1, <2>2, MinOfTwo
    <3>2. QED
      BY <2>2, <3>1 DEF m_unNumberColors
  <2>3. CASE ~(NumberColors > 9)
    <3>1. NumberColors <= 9
      BY <2>1, <2>3
    <3>2. Min({NumberColors, 9}) = NumberColors
      BY <2>1, <3>1, MinOfTwo
    <3>3. QED
      BY <2>3, <3>2 DEF m_unNumberColors
  <2>4. QED
    BY <2>2, <2>3
<1> DEFINE Blob == [Color : 0..m_unNumberColors - 1, Angle : Angles, Distance : DOMAIN MaxAngle]
<1>2. IsFiniteSet(s) /\ s \subseteq Blob
  <2>1. /\ IsFiniteSet(s)
        /\ s \subseteq [Color : 0..Min({NumberColors, 9}) - 1, Angle : 0..719, Distance : DOMAIN MaxAngle]
    <3> DEFINE full == [Color : 0..Min({NumberColors, 9}) - 1, Angle : 0..719, Distance : DOMAIN MaxAngle]
    <3>1. \A z \in Scenes : IsFiniteSet(z) /\ z \subseteq full
      BY CamrabAssumption
    <3> HIDE DEF full
    <3>2. IsFiniteSet(s) /\ s \subseteq full
      BY <3>1
    <3>3. QED
      BY <3>2 DEF full
  <2>2. QED
    BY <1>1, <2>1 DEF Angles
<1>3. ASSUME NEW b \in s
      PROVE  BlobIs(b)
  <2>1. b.Color \in 0..m_unNumberColors - 1 /\ b.Angle \in Angles /\ b.Distance \in DOMAIN MaxAngle
    BY <1>2
  <2>2. b.Distance \in Nat /\ MaxAngle[b.Distance] \in Nat
    BY <2>1, CamrabAssumption
  <2>3. RobotParameters => MaxAngle[b.Distance] <= 118
    BY <2>1 DEF RobotParameters
  <2>4. QED
    BY <2>1, <2>2, <2>3 DEF BlobIs
<1>4. \A a, b \in Blob : a.Color = b.Color /\ a.Angle = b.Angle /\ a.Distance = b.Distance => a = b
  OBVIOUS
<1>5. \A a, b \in s : a.Color = b.Color /\ a.Angle = b.Angle /\ a.Distance = b.Distance => a = b
  BY <1>2, <1>4
<1>6. QED
  BY <1>2, <1>3, <1>5

(* Likeness is what the code looks for among blobs of one colour, and in a *)
(* scene where it tells robots apart the robots are its classes.           *)
LEMMA AlikeIs ==
  ASSUME RobotParameters, NEW s \in Scenes, NEW a \in s, NEW b \in s
  PROVE  /\ Alike(a, b) <=> a.Color = b.Color /\ BelongingToSameRobot(a, b)
         /\ Alike(a, a)
<1>1. BlobIs(a) /\ BlobIs(b)
  BY SceneIs
<1>2. RelativelyCloseDistance(a.Distance, b.Distance) <=> a.Distance - b.Distance \in -10..10
  BY <1>1 DEF RelativelyCloseDistance, BlobIs
<1>3. PICK c \in 0..118 : c = MaxAngle[a.Distance]
  BY <1>1 DEF BlobIs
<1>4. RelativelyCloseAngle(a.Angle, b.Angle, c) <=> Apart(a.Angle, b.Angle) <= c
  BY <1>1, CloseIs DEF BlobIs
<1>5. Apart(a.Angle, a.Angle) = 0
  <2>1. Apart(a.Angle, a.Angle) = Way(a.Angle, a.Angle) /\ a.Angle \in Angles
    BY <1>1, ApartBoth DEF BlobIs
  <2>2. QED
    BY <2>1 DEF Way, Angles
<1>6. Alike(a, b) <=> a.Color = b.Color /\ BelongingToSameRobot(a, b)
  BY <1>2, <1>3, <1>4 DEF Alike, BelongingToSameRobot
<1>7. a.Distance - a.Distance \in -10..10
  BY <1>1 DEF BlobIs
<1>8. QED
  BY <1>3, <1>5, <1>6, <1>7 DEF Alike

LEMMA RobotsAre ==
  ASSUME RobotParameters, NEW s \in Scenes, Clear(s), NEW a \in s
  PROVE  /\ a \in Robot(s, a) /\ Robot(s, a) \in SUBSET s
         /\ \A b \in s : /\ b \in Robot(s, a) <=> Robot(s, b) = Robot(s, a)
                         /\ Alike(a, b) <=> Robot(s, b) = Robot(s, a)
<1>1. \A b \in s : b \in Robot(s, b) /\ Alike(b, b)
  BY AlikeIs DEF Robot
<1>2. \A b \in s : b \in Robot(s, a) <=> Alike(a, b)
  BY DEF Robot
<1>3. \A b \in s : Alike(a, b) => Robot(s, a) = Robot(s, b)
  BY DEF Clear
<1>4. Robot(s, a) \in SUBSET s
  BY DEF Robot
<1>5. QED
  BY <1>1, <1>2, <1>3, <1>4

(* The blob that a robot is merged to lies between those it shows. *)
LEMMA StraightIs ==
  ASSUME NEW a \in Angles, NEW first \in Angles, first <= a, Apart(first, a) <= 118
  PROVE  /\ Straight(a, first) \in {a, a - 720}
         /\ Straight(a, first) \in first - 118..first + 118
<1>1. Apart(first, a) = Way(first, a)
  BY ApartIs
<1>2. a - first <= 118 \/ a - first >= 602
  BY <1>1 DEF Way, Angles
<1>3. CASE a - first <= 118
  <2>1. ~((a - first) \div 2 > 300)
    BY <1>3 DEF Angles
  <2>2. Straight(a, first) = a
    BY <2>1 DEF Straight
  <2>3. QED
    BY <1>3, <2>2 DEF Angles
<1>4. CASE a - first >= 602
  <2>1. (a - first) \div 2 > 300 /\ a > 600
    BY <1>4 DEF Angles
  <2>2. Straight(a, first) = a - 720
    BY <2>1 DEF Straight, Degrees, Circle, Angles
  <2>3. a - 720 \in first - 118..first + 118
    BY <1>1, <1>4 DEF Way, Angles
  <2>4. QED
    BY <2>2, <2>3
<1>5. QED
  BY <1>2, <1>3, <1>4

LEMMA SmallestOf ==
  ASSUME NEW S, S # {}, NEW f \in [S -> Nat]
  PROVE  \E x \in S : (\A y \in S : f[x] <= f[y]) /\ Min({f[y] : y \in S}) = f[x]
<1> DEFINE T == {f[y] : y \in S}
<1>1. T \in SUBSET Nat /\ T # {}
  OBVIOUS
<1>2. PICK n \in T : \A m \in T : n <= m
  <2> HIDE DEF T
  <2>1. QED
    BY <1>1, SmallestNumber
<1>3. PICK x \in S : n = f[x]
  OBVIOUS
<1>4. Min(T) = n
  <2>1. \A m \in T : m \in Nat
    BY <1>1
  <2> HIDE DEF T
  <2>2. \A m \in T : (\A o \in T : m <= o) => m = n
    BY <1>2, <2>1
  <2>3. QED
    BY <1>2, <2>2 DEF Min
<1>5. \A y \in S : f[x] <= f[y]
  BY <1>2, <1>3
<1>6. QED
  BY <1>3, <1>4, <1>5

LEMMA ShowsIs ==
  ASSUME RobotParameters, NEW s \in Scenes, Clear(s), NEW c \in s
  PROVE  Shows(MergeBlobs(Robot(s, c)), Robot(s, c))
<1> DEFINE R == Robot(s, c)
<1>1. c \in R /\ R \in SUBSET s /\ IsFiniteSet(R) /\ Cardinality(R) \in Nat \ {0}
  <2>1. c \in R /\ R \in SUBSET s
    BY RobotsAre
  <2>2. IsFiniteSet(R)
    BY <2>1, SceneIs, FS_Subset
  <2> HIDE DEF R
  <2>3. QED
    BY <2>1, <2>2, FS_CardinalityType, FS_EmptySet
<1>2. \A a, b \in R : Alike(a, b)
  <2>1. \A a, b \in R : a \in s /\ b \in s /\ Robot(s, a) = R /\ Robot(s, b) = R
    BY <1>1, RobotsAre
  <2> HIDE DEF R
  <2>2. QED
    BY <2>1, RobotsAre
<1>3. \A a \in R : BlobIs(a)
  BY <1>1, SceneIs
<1> HIDE DEF R
<1> DEFINE angle == [b \in R |-> b.Angle]
<1>4. PICK l \in R : (\A b \in R : l.Angle <= b.Angle) /\ Min({b.Angle : b \in R}) = l.Angle
  <2>1. angle \in [R -> Nat]
    <3>1. \A b \in R : b.Angle \in Angles
      BY <1>3 DEF BlobIs
    <3> HIDE DEF angle
    <3>2. \A b \in R : b.Angle \in Nat
      BY <3>1 DEF Angles
    <3>3. QED
      BY <3>2 DEF angle
  <2>2. {angle[b] : b \in R} = {b.Angle : b \in R} /\ \A b \in R : angle[b] = b.Angle
    OBVIOUS
  <2> HIDE DEF angle
  <2>3. PICK l \in R : (\A b \in R : angle[l] <= angle[b]) /\ Min({angle[b] : b \in R}) = angle[l]
    BY <1>1, <2>1, SmallestOf
  <2>4. QED
    BY <2>2, <2>3
<1>5. PICK first \in Angles : first = l.Angle
  BY <1>3 DEF BlobIs
<1> DEFINE g == [b \in R |-> Straight(b.Angle, first)]
<1>6. ASSUME NEW b \in R
      PROVE  g[b] \in {b.Angle, b.Angle - 720} /\ g[b] \in first - 118..first + 118
  <2>1. PICK a \in Angles : a = b.Angle
    BY <1>3 DEF BlobIs
  <2>2. Apart(first, a) <= 118
    <3>1. PICK w \in HalfTurn : w = Apart(first, a)
      BY ApartBoth
    <3>2. PICK d \in 0..118 : d = MaxAngle[l.Distance]
      BY <1>3 DEF BlobIs
    <3>3. w <= d
      BY <1>2, <1>5, <2>1, <3>1, <3>2 DEF Alike
    <3>4. QED
      BY <3>1, <3>3 DEF HalfTurn
  <2>3. first <= a
    BY <1>4, <1>5, <2>1
  <2>4. Straight(a, first) \in {a, a - 720} /\ Straight(a, first) \in first - 118..first + 118
    BY <2>2, <2>3, StraightIs
  <2>5. QED
    BY <2>1, <2>4
<1> DEFINE below == [b \in R |-> g[b] + 118]
           above == [b \in R |-> first + 118 - g[b]]
<1>7. \A b \in R : g[b] \in Int
  BY <1>6
<1> HIDE DEF g
<1>8. PICK x \in R : \A b \in R : g[x] <= g[b]
  <2>1. below \in [R -> Nat] /\ \A b \in R : below[b] = g[b] + 118
    BY <1>6 DEF Angles
  <2> HIDE DEF below
  <2>2. PICK x \in R : \A b \in R : below[x] <= below[b]
    BY <1>1, <2>1, SmallestOf
  <2>3. QED
    BY <1>7, <2>1, <2>2
<1>9. PICK y \in R : \A b \in R : g[b] <= g[y]
  <2>1. above \in [R -> Nat] /\ \A b \in R : above[b] = first + 118 - g[b]
    BY <1>6, SMTT(40) DEF Angles
  <2> HIDE DEF above
  <2>2. PICK y \in R : \A b \in R : above[y] <= above[b]
    BY <1>1, <2>1, SmallestOf
  <2>3. QED
    BY <1>7, <2>1, <2>2 DEF Angles
<1>10. PICK lo \in Int : lo = g[x]
  BY <1>7
<1>11. PICK hi \in Int : hi = g[y]
  BY <1>7
<1>12. hi - lo <= 236 /\ lo >= -118 /\ hi <= 837
  <2>1. lo \in first - 118..first + 118 /\ hi \in first - 118..first + 118
    BY <1>6, <1>10, <1>11
  <2>2. QED
    BY <2>1 DEF Angles
<1>13. PICK m \in Int : m \in lo..hi /\ m = AverageAngle(R)
  <2>1. g \in [R -> lo..hi]
    <3>1. \A b \in R : g[b] \in lo..hi
      BY <1>7, <1>8, <1>9, <1>10, <1>11
    <3>2. QED
      BY <3>1 DEF g
  <2>2. PICK sum \in Int : sum = SumFunction(g) /\ Cardinality(R) * lo <= sum /\ sum <= Cardinality(R) * hi
    BY <1>1, <2>1, SumBetween
  <2>3. sum \div Cardinality(R) \in lo..hi
    BY <1>1, <2>2, AverageBetween
  <2>4. AverageAngle(R) = SumFunction(g) \div Cardinality(R)
    BY <1>4, <1>5 DEF AverageAngle, g
  <2>5. QED
    BY <2>2, <2>3, <2>4
<1> DEFINE f == MergeBlobs(R)
<1>14. f.Color = x.Color
  <2>1. f.Color = (CHOOSE b \in R : TRUE).Color
    BY DEF MergeBlobs
  <2>2. (CHOOSE b \in R : TRUE) \in R
    BY <1>1
  <2>3. QED
    BY <1>2, <2>1, <2>2 DEF Alike
<1>15. f.Distance = Min({b.Distance : b \in R}) /\ f.Angle = m % 720
  BY <1>13 DEF MergeBlobs, Circle
<1> HIDE DEF f
<1>16. ASSUME NEW a \in R
       PROVE  Apart(f.Angle, a.Angle) <= Apart(y.Angle, x.Angle)
  <2>1. PICK an \in Angles : an = a.Angle
    BY <1>3 DEF BlobIs
  <2>2. PICK xn \in Angles : xn = x.Angle
    BY <1>3 DEF BlobIs
  <2>3. PICK yn \in Angles : yn = y.Angle
    BY <1>3 DEF BlobIs
  <2>4. PICK p \in Int : p = g[a]
    BY <1>7
  <2>5. p \in lo..hi /\ p \in {an, an - 720} /\ lo \in {xn, xn - 720} /\ hi \in {yn, yn - 720}
    BY <1>6, <1>8, <1>9, <1>10, <1>11, <2>1, <2>2, <2>3, <2>4
  <2>6. Apart(m % 720, an) <= Apart(yn, xn)
    <3>1. Straightened(p, lo, hi, m, an, xn, yn)
      BY <1>12, <1>13, <2>4, <2>5 DEF Straightened
    <3>2. NoFarther(m, an, yn, xn)
      BY <3>1, BetweenAngles
    <3>3. QED
      BY <3>2 DEF NoFarther
  <2>7. QED
    BY <1>15, <2>1, <2>2, <2>3, <2>6
<1>17. Apart(y.Angle, x.Angle) \in {Apart(a.Angle, x.Angle) : a \in R}
  OBVIOUS
<1>18. Shows(f, R)
  BY <1>14, <1>15, <1>16, <1>17 DEF Shows
<1>19. QED
  BY <1>18 DEF f, R

-----------------------------------------------------------------------------
(* Blobs in the order of their angles: what is chosen by its rank is a     *)
(* list of all.                                                            *)
Orders(S, R) ==
  /\ \A x \in S : <<x, x>> \notin R
  /\ \A x, y, z \in S : <<x, y>> \in R /\ <<y, z>> \in R => <<x, z>> \in R
  /\ \A x, y \in S : x # y => <<x, y>> \in R \/ <<y, x>> \in R
Ranks(o, S, R) ==
  /\ o = [k \in 1..Cardinality(S) |-> o[k]]
  /\ \A k \in 1..Cardinality(S) :
       (\E x \in S : Cardinality({y \in S : <<y, x>> \in R}) = k - 1)
         => o[k] \in S /\ Cardinality({y \in S : <<y, o[k]>> \in R}) = k - 1
Lists(o, S, R) ==
  /\ o \in [1..Cardinality(S) -> S] /\ Cardinality(S) \in Nat
  /\ \A k, l \in 1..Cardinality(S) : o[k] = o[l] => k = l
  /\ \A x \in S : \E k \in 1..Cardinality(S) : o[k] = x
  /\ \A k, l \in 1..Cardinality(S) : k < l => <<o[k], o[l]>> \in R
LEMMA RankedIs ==
  ASSUME NEW S, IsFiniteSet(S), NEW R, Orders(S, R), NEW o, Ranks(o, S, R)
  PROVE  Lists(o, S, R)
<1> DEFINE n == Cardinality(S)
           pred(x) == {y \in S : <<y, x>> \in R}
           rank(x) == Cardinality(pred(x))
           place == [x \in S |-> rank(x) + 1]
<1>1. n \in Nat /\ IsFiniteSet(1..n) /\ Cardinality(1..n) = n
  <2>1. n \in Nat
    BY FS_CardinalityType
  <2>2. IsFiniteSet(1..n) /\ Cardinality(1..n) = IF 1 > n THEN 0 ELSE n - 1 + 1
    BY <2>1, FS_Interval
  <2>3. QED
    BY <2>1, <2>2
<1>2. ASSUME NEW x \in S
      PROVE  rank(x) \in Nat /\ rank(x) < n /\ IsFiniteSet(pred(x))
  <2>1. pred(x) \in SUBSET (S \ {x})
    BY DEF Orders
  <2>2. IsFiniteSet(S \ {x}) /\ Cardinality(S \ {x}) = n - 1
    BY FS_RemoveElement
  <2> HIDE DEF pred, n
  <2>3. IsFiniteSet(pred(x)) /\ rank(x) <= n - 1
    BY <2>1, <2>2, FS_Subset
  <2>4. rank(x) \in Nat
    BY <2>3, FS_CardinalityType
  <2>5. QED
    BY <1>1, <2>3, <2>4
<1>3. ASSUME NEW x \in S, NEW y \in S, <<x, y>> \in R
      PROVE  rank(x) < rank(y)
  <2>1. pred(x) \in SUBSET pred(y) /\ x \in pred(y) /\ x \notin pred(x)
    BY <1>3 DEF Orders
  <2> HIDE DEF pred
  <2>2. pred(x) # pred(y) /\ IsFiniteSet(pred(y))
    BY <1>2, <2>1
  <2>3. rank(x) <= rank(y) /\ rank(x) # rank(y)
    BY <2>1, <2>2, FS_Subset
  <2> HIDE DEF rank
  <2>4. rank(x) \in Nat /\ rank(y) \in Nat
    BY <1>2
  <2>5. QED
    BY <2>3, <2>4
<1>4. ASSUME NEW x \in S, NEW y \in S, rank(x) = rank(y)
      PROVE  x = y
  <2>1. ~(rank(x) < rank(y)) /\ ~(rank(y) < rank(x))
    <3>1. rank(x) \in Nat /\ rank(y) \in Nat
      BY <1>2
    <3> HIDE DEF rank
    <3>2. QED
      BY <1>4, <3>1
  <2>2. <<x, y>> \notin R /\ <<y, x>> \notin R
    BY <1>3, <2>1
  <2>3. QED
    BY <2>2 DEF Orders
<1> HIDE DEF rank, n
<1>5. place \in Injection(S, 1..n)
  <2>1. ASSUME NEW x \in S
        PROVE  rank(x) + 1 \in 1..n
    <3>1. rank(x) \in Nat /\ rank(x) < n
      BY <1>2
    <3>2. QED
      BY <1>1, <3>1
  <2>2. ASSUME NEW x \in S, NEW y \in S, rank(x) + 1 = rank(y) + 1
        PROVE  x = y
    <3>1. rank(x) \in Nat /\ rank(y) \in Nat
      BY <1>2
    <3>2. rank(x) = rank(y)
      BY <2>2, <3>1
    <3>3. QED
      BY <1>4, <3>2
  <2>3. QED
    BY <2>1, <2>2 DEF Injection, IsInjective
<1>6. place \in Surjection(S, 1..n)
  <2> HIDE DEF place
  <2>1. QED
    BY <1>1, <1>5, FS_Injection DEF n
<1>7. \A k \in 1..n : \E x \in S : rank(x) = k - 1
  <2>1. ASSUME NEW k \in 1..n
        PROVE  \E x \in S : rank(x) = k - 1
    <3>1. PICK x \in S : place[x] = k
      BY <1>6 DEF Surjection
    <3>2. rank(x) + 1 = k /\ rank(x) \in Nat
      BY <1>2, <3>1
    <3>3. QED
      BY <3>2
  <2>2. QED
    BY <2>1
<1>8. o = [k \in 1..n |-> o[k]] /\ \A k \in 1..n : (\E x \in S : rank(x) = k - 1) => o[k] \in S /\ rank(o[k]) = k - 1
  BY DEF Ranks, n, rank, pred
<1> HIDE DEF place, pred
<1>9. \A k \in 1..n : o[k] \in S /\ rank(o[k]) = k - 1
  BY <1>7, <1>8
<1>10. o \in [1..n -> S]
  BY <1>8, <1>9
<1>11. \A k, l \in 1..n : o[k] = o[l] => k = l
  <2>1. ASSUME NEW k \in 1..n, NEW l \in 1..n, o[k] = o[l]
        PROVE  k = l
    <3>1. k - 1 = l - 1 /\ k \in Int /\ l \in Int
      BY <1>9, <2>1
    <3>2. QED
      BY <3>1
  <2>2. QED
    BY <2>1
<1>12. \A x \in S : \E k \in 1..n : o[k] = x
  <2>1. ASSUME NEW x \in S
        PROVE  rank(x) + 1 \in 1..n /\ o[rank(x) + 1] = x
    <3>1. rank(x) \in Nat /\ rank(x) < n
      BY <1>2
    <3>2. PICK k \in 1..n : k = rank(x) + 1
      BY <1>1, <3>1
    <3>3. o[k] \in S /\ rank(o[k]) = k - 1 /\ k - 1 = rank(x)
      BY <1>9, <3>1, <3>2
    <3>4. o[k] = x
      BY <1>4, <3>3
    <3>5. QED
      BY <3>2, <3>4
  <2>2. QED
    BY <2>1
<1>13. \A k, l \in 1..n : k < l => <<o[k], o[l]>> \in R
  <2>1. ASSUME NEW k \in 1..n, NEW l \in 1..n, k < l
        PROVE  <<o[k], o[l]>> \in R
    <3>1. o[k] \in S /\ o[l] \in S /\ rank(o[k]) = k - 1 /\ rank(o[l]) = l - 1
      BY <1>9
    <3>2. k # l /\ o[k] # o[l] /\ ~(rank(o[l]) < rank(o[k]))
      BY <1>11, <2>1, <3>1
    <3>3. <<o[l], o[k]>> \notin R
      BY <1>3, <3>1, <3>2
    <3>4. QED
      BY <3>1, <3>2, <3>3 DEF Orders
  <2>2. QED
    BY <2>1
<1>14. QED
  BY <1>1, <1>10, <1>11, <1>12, <1>13 DEF Lists, n

Sorts(q, T) ==
  /\ Cardinality(T) \in Nat /\ q \in [1..Cardinality(T) -> T]
  /\ \A x \in T : \E k \in 1..Cardinality(T) : q[k] = x
  /\ \A k, l \in 1..Cardinality(T) : q[k] = q[l] => k = l
  /\ \A k, l \in 1..Cardinality(T) : k < l => q[k].Angle <= q[l].Angle
Colored(s, color) == {b \in s : b.Color = color}
LEMMA SortsByAngle ==
  ASSUME NEW s \in Scenes, NEW color
  PROVE  Sorts(SortByAngle(Colored(s, color)), Colored(s, color))
<1> DEFINE T == Colored(s, color)
           R == {p \in T \X T : Before(p[1], p[2])}
           q == SortByAngle(T)
<1>1. IsFiniteSet(T) /\ T \in SUBSET s
  BY SceneIs, FS_Subset DEF Colored
<1>2. \A b \in T : b.Angle \in Int /\ b.Distance \in Int
  BY SceneIs DEF Colored, BlobIs, Angles
<1>12. \A a, b \in T : a.Angle = b.Angle /\ a.Distance = b.Distance => a = b
  BY SceneIs DEF Colored, BlobIs
<1> HIDE DEF T
<1>3. \A a, b \in T : <<a, b>> \in R <=> Before(a, b)
  OBVIOUS
<1>4. q = [k \in 1..Cardinality(T) |-> CHOOSE x \in T : Cardinality({y \in T : Before(y, x)}) = k - 1]
  BY DEF SortByAngle
<1> HIDE DEF R, q
<1>5. Orders(T, R)
  <2>1. ASSUME NEW x \in T, NEW y \in T, NEW z \in T
        PROVE  /\ ~Before(x, x)
               /\ Before(x, y) /\ Before(y, z) => Before(x, z)
               /\ x # y => Before(x, y) \/ Before(y, x)
    <3>1. /\ x.Angle \in Int /\ y.Angle \in Int /\ z.Angle \in Int
          /\ x.Distance \in Int /\ y.Distance \in Int /\ z.Distance \in Int
      BY <1>2, ZenonT(20)
    <3>2. x.Angle = y.Angle /\ x.Distance = y.Distance => x = y
      BY <1>12, ZenonT(20)
    <3>3. QED
      BY <3>1, <3>2 DEF Before
  <2> HIDE DEF T
  <2>2. /\ \A x \in T : <<x, x>> \notin R
        /\ \A x, y, z \in T : <<x, y>> \in R /\ <<y, z>> \in R => <<x, z>> \in R
        /\ \A x, y \in T : x # y => <<x, y>> \in R \/ <<y, x>> \in R
    BY <1>3, <2>1
  <2>3. QED
    BY <2>2 DEF Orders
<1>6. Ranks(q, T, R)
  <2>1. \A x \in T : {y \in T : Before(y, x)} = {y \in T : <<y, x>> \in R}
    BY <1>3
  <2>2. \A k \in 1..Cardinality(T) : q[k] = CHOOSE x \in T : Cardinality({y \in T : Before(y, x)}) = k - 1
    BY <1>4
  <2>3. ASSUME NEW k \in 1..Cardinality(T), \E x \in T : Cardinality({y \in T : <<y, x>> \in R}) = k - 1
        PROVE  q[k] \in T /\ Cardinality({y \in T : <<y, q[k]>> \in R}) = k - 1
    <3>1. \E x \in T : Cardinality({y \in T : Before(y, x)}) = k - 1
      BY <2>1, <2>3, ZenonT(20)
    <3>2. q[k] \in T /\ Cardinality({y \in T : Before(y, q[k])}) = k - 1
      BY <2>2, <3>1
    <3>3. QED
      BY <2>1, <3>2, ZenonT(20)
  <2>4. q = [k \in 1..Cardinality(T) |-> q[k]]
    <3> DEFINE ranked(k) == CHOOSE x \in T : Cardinality({y \in T : Before(y, x)}) = k - 1
    <3>1. q = [k \in 1..Cardinality(T) |-> ranked(k)]
      BY <1>4
    <3> HIDE DEF ranked
    <3>2. QED
      BY <3>1
  <2>5. QED
    BY <2>3, <2>4 DEF Ranks
<1>7. Lists(q, T, R)
  BY <1>1, <1>5, <1>6, RankedIs
<1>8. q \in [1..Cardinality(T) -> T] /\ Cardinality(T) \in Nat
  BY <1>7 DEF Lists
<1>9. \A k, l \in 1..Cardinality(T) : k < l => q[k].Angle <= q[l].Angle
  <2>1. ASSUME NEW k \in 1..Cardinality(T), NEW l \in 1..Cardinality(T), k < l
        PROVE  q[k].Angle <= q[l].Angle
    <3>1. q[k] \in T /\ q[l] \in T /\ <<q[k], q[l]>> \in R
      BY <1>7, <1>8, <2>1 DEF Lists
    <3>2. Before(q[k], q[l])
      BY <1>3, <3>1
    <3>3. q[k].Angle \in Int /\ q[l].Angle \in Int
      BY <1>2, <3>1, ZenonT(20)
    <3>4. QED
      BY <3>2, <3>3 DEF Before
  <2>2. QED
    BY <2>1
<1>10. \A x \in T : \E k \in 1..Cardinality(T) : q[k] = x
  BY <1>7 DEF Lists
<1>11. \A k, l \in 1..Cardinality(T) : q[k] = q[l] => k = l
  BY <1>7 DEF Lists
<1>13. QED
  BY <1>8, <1>9, <1>10, <1>11 DEF Sorts, q, T


-----------------------------------------------------------------------------
(* The groups of a colour, one blob after the other. *)
Merged(U) == {MergeBlobs(g) : g \in SUBSET U}
Grouping(U) == [ref : U, group : SUBSET U, merged : Seq(Merged(U))]
LEMMA ExtendIs ==
  ASSUME NEW U, NEW acc \in Grouping(U), NEW b \in U
  PROVE  Extend(acc, b) \in Grouping(U)
<1>1. acc.group \in SUBSET U /\ acc.merged \in Seq(Merged(U)) /\ MergeBlobs(acc.group) \in Merged(U)
  BY DEF Grouping, Merged
<1>2. Append(acc.merged, MergeBlobs(acc.group)) \in Seq(Merged(U))
  BY <1>1
<1>3. [acc EXCEPT !.group = @ \cup {b}] \in Grouping(U)
  BY <1>1 DEF Grouping
<1>4. [ref |-> b, group |-> {b}, merged |-> Append(acc.merged, MergeBlobs(acc.group))] \in Grouping(U)
  BY <1>2 DEF Grouping
<1>5. QED
  BY <1>3, <1>4 DEF Extend

Begun(blobs, back) ==
  [ref |-> blobs[1], merged |-> <<>>,
   group |-> {blobs[1]} \cup {blobs[i] : i \in Len(blobs) - back + 1..Len(blobs)}]
GroupsSteps(t, U, blobs, e) ==
  /\ t[1] = Begun(blobs, Len(blobs) - e)
  /\ \A j \in 1..e : t[j] \in Grouping(U)
  /\ \A j \in 2..e : t[j] = Extend(t[j - 1], blobs[j])
  /\ Groups(blobs, Len(blobs) - e) = Append(t[e].merged, MergeBlobs(t[e].group))
LEMMA GroupsTrace ==
  ASSUME NEW U, NEW blobs \in Seq(U), NEW e \in 1..Len(blobs)
  PROVE  \E t : GroupsSteps(t, U, blobs, e)
<1> DEFINE back == Len(blobs) - e
           seq == SubSeq(blobs, 2, Len(blobs) - back)
           n == Len(seq)
           first == Begun(blobs, back)
           Q == Grouping(U)
           op == [i \in 1..n |-> [t \in Q |-> Extend(t, seq[i])]]
           iter == CHOOSE f : f = [s \in SUBSET (1..n) |-> IF s = {} THEN first
                                     ELSE Extend(f[s \ {Max(s)}], seq[Max(s)])]
           t == [j \in 1..e |-> iter[1..j - 1]]
<1>1. Len(blobs) \in Nat /\ back \in Nat /\ back < Len(blobs) /\ e \in Nat \ {0} /\ Len(blobs) - back = e
  OBVIOUS
<1>2. \A i \in 1..Len(blobs) : blobs[i] \in U
  OBVIOUS
<1>3. seq \in Seq(U) /\ n = e - 1 /\ \A i \in 1..n : seq[i] = blobs[i + 1] /\ blobs[i + 1] \in U
  <2>1. seq = SubSeq(blobs, 2, e)
    BY <1>1
  <2>2. \A i \in 2..e : blobs[i] \in U
    BY <1>1, <1>2
  <2>3. SubSeq(blobs, 2, e) \in Seq(U) /\ Len(SubSeq(blobs, 2, e)) = e - 1
    BY <1>1, <2>2
  <2>4. \A i \in 1..e - 1 : SubSeq(blobs, 2, e)[i] = blobs[i + 1]
    BY <1>1, <2>2
  <2>5. \A i \in 1..e - 1 : i + 1 \in 1..Len(blobs)
    BY <1>1
  <2>6. QED
    BY <1>2, <2>1, <2>3, <2>4, <2>5
<1>4. n \in Nat /\ DOMAIN seq = 1..n
  BY <1>1, <1>3
<1>5. first \in Q
  <2>1. \A i \in Len(blobs) - back + 1..Len(blobs) : blobs[i] \in U
    BY <1>1, <1>2
  <2>2. {blobs[1]} \cup {blobs[i] : i \in Len(blobs) - back + 1..Len(blobs)} \in SUBSET U
    BY <1>1, <1>2, <2>1
  <2>3. QED
    BY <1>1, <1>2, <2>2 DEF Grouping, Begun
<1> HIDE DEF seq, n, Q, first
<1>6. \A i \in 1..n : \A u \in Q : Extend(u, seq[i]) \in Q
  BY <1>3, ExtendIs DEF Q
<1>7. op \in [1..n -> [Q -> Q]]
  BY <1>6
<1>8. PICK f \in [SUBSET (1..n) -> Q] : FoldsLeft(n, first, op, f)
  <2> HIDE DEF op
  <2>1. CanFoldLeft(n, Q, first, op)
    BY <1>4, <1>5, <1>7, FoldLeftExists
  <2>2. QED
    BY <2>1 DEF CanFoldLeft
<1>9. f = [s \in SUBSET (1..n) |-> IF s = {} THEN first ELSE Extend(f[s \ {Max(s)}], seq[Max(s)])]
  <2>1. ASSUME NEW s \in SUBSET (1..n), s # {}
        PROVE  op[Max(s)][f[s \ {Max(s)}]] = Extend(f[s \ {Max(s)}], seq[Max(s)])
    <3>1. Max(s) \in 1..n /\ s \ {Max(s)} \in SUBSET (1..n)
      BY <1>4, <2>1, MaxIn
    <3>2. f[s \ {Max(s)}] \in Q
      BY <3>1
    <3>3. QED
      BY <3>1, <3>2
  <2> HIDE DEF op
  <2>2. QED
    BY <1>8, <2>1 DEF FoldsLeft
<1>10. iter = [s \in SUBSET (1..n) |-> IF s = {} THEN first ELSE Extend(iter[s \ {Max(s)}], seq[Max(s)])]
  BY <1>9
<1>11. FoldLeft(Extend, first, seq) = iter[1..n]
  BY <1>4 DEF FoldLeft, MapThenFoldSet
<1> HIDE DEF iter, op
<1>12. iter[1..0] = first
  <2>1. 1..0 = {} /\ {} \in SUBSET (1..n)
    OBVIOUS
  <2>2. QED
    BY <1>10, <2>1
<1>13. ASSUME NEW k \in 1..n
       PROVE  iter[1..k] = Extend(iter[1..k - 1], seq[k])
  <2>1. /\ 1..k \in SUBSET (1..n) /\ 1..k # {} /\ Max(1..k) = k
        /\ (1..k) \ {k} = 1..k - 1
    BY <1>4, LastOfInterval
  <2>2. QED
    BY <1>10, <2>1
<1>14. \A k \in 0..n : iter[1..k] \in Q
  <2> DEFINE P == {k \in 0..n : iter[1..k] \in Q}
  <2>1. P \in SUBSET (0..n) /\ 0 \in P
    BY <1>4, <1>5, <1>12
  <2>2. ASSUME NEW k \in 1..n, k - 1 \in P
        PROVE  k \in P
    <3>1. iter[1..k - 1] \in Q /\ k \in 0..n
      BY <1>4, <2>2
    <3>2. Extend(iter[1..k - 1], seq[k]) \in Q
      BY <1>6, <3>1
    <3>3. QED
      BY <1>13, <3>1, <3>2
  <2> HIDE DEF P
  <2>3. P = 0..n
    BY <1>4, <2>1, <2>2, PassedOn
  <2>4. QED
    BY <2>3 DEF P
<1>15. t[1] = first
  <2>1. t[1] = iter[1..1 - 1] /\ 1 - 1 = 0
    BY <1>1
  <2>2. QED
    BY <1>12, <2>1
<1>16. \A j \in 1..e : t[j] \in Q
  <2>1. \A j \in 1..e : j - 1 \in 0..n
    BY <1>1, <1>3
  <2>2. QED
    BY <1>14, <2>1
<1>17. \A j \in 2..e : t[j] = Extend(t[j - 1], blobs[j])
  <2>1. ASSUME NEW j \in 2..e
        PROVE  t[j] = Extend(t[j - 1], blobs[j])
    <3>1. PICK k \in 1..n : k = j - 1
      BY <1>1, <1>3
    <3>2. j \in 1..e /\ k \in 1..e /\ j = k + 1 /\ j - 1 = k
      BY <1>1, <3>1
    <3>3. t[j] = iter[1..k] /\ t[k] = iter[1..k - 1] /\ seq[k] = blobs[j]
      BY <1>3, <3>2
    <3>4. QED
      BY <1>13, <3>2, <3>3
  <2>2. QED
    BY <2>1
<1>18. t[e] = iter[1..n]
  BY <1>1, <1>3
<1> DEFINE last == FoldLeft(Extend, first, seq)
<1>19. Groups(blobs, back) = Append(last.merged, MergeBlobs(last.group))
  BY DEF Groups, seq, first, Begun
<1>20. last = t[e]
  BY <1>11, <1>18
<1> HIDE DEF last, t
<1>21. Groups(blobs, back) = Append(t[e].merged, MergeBlobs(t[e].group))
  BY <1>19, <1>20
<1>22. QED
  BY <1>15, <1>16, <1>17, <1>21 DEF GroupsSteps, Q, first

(* What is merged, robot after robot. *)
Listed(m, S) ==
  /\ IsFiniteSet(S) /\ Len(m) = Cardinality(S)
  /\ \A x \in S : \E i \in 1..Len(m) : m[i] = MergeBlobs(x)
LEMMA ListedMore ==
  ASSUME NEW M, NEW m \in Seq(M), NEW S, Listed(m, S), NEW x, x \notin S, MergeBlobs(x) \in M
  PROVE  Listed(Append(m, MergeBlobs(x)), S \cup {x})
<1> DEFINE more == Append(m, MergeBlobs(x))
<1>1. /\ Len(m) \in Nat /\ Len(more) = Len(m) + 1 /\ more[Len(m) + 1] = MergeBlobs(x)
      /\ \A i \in 1..Len(m) : more[i] = m[i]
  OBVIOUS
<1>2. IsFiniteSet(S \cup {x}) /\ Cardinality(S \cup {x}) = Cardinality(S) + 1
  BY FS_AddElement DEF Listed
<1>3. Len(more) = Cardinality(S \cup {x})
  BY <1>1, <1>2 DEF Listed
<1>4. ASSUME NEW y \in S \cup {x}
      PROVE  \E i \in 1..Len(more) : more[i] = MergeBlobs(y)
  <2>1. CASE y = x
    <3>1. Len(m) + 1 \in 1..Len(more)
      BY <1>1
    <3> HIDE DEF more
    <3>2. QED
      BY <1>1, <2>1, <3>1
  <2>2. CASE y \in S
    <3>1. PICK i \in 1..Len(m) : m[i] = MergeBlobs(y)
      BY <2>2 DEF Listed
    <3>2. i \in 1..Len(more) /\ more[i] = MergeBlobs(y)
      BY <1>1, <3>1
    <3> HIDE DEF more
    <3>3. QED
      BY <3>2
  <2>3. QED
    BY <2>1, <2>2
<1> HIDE DEF more
<1>5. QED
  BY <1>2, <1>3, <1>4 DEF Listed, more

(* The robots of the blobs of a colour, and how they lie in it when those  *)
(* behind e are of the first one's.                                        *)
Told(R, q) ==
  \A i \in 1..Len(q) :
    /\ R[i] \subseteq {q[k] : k \in 1..Len(q)}
    /\ \A k \in 1..Len(q) : /\ q[k] \in R[i] <=> R[k] = R[i]
                            /\ BelongingToSameRobot(q[i], q[k]) <=> R[k] = R[i]
Runs(R, n, e) ==
  /\ \A i \in e + 1..n : R[i] = R[1]
  /\ \A i, j, k \in 1..e : i < j /\ j < k /\ R[i] = R[k] => R[j] = R[i]
InGroup(i, j, r, e) == (r <= i /\ i <= j) \/ (r = 1 /\ e < i)
Same(R, j, r) == (\A i \in r..j : R[i] = R[r]) /\ (\A i \in 1..r - 1 : R[i] # R[r])
Open(u, R, q, e, j, r) ==
  /\ u.ref = q[r] /\ Same(R, j, r)
  /\ u.group = {q[i] : i \in {k \in 1..Len(q) : InGroup(k, j, r, e)}}
  /\ Listed(u.merged, {R[i] : i \in 1..r - 1})

(* A group is the whole robot when the next blob is not of it. *)
LEMMA GroupWhole ==
  ASSUME NEW U, NEW q \in Seq(U), NEW e \in 1..Len(q), NEW R, Told(R, q), Runs(R, Len(q), e),
         NEW j \in 1..e, NEW r \in 1..j, Same(R, j, r), j # e => R[j + 1] # R[r]
  PROVE  {q[i] : i \in {k \in 1..Len(q) : InGroup(k, j, r, e)}} = R[r]
<1> DEFINE n == Len(q)
<1>1. n \in Nat /\ r \in 1..n /\ 1 \in 1..n
  OBVIOUS
<1>2. ASSUME NEW i \in 1..n, InGroup(i, j, r, e)
      PROVE  R[i] = R[r]
  <2>1. CASE r <= i /\ i <= j
    BY <2>1 DEF Same
  <2>2. CASE r = 1 /\ e < i
    <3>1. i \in e + 1..n
      BY <2>2
    <3>2. QED
      BY <2>2, <3>1 DEF Runs
  <2>3. QED
    BY <1>2, <2>1, <2>2 DEF InGroup
<1>3. ASSUME NEW i \in 1..n, R[i] = R[r]
      PROVE  InGroup(i, j, r, e)
  <2>1. CASE i < r
    <3>1. i \in 1..r - 1
      BY <2>1
    <3>2. QED
      BY <1>3, <3>1 DEF Same
  <2>2. CASE j < i /\ i <= e
    <3>1. j + 1 \in 1..e /\ r \in 1..e /\ i \in 1..e /\ r < j + 1 /\ j # e
      BY <2>2
    <3>2. j + 1 < i
      BY <1>3, <2>2, <3>1
    <3>3. R[j + 1] = R[r]
      BY <1>3, <3>1, <3>2 DEF Runs
    <3>4. QED
      BY <3>1, <3>3
  <2>3. CASE e < i
    <3>1. i \in e + 1..n
      BY <2>3
    <3>2. R[1] = R[r]
      BY <1>3, <3>1 DEF Runs
    <3>3. r = 1
      <4>1. CASE r # 1
        <5>1. 1 \in 1..r - 1
          BY <4>1
        <5>2. QED
          BY <3>2, <5>1 DEF Same
      <4>2. QED
        BY <4>1
    <3>4. QED
      BY <2>3, <3>3 DEF InGroup
  <2>4. CASE r <= i /\ i <= j
    BY <2>4 DEF InGroup
  <2>5. i < r \/ (j < i /\ i <= e) \/ e < i \/ (r <= i /\ i <= j)
    OBVIOUS
  <2>6. QED
    BY <2>1, <2>2, <2>3, <2>4, <2>5
<1> DEFINE G == {k \in 1..n : InGroup(k, j, r, e)}
<1>4. \A k \in 1..n : k \in G <=> q[k] \in R[r]
  <2>1. \A k \in 1..n : q[k] \in R[r] <=> R[k] = R[r]
    BY <1>1 DEF Told
  <2>2. QED
    BY <1>2, <1>3, <2>1
<1>5. R[r] \subseteq {q[k] : k \in 1..n} /\ G \subseteq 1..n
  BY <1>1 DEF Told
<1> HIDE DEF G
<1>6. {q[i] : i \in G} = R[r]
  BY <1>4, <1>5
<1>7. QED
  BY <1>6 DEF G
OpenAt(u, U, R, q, e, j, r) == u \in Grouping(U) /\ Open(u, R, q, e, j, r)
Laid(U, q, e, R) == /\ q \in Seq(U) /\ e \in 1..Len(q) /\ Told(R, q) /\ Runs(R, Len(q), e)
                    /\ \A i \in 1..Len(q) : R[i] \in SUBSET U
ClosedAt(R, j, r, e) == j # e => R[j + 1] # R[r]
ClosedTo(u, R, j) == Listed(Append(u.merged, MergeBlobs(u.group)), {R[i] : i \in 1..j})
LEMMA OpenClosed ==
  ASSUME NEW U, NEW q, NEW e, NEW R, Laid(U, q, e, R), NEW j \in 1..e, NEW r \in 1..j, NEW u,
         OpenAt(u, U, R, q, e, j, r), ClosedAt(R, j, r, e)
  PROVE  ClosedTo(u, R, j)
<1>1. u.group = R[r]
  <2>1. u.group = {q[i] : i \in {k \in 1..Len(q) : InGroup(k, j, r, e)}} /\ Same(R, j, r)
    BY DEF OpenAt, Open
  <2>2. QED
    BY <2>1, GroupWhole DEF Laid, ClosedAt
<1> DEFINE S == {R[i] : i \in 1..r - 1}
<1>2. R[r] \notin S
  BY DEF OpenAt, Open, Same
<1>3. S \cup {R[r]} = {R[i] : i \in 1..j}
  <2>1. \A i \in 1..j : i \in 1..r - 1 \/ i \in r..j
    BY DEF Laid
  <2>2. \A i \in r..j : R[i] = R[r]
    BY DEF OpenAt, Open, Same
  <2>3. r \in 1..j /\ \A i \in 1..r - 1 : i \in 1..j
    BY DEF Laid
  <2>4. QED
    BY <2>1, <2>2, <2>3
<1>4. u.merged \in Seq(Merged(U)) /\ Listed(u.merged, S)
  BY DEF OpenAt, Open, Grouping
<1>5. MergeBlobs(R[r]) \in Merged(U)
  <2>1. r \in 1..Len(q)
    BY DEF Laid
  <2>2. QED
    BY <2>1 DEF Merged, Laid
<1> HIDE DEF S
<1>6. Listed(Append(u.merged, MergeBlobs(R[r])), S \cup {R[r]})
  BY <1>2, <1>4, <1>5, ListedMore
<1>7. QED
  BY <1>1, <1>3, <1>6 DEF ClosedTo

LEMMA OpenNext ==
  ASSUME NEW U, NEW q, NEW e, NEW R, Laid(U, q, e, R), NEW k \in 2..e, NEW r \in 1..k - 1, NEW u,
         OpenAt(u, U, R, q, e, k - 1, r)
  PROVE  \E p \in 1..k : OpenAt(Extend(u, q[k]), U, R, q, e, k, p)
<1>1. /\ k \in 1..Len(q) /\ r \in 1..Len(q) /\ k \in 1..e /\ k - 1 \in 1..e /\ k - 1 # e /\ (k - 1) + 1 = k
      /\ k \in Nat /\ r \in Nat /\ e \in Nat /\ r < k
  BY DEF Laid
<1>2. q[k] \in U
  BY <1>1 DEF Laid
<1>3. u \in Grouping(U) /\ u.ref = q[r] /\ Same(R, k - 1, r)
  BY DEF OpenAt, Open
<1>4. Extend(u, q[k]) \in Grouping(U)
  BY <1>2, <1>3, ExtendIs
<1>5. BelongingToSameRobot(u.ref, q[k]) <=> R[k] = R[r]
  BY <1>1, <1>3 DEF Laid, Told
<1>6. u = [ref |-> u.ref, group |-> u.group, merged |-> u.merged]
  BY <1>3 DEF Grouping
<1>7. CASE R[k] = R[r]
  <2>1. Extend(u, q[k]) = [u EXCEPT !.group = @ \cup {q[k]}]
    BY <1>5, <1>7 DEF Extend
  <2>2. /\ Extend(u, q[k]).ref = q[r] /\ Extend(u, q[k]).merged = u.merged
        /\ Extend(u, q[k]).group = u.group \cup {q[k]}
    BY <1>3, <1>6, <2>1
  <2>3. Same(R, k, r)
    <3>1. ASSUME NEW i \in r..k
          PROVE  R[i] = R[r]
      <4>1. i = k \/ i \in r..k - 1
        BY <1>1
      <4>2. QED
        BY <1>3, <1>7, <4>1 DEF Same
    <3>2. QED
      BY <1>3, <3>1 DEF Same
  <2>4. {q[i] : i \in {m \in 1..Len(q) : InGroup(m, k - 1, r, e)}} \cup {q[k]}
          = {q[i] : i \in {m \in 1..Len(q) : InGroup(m, k, r, e)}}
    <3>1. \A m \in 1..Len(q) : InGroup(m, k, r, e) <=> InGroup(m, k - 1, r, e) \/ m = k
      BY <1>1 DEF InGroup
    <3>2. QED
      BY <1>1, <3>1
  <2>5. Open(Extend(u, q[k]), R, q, e, k, r)
    BY <2>2, <2>3, <2>4 DEF OpenAt, Open
  <2>6. r \in 1..k
    BY <1>1
  <2>7. QED
    BY <1>4, <2>5, <2>6 DEF OpenAt
<1>8. CASE R[k] # R[r]
  <2>1. Extend(u, q[k]) = [ref |-> q[k], group |-> {q[k]}, merged |-> Append(u.merged, MergeBlobs(u.group))]
    BY <1>5, <1>8 DEF Extend
  <2>2. Listed(Append(u.merged, MergeBlobs(u.group)), {R[i] : i \in 1..k - 1})
    <3>1. PICK j \in 1..e : j = k - 1
      BY <1>1
    <3>2. ClosedAt(R, j, r, e) /\ r \in 1..j /\ OpenAt(u, U, R, q, e, j, r)
      BY <1>1, <1>8, <3>1 DEF ClosedAt
    <3>3. ClosedTo(u, R, j)
      BY <3>2, OpenClosed
    <3>4. QED
      BY <3>1, <3>3 DEF ClosedTo
  <2>3. Same(R, k, k)
    <3>1. \A i \in k..k : R[i] = R[k]
      BY <1>1
    <3>2. ASSUME NEW i \in 1..k - 1
          PROVE  R[i] # R[k]
      <4>1. CASE i \in r..k - 1
        BY <1>3, <1>8, <4>1 DEF Same
      <4>2. CASE i < r
        <5>1. i \in 1..e /\ r \in 1..e
          BY <1>1
        <5>2. R[i] = R[k] => R[r] = R[i]
          BY <1>1, <4>2, <5>1 DEF Laid, Runs
        <5>3. QED
          BY <1>8, <5>2
      <4>3. QED
        BY <1>1, <4>1, <4>2
    <3>3. QED
      BY <3>1, <3>2 DEF Same
  <2>4. {q[k]} = {q[i] : i \in {m \in 1..Len(q) : InGroup(m, k, k, e)}}
    <3>1. \A m \in 1..Len(q) : InGroup(m, k, k, e) <=> m = k
      BY <1>1 DEF InGroup
    <3>2. QED
      BY <1>1, <3>1
  <2>5. Open(Extend(u, q[k]), R, q, e, k, k)
    <3>1. /\ Extend(u, q[k]).ref = q[k] /\ Extend(u, q[k]).group = {q[k]}
          /\ Extend(u, q[k]).merged = Append(u.merged, MergeBlobs(u.group))
      BY <2>1
    <3>2. QED
      BY <2>2, <2>3, <2>4, <3>1 DEF Open
  <2>6. k \in 1..k
    BY <1>1
  <2>7. QED
    BY <1>4, <2>5, <2>6 DEF OpenAt
<1>9. QED
  BY <1>7, <1>8

LEMMA GroupsListed ==
  ASSUME NEW U, NEW q, NEW e, NEW R, Laid(U, q, e, R)
  PROVE  Listed(Groups(q, Len(q) - e), {R[i] : i \in 1..Len(q)})
<1>1. /\ q \in Seq(U) /\ e \in 1..Len(q) /\ Len(q) \in Nat /\ e \in Nat \ {0} /\ 1 \in 1..e /\ e \in 1..e
      /\ Len(q) - (Len(q) - e) = e
  BY DEF Laid
<1>2. PICK t : GroupsSteps(t, U, q, e)
  BY <1>1, GroupsTrace
<1> DEFINE OpenNow(j) == \E r \in 1..j : OpenAt(t[j], U, R, q, e, j, r)
<1>3. OpenNow(1)
  <2>1. t[1] = Begun(q, Len(q) - e) /\ t[1] \in Grouping(U)
    BY <1>1, <1>2 DEF GroupsSteps
  <2>2. /\ t[1].ref = q[1] /\ t[1].merged = <<>>
        /\ t[1].group = {q[1]} \cup {q[i] : i \in Len(q) - (Len(q) - e) + 1..Len(q)}
    BY <2>1 DEF Begun
  <2>3. Same(R, 1, 1)
    BY DEF Same
  <2>4. t[1].group = {q[i] : i \in {m \in 1..Len(q) : InGroup(m, 1, 1, e)}}
    <3>1. \A m \in 1..Len(q) : InGroup(m, 1, 1, e) <=> m = 1 \/ m \in e + 1..Len(q)
      BY <1>1 DEF InGroup
    <3>2. 1 \in 1..Len(q) /\ \A m \in e + 1..Len(q) : m \in 1..Len(q)
      BY <1>1
    <3>3. t[1].group = {q[1]} \cup {q[i] : i \in e + 1..Len(q)}
      BY <1>1, <2>2
    <3>4. QED
      BY <3>1, <3>2, <3>3
  <2>5. Listed(t[1].merged, {R[i] : i \in 1..1 - 1})
    <3>1. {R[i] : i \in 1..1 - 1} = {} /\ Len(<<>>) = 0
      OBVIOUS
    <3>2. IsFiniteSet({}) /\ Cardinality({}) = 0
      BY FS_EmptySet
    <3>3. QED
      BY <2>2, <3>1, <3>2 DEF Listed
  <2>6. Open(t[1], R, q, e, 1, 1)
    BY <2>2, <2>3, <2>4, <2>5 DEF Open
  <2>7. QED
    BY <2>1, <2>6 DEF OpenAt
<1>4. ASSUME NEW k \in 2..e, OpenNow(k - 1)
      PROVE  OpenNow(k)
  <2>1. PICK r \in 1..k - 1 : OpenAt(t[k - 1], U, R, q, e, k - 1, r)
    BY <1>4
  <2>2. \E p \in 1..k : OpenAt(Extend(t[k - 1], q[k]), U, R, q, e, k, p)
    BY <2>1, OpenNext
  <2>3. t[k] = Extend(t[k - 1], q[k])
    BY <1>2 DEF GroupsSteps
  <2>4. QED
    BY <2>2, <2>3
<1> HIDE DEF OpenNow
<1>5. OpenNow(e)
  <2> DEFINE P == {k \in 0..e - 1 : OpenNow(k + 1)}
  <2>1. e - 1 \in Nat /\ P \in SUBSET (0..e - 1) /\ 0 \in P
    BY <1>1, <1>3
  <2>2. ASSUME NEW k \in 1..e - 1, k - 1 \in P
        PROVE  k \in P
    <3>1. PICK m \in 2..e : m = k + 1
      BY <1>1
    <3>2. OpenNow((k - 1) + 1) /\ (k - 1) + 1 = m - 1
      BY <2>2, <3>1
    <3>3. OpenNow(m)
      BY <1>4, <3>2
    <3>4. k \in 0..e - 1
      BY <1>1
    <3>5. QED
      BY <3>1, <3>3, <3>4
  <2> HIDE DEF P
  <2>3. P = 0..e - 1
    BY <2>1, <2>2, PassedOn
  <2>4. e - 1 \in P /\ (e - 1) + 1 = e
    BY <1>1, <2>3
  <2>5. QED
    BY <2>4 DEF P
<1>6. PICK r \in 1..e : OpenAt(t[e], U, R, q, e, e, r)
  BY <1>5 DEF OpenNow
<1>7. Listed(Append(t[e].merged, MergeBlobs(t[e].group)), {R[i] : i \in 1..e})
  <2>1. ClosedAt(R, e, r, e) /\ e \in 1..e
    BY <1>1 DEF ClosedAt
  <2>2. ClosedTo(t[e], R, e)
    BY <1>6, <2>1, OpenClosed
  <2>3. QED
    BY <2>2 DEF ClosedTo
<1>8. Groups(q, Len(q) - e) = Append(t[e].merged, MergeBlobs(t[e].group))
  BY <1>2 DEF GroupsSteps
<1>9. {R[i] : i \in 1..e} = {R[i] : i \in 1..Len(q)}
  <2>1. \A i \in 1..Len(q) : i \in 1..e \/ i \in e + 1..Len(q)
    BY <1>1
  <2>2. \A i \in e + 1..Len(q) : R[i] = R[1]
    BY DEF Laid, Runs
  <2>3. \A i \in 1..e : i \in 1..Len(q)
    BY <1>1
  <2>4. QED
    BY <1>1, <2>1, <2>2, <2>3
<1>10. QED
  BY <1>7, <1>8, <1>9

-----------------------------------------------------------------------------
(* The robots of a colour in the order of the angles. *)
Surrounded(x, z, y) == (x <= z /\ z <= y /\ y - x <= 360) \/ (y - x > 360 /\ (z <= x \/ y <= z))
Meets(x, z, y) == Apart(x, z) + Apart(z, y) = Apart(x, y)
LEMMA BetweenIs ==
  ASSUME NEW x \in Angles, NEW y \in Angles, NEW z \in Angles, Surrounded(x, z, y)
  PROVE  Meets(x, z, y)
<1>1. x <= y
  BY DEF Surrounded, Angles
<1>2. Apart(x, y) = Way(x, y)
  BY <1>1, ApartIs
<1>3. CASE x <= z /\ z <= y
  <2>1. Apart(x, z) = Way(x, z)
    BY <1>3, ApartIs
  <2>2. Apart(z, y) = Way(z, y)
    BY <1>3, ApartIs
  <2>3. y - x <= 360 \/ z = x \/ z = y
    BY <1>3 DEF Surrounded, Angles
  <2>4. Way(x, z) + Way(z, y) = Way(x, y)
    BY <1>3, <2>3 DEF Way, Angles
  <2>5. QED
    BY <1>2, <2>1, <2>2, <2>4 DEF Meets
<1>4. CASE z < x
  <2>1. z <= x /\ z <= y /\ y - x > 360
    BY <1>1, <1>4 DEF Surrounded, Angles
  <2>2. Apart(x, z) = Way(z, x)
    BY <2>1, ApartIs
  <2>3. Apart(z, y) = Way(z, y)
    BY <2>1, ApartIs
  <2>4. Way(z, x) + Way(z, y) = Way(x, y)
    BY <2>1 DEF Way, Angles
  <2>5. QED
    BY <1>2, <2>2, <2>3, <2>4 DEF Meets
<1>5. CASE y < z
  <2>1. x <= z /\ y <= z /\ y - x > 360
    BY <1>1, <1>5 DEF Surrounded, Angles
  <2>2. Apart(x, z) = Way(x, z)
    BY <2>1, ApartIs
  <2>3. Apart(z, y) = Way(y, z)
    BY <2>1, ApartIs
  <2>4. Way(x, z) + Way(y, z) = Way(x, y)
    BY <2>1 DEF Way, Angles
  <2>5. QED
    BY <1>2, <2>2, <2>3, <2>4 DEF Meets
<1>6. z < x \/ y < z \/ (x <= z /\ z <= y)
  BY DEF Angles
<1>7. QED
  BY <1>3, <1>4, <1>5, <1>6

LEMMA RobotsBetween ==
  ASSUME RobotParameters, NEW s \in Scenes, TellsApart(s), NEW a \in s, NEW b \in s, NEW c \in s,
         a # b, Robot(s, a) = Robot(s, b), c.Color = a.Color, Surrounded(a.Angle, c.Angle, b.Angle)
  PROVE  Robot(s, c) = Robot(s, a)
<1>1. Clear(s) /\ SideBySide(s)
  BY DEF TellsApart
<1>2. Alike(a, b)
  BY <1>1, RobotsAre
<1>3. a.Angle \in Angles /\ b.Angle \in Angles /\ c.Angle \in Angles
  BY SceneIs DEF BlobIs
<1>4. Between(a, c, b)
  <2>1. Meets(a.Angle, c.Angle, b.Angle)
    BY <1>3, BetweenIs
  <2>2. QED
    BY <2>1 DEF Between, Meets
<1>5. Alike(a, c)
  BY <1>1, <1>2, <1>4 DEF SideBySide
<1>6. QED
  BY <1>1, <1>5, RobotsAre

LEMMA RobotStraddles ==
  ASSUME RobotParameters, NEW s \in Scenes, TellsApart(s), NEW a \in s, NEW b \in s,
         Robot(s, a) = Robot(s, b), b.Angle - a.Angle > 360
  PROVE  a.Color = FirstColor(s)
<1>1. Clear(s)
  BY DEF TellsApart
<1>2. a \in Robot(s, a) /\ b \in Robot(s, a)
  BY <1>1, RobotsAre
<1>3. Straddles(Robot(s, a))
  BY <1>2 DEF Straddles, Circle
<1>4. QED
  BY <1>3 DEF TellsApart

RobotsOf(s, q) == [i \in 1..Len(q) |-> Robot(s, q[i])]
Ordered(q, s, color) ==
  /\ q \in Seq(Colored(s, color)) /\ Len(q) = Cardinality(Colored(s, color))
  /\ \A x \in Colored(s, color) : \E k \in 1..Len(q) : q[k] = x
  /\ \A k, l \in 1..Len(q) : q[k] = q[l] => k = l
  /\ \A k, l \in 1..Len(q) : k < l => q[k].Angle <= q[l].Angle
LEMMA OrderedIs ==
  ASSUME NEW s \in Scenes, NEW color
  PROVE  Ordered(SortByAngle(Colored(s, color)), s, color)
<1> DEFINE T == Colored(s, color)
           q == SortByAngle(T)
<1>1. Sorts(q, T)
  BY SortsByAngle
<1> HIDE DEF T, q
<1>2. q \in Seq(T) /\ Len(q) = Cardinality(T)
  BY <1>1 DEF Sorts
<1>3. QED
  BY <1>1, <1>2 DEF Sorts, Ordered, T, q

LEMMA ToldIs ==
  ASSUME RobotParameters, NEW s \in Scenes, TellsApart(s), NEW color, NEW q, Ordered(q, s, color)
  PROVE  Told(RobotsOf(s, q), q)
<1> DEFINE R == RobotsOf(s, q)
<1>1. Clear(s)
  BY DEF TellsApart
<1>2. \A i \in 1..Len(q) : q[i] \in s /\ q[i].Color = color /\ R[i] = Robot(s, q[i])
  BY DEF Ordered, Colored, RobotsOf
<1> HIDE DEF R
<1>3. ASSUME NEW i \in 1..Len(q)
      PROVE  R[i] \subseteq {q[k] : k \in 1..Len(q)}
  <2>1. ASSUME NEW x \in R[i]
        PROVE  x \in {q[k] : k \in 1..Len(q)}
    <3>1. x \in s /\ x.Color = color
      BY <1>2, <2>1 DEF Robot, Alike
    <3>2. x \in Colored(s, color)
      BY <3>1 DEF Colored
    <3>3. QED
      BY <3>2 DEF Ordered
  <2>2. QED
    BY <2>1
<1>4. ASSUME NEW i \in 1..Len(q), NEW k \in 1..Len(q)
      PROVE  /\ q[k] \in R[i] <=> R[k] = R[i]
             /\ BelongingToSameRobot(q[i], q[k]) <=> R[k] = R[i]
  <2>1. q[i] \in s /\ q[k] \in s /\ q[i].Color = q[k].Color /\ R[i] = Robot(s, q[i]) /\ R[k] = Robot(s, q[k])
    BY <1>2
  <2>2. q[k] \in R[i] <=> R[k] = R[i]
    BY <1>1, <2>1, RobotsAre
  <2>3. Alike(q[i], q[k]) <=> R[k] = R[i]
    BY <1>1, <2>1, RobotsAre
  <2>4. Alike(q[i], q[k]) <=> BelongingToSameRobot(q[i], q[k])
    BY <2>1, AlikeIs
  <2>5. QED
    BY <2>2, <2>3, <2>4
<1>5. QED
  BY <1>3, <1>4 DEF Told, R

(* Between two blobs of a robot are its own, or the robot is seen on both  *)
(* sides of angle 0 and has all the others.                                *)
Wraps(R, n) ==
  \A i, j, k \in 1..n : i < j /\ j < k /\ R[i] = R[k] /\ R[j] # R[i]
                         => \A m \in 1..n : m <= i \/ k <= m => R[m] = R[i]
Straddled(R, n) == \E i, j, k \in 1..n : i < j /\ j < k /\ R[i] = R[k] /\ R[j] # R[i]
LEMMA WrapsIs ==
  ASSUME RobotParameters, NEW s \in Scenes, TellsApart(s), NEW color, NEW q, Ordered(q, s, color)
  PROVE  /\ Wraps(RobotsOf(s, q), Len(q))
         /\ Straddled(RobotsOf(s, q), Len(q)) => color = FirstColor(s)
<1> DEFINE R == RobotsOf(s, q)
           n == Len(q)
<1>1. \A i \in 1..n : q[i] \in s /\ q[i].Color = color /\ R[i] = Robot(s, q[i])
  BY DEF Ordered, Colored, RobotsOf
<1>2. \A i \in 1..n : q[i].Angle \in Angles
  <2>1. \A b \in s : b.Angle \in Angles
    BY SceneIs DEF BlobIs
  <2>2. QED
    BY <1>1, <2>1
<1>3. n \in Nat
  BY DEF Ordered
<1> HIDE DEF R
<1>4. ASSUME NEW i \in 1..n, NEW j \in 1..n, NEW k \in 1..n, i < j, j < k, R[i] = R[k], R[j] # R[i]
      PROVE  /\ \A m \in 1..n : m <= i \/ k <= m => R[m] = R[i]
             /\ color = FirstColor(s)
  <2>1. q[i] \in s /\ q[j] \in s /\ q[k] \in s /\ Robot(s, q[i]) = Robot(s, q[k]) /\ Robot(s, q[j]) # Robot(s, q[i])
    BY <1>1, <1>4
  <2>2. i # k /\ q[i] # q[k]
    BY <1>4 DEF Ordered
  <2>3. q[j].Color = q[i].Color /\ q[i].Color = color
    BY <1>1
  <2>4. PICK x \in Angles : x = q[i].Angle
    BY <1>2
  <2>5. PICK z \in Angles : z = q[j].Angle
    BY <1>2
  <2>6. PICK y \in Angles : y = q[k].Angle
    BY <1>2
  <2>7. x <= z /\ z <= y
    BY <1>4, <2>4, <2>5, <2>6 DEF Ordered
  <2>8. ~Surrounded(x, z, y)
    BY <2>1, <2>2, <2>3, <2>4, <2>5, <2>6, RobotsBetween
  <2>9. y - x > 360
    BY <2>7, <2>8 DEF Surrounded, Angles
  <2>10. ASSUME NEW m \in 1..n, m <= i \/ k <= m
         PROVE  R[m] = R[i]
    <3>1. PICK w \in Angles : w = q[m].Angle
      BY <1>2
    <3>2. w <= x \/ y <= w
      <4>1. CASE m < i
        BY <2>4, <3>1, <4>1 DEF Ordered
      <4>2. CASE k < m
        BY <2>6, <3>1, <4>2 DEF Ordered
      <4>3. CASE m = i
        <5>1. w = x
          BY <2>4, <3>1, <4>3
        <5>2. QED
          BY <5>1 DEF Angles
      <4>4. CASE m = k
        <5>1. w = y
          BY <2>6, <3>1, <4>4
        <5>2. QED
          BY <5>1 DEF Angles
      <4>5. m < i \/ k < m \/ m = i \/ m = k
        BY <1>3, <2>10
      <4>6. QED
        BY <4>1, <4>2, <4>3, <4>4, <4>5
    <3>3. Surrounded(x, w, y)
      BY <2>9, <3>2 DEF Surrounded, Angles
    <3>4. q[m] \in s /\ q[m].Color = q[i].Color /\ Surrounded(q[i].Angle, q[m].Angle, q[k].Angle)
      BY <1>1, <2>4, <2>6, <3>1, <3>3
    <3>5. Robot(s, q[m]) = Robot(s, q[i])
      BY <2>1, <2>2, <3>4, RobotsBetween
    <3>6. QED
      BY <1>1, <3>5
  <2>11. q[k].Angle - q[i].Angle > 360
    BY <2>4, <2>6, <2>9
  <2>12. color = FirstColor(s)
    BY <2>1, <2>3, <2>11, RobotStraddles
  <2>13. QED
    BY <2>10, <2>12
<1>5. QED
  BY <1>4 DEF Wraps, Straddled, R

(* What goes backward ends before a blob of another robot. *)
LEMMA BackwardRuns ==
  ASSUME NEW U, NEW q \in Seq(U), q # <<>>, NEW R, Told(R, q), Wraps(R, Len(q))
  PROVE  Runs(R, Len(q), Len(q) - Backward(q))
<1> DEFINE n == Len(q)
           back == Backward(q)
           e == n - back
           Taken(k) == \A i \in Len(q) - k + 1..Len(q) : BelongingToSameRobot(q[1], q[i])
           T == {k \in 0..Len(q) - 1 : Taken(k)}
<1>1. n \in Nat \ {0} /\ n - 1 \in Nat /\ 1 \in 1..n
  OBVIOUS
<1>2. back \in 0..n - 1
  BY BackwardIs
<1>3. back = Max(T)
  BY DEF Backward
<1>4. T \in SUBSET (0..n - 1) /\ T # {}
  <2>1. Taken(0)
    BY <1>1
  <2> HIDE DEF Taken
  <2>2. 0 \in T
    BY <1>1, <2>1
  <2>3. QED
    BY <2>2
<1>5. Max(T) \in T /\ \A k \in T : k <= Max(T)
  <2> HIDE DEF T
  <2>1. QED
    BY <1>1, <1>4, LargestBounds
<1> HIDE DEF back
<1>6. \A i \in 1..n : BelongingToSameRobot(q[1], q[i]) <=> R[i] = R[1]
  BY <1>1 DEF Told
<1>7. \A i \in e + 1..n : R[i] = R[1]
  <2>1. Taken(back)
    BY <1>3, <1>5
  <2>2. \A i \in e + 1..n : i \in 1..n /\ i \in Len(q) - back + 1..Len(q)
    BY <1>1, <1>2
  <2>3. QED
    BY <1>6, <2>1, <2>2
<1>8. e >= 2 => R[e] # R[1]
  <2>1. CASE e >= 2 /\ R[e] = R[1]
    <3>1. back + 1 \in 0..n - 1
      BY <1>1, <1>2, <2>1
    <3>2. Taken(back + 1)
      <4>1. ASSUME NEW i \in Len(q) - (back + 1) + 1..Len(q)
            PROVE  BelongingToSameRobot(q[1], q[i])
        <5>1. i = e \/ i \in e + 1..n
          BY <1>1, <1>2
        <5>2. R[i] = R[1] /\ i \in 1..n
          BY <1>1, <1>2, <1>7, <2>1, <5>1, SMTT(40)
        <5>3. QED
          BY <1>6, <5>2
      <4>2. QED
        BY <4>1
    <3>3. back + 1 \in T
      <4> HIDE DEF Taken
      <4>1. QED
        BY <3>1, <3>2
    <3>4. back + 1 <= back
      <4> HIDE DEF T
      <4>1. QED
        BY <1>3, <1>5, <3>3
    <3>5. QED
      BY <1>2, <3>4
  <2>2. QED
    BY <2>1
<1> HIDE DEF T, Taken
<1>9. ASSUME NEW i \in 1..e, NEW j \in 1..e, NEW k \in 1..e, i < j, j < k, R[i] = R[k]
      PROVE  R[j] = R[i]
  <2>1. i \in 1..n /\ j \in 1..n /\ k \in 1..n /\ e \in 1..n /\ e >= 2 /\ 1 <= i /\ k <= e
    BY <1>1, <1>2, <1>9
  <2>2. CASE R[j] # R[i]
    <3>1. \A m \in 1..n : m <= i \/ k <= m => R[m] = R[i]
      BY <1>9, <2>1, <2>2 DEF Wraps
    <3>2. R[1] = R[i] /\ R[e] = R[i]
      BY <1>1, <2>1, <3>1
    <3>3. QED
      BY <1>8, <2>1, <3>2
  <2>3. QED
    BY <2>2
<1>10. Runs(R, n, e)
  BY <1>7, <1>9 DEF Runs
<1>11. QED
  BY <1>10 DEF back

-----------------------------------------------------------------------------
(* The colours, one after the other. *)
GroupsNow(s, color, flag) ==
  LET q == SortByAngle(Colored(s, color))
  IN  Groups(q, IF flag THEN Backward(q) ELSE 0)
RobotsIn(s, color) == {Robot(s, b) : b \in Colored(s, color)}
LEMMA ColorListed ==
  ASSUME RobotParameters, NEW s \in Scenes, TellsApart(s), NEW color, Colored(s, color) # {},
         NEW flag \in BOOLEAN, flag \/ color # FirstColor(s)
  PROVE  Listed(GroupsNow(s, color, flag), RobotsIn(s, color))
<1> DEFINE T == Colored(s, color)
           q == SortByAngle(T)
           R == RobotsOf(s, q)
           n == Len(q)
           back == IF flag THEN Backward(q) ELSE 0
           e == n - back
<1>1. Ordered(q, s, color)
  BY OrderedIs
<1>2. q \in Seq(T) /\ T \subseteq s
  BY <1>1 DEF Ordered, Colored
<1> HIDE DEF q
<1>3. q # <<>> /\ n \in Nat \ {0}
  <2>1. PICK x \in T : TRUE
    OBVIOUS
  <2>2. PICK k \in 1..Len(q) : q[k] = x
    BY <1>1, <2>1 DEF Ordered
  <2>3. n \in Nat
    BY <1>2
  <2>4. QED
    BY <2>2, <2>3
<1>4. q \in Seq(s)
  <2> HIDE DEF T
  <2>1. QED
    BY <1>2
<1>5. Told(R, q)
  BY <1>1, ToldIs
<1>6. Wraps(R, n) /\ (Straddled(R, n) => color = FirstColor(s))
  BY <1>1, WrapsIs
<1>7. \A i \in 1..n : R[i] \in SUBSET s /\ R[i] = Robot(s, q[i])
  BY DEF RobotsOf, Robot
<1> HIDE DEF R, T
<1>8. back \in 0..n - 1 /\ e \in 1..n /\ n - e = back
  <2>1. Backward(q) \in 0..n - 1
    BY <1>3, <1>4, BackwardIs
  <2>2. back \in 0..n - 1
    BY <1>3, <2>1
  <2> HIDE DEF back
  <2>3. QED
    BY <1>3, <2>2
<1>9. Runs(R, n, e)
  <2>1. CASE flag
    <3>1. Runs(R, n, n - Backward(q))
      BY <1>3, <1>4, <1>5, <1>6, BackwardRuns
    <3>2. QED
      BY <2>1, <3>1
  <2>2. CASE ~flag
    <3>1. ~Straddled(R, n)
      BY <1>6, <2>2
    <3>2. e = n
      BY <1>3, <2>2
    <3>3. \A i, j, k \in 1..n : i < j /\ j < k /\ R[i] = R[k] => R[j] = R[i]
      BY <3>1 DEF Straddled
    <3>4. n + 1..n = {}
      BY <1>3
    <3> HIDE DEF e
    <3>5. QED
      BY <3>2, <3>3, <3>4 DEF Runs
  <2>3. QED
    BY <2>1, <2>2
<1>10. Listed(Groups(q, n - e), {R[i] : i \in 1..n})
  <2> HIDE DEF e
  <2>1. Laid(s, q, e, R)
    BY <1>4, <1>5, <1>7, <1>8, <1>9 DEF Laid
  <2>2. QED
    BY <2>1, GroupsListed
<1>11. {R[i] : i \in 1..n} = RobotsIn(s, color)
  <2>1. \A i \in 1..n : q[i] \in T
    BY <1>2
  <2>2. \A x \in T : \E i \in 1..n : q[i] = x
    BY <1>1 DEF Ordered, T
  <2>3. RobotsIn(s, color) = {Robot(s, b) : b \in T}
    BY DEF RobotsIn, T
  <2>4. QED
    BY <1>7, <2>1, <2>2, <2>3
<1>12. GroupsNow(s, color, flag) = Groups(q, back)
  BY DEF GroupsNow, q, T
<1>13. QED
  BY <1>8, <1>10, <1>11, <1>12

LEMMA GroupsIs ==
  ASSUME NEW U, NEW blobs \in Seq(U), blobs # <<>>, NEW back \in 0..Len(blobs) - 1
  PROVE  Groups(blobs, back) \in Seq(Merged(U))
<1>1. PICK e \in 1..Len(blobs) : e = Len(blobs) - back
  OBVIOUS
<1>2. Len(blobs) - e = back /\ e \in 1..e
  BY <1>1
<1>3. PICK t : GroupsSteps(t, U, blobs, e)
  BY GroupsTrace
<1>4. t[e] \in Grouping(U) /\ Groups(blobs, back) = Append(t[e].merged, MergeBlobs(t[e].group))
  BY <1>2, <1>3 DEF GroupsSteps
<1>5. t[e].merged \in Seq(Merged(U)) /\ MergeBlobs(t[e].group) \in Merged(U)
  BY <1>4 DEF Grouping, Merged
<1>6. QED
  BY <1>4, <1>5

Filtering(U) == [bGoBackward : BOOLEAN, filtered : Seq(Merged(U))]
LEMMA AddColorIs ==
  ASSUME NEW s \in Scenes, NEW color, NEW acc \in Filtering(s)
  PROVE  /\ AddColor(acc, color, s) \in Filtering(s)
         /\ Colored(s, color) = {} => AddColor(acc, color, s) = acc
         /\ Colored(s, color) # {}
              => AddColor(acc, color, s).filtered = acc.filtered \o GroupsNow(s, color, acc.bGoBackward)
         /\ GroupsNow(s, color, acc.bGoBackward) \in Seq(Merged(s)) \/ Colored(s, color) = {}
<1> DEFINE T == Colored(s, color)
           blobs == SortByAngle(T)
           back  == IF acc.bGoBackward THEN Backward(blobs) ELSE 0
<1>1. acc.bGoBackward \in BOOLEAN /\ acc.filtered \in Seq(Merged(s))
  BY DEF Filtering
<1>2. Ordered(blobs, s, color)
  BY OrderedIs
<1>3. T = {b \in s : b.Color = color}
  BY DEF Colored
<1>4. AddColor(acc, color, s) = IF blobs = <<>> THEN acc
                                ELSE [bGoBackward |-> acc.bGoBackward /\ back = Len(blobs) - 1,
                                      filtered |-> acc.filtered \o Groups(blobs, back)]
  BY <1>3 DEF AddColor
<1>5. GroupsNow(s, color, acc.bGoBackward) = Groups(blobs, back)
  BY DEF GroupsNow
<1> HIDE DEF blobs
<1>6. blobs \in Seq(T) /\ T \subseteq s /\ (blobs = <<>> <=> T = {})
  <2>1. blobs \in Seq(T) /\ T \subseteq s
    BY <1>2, <1>3 DEF Ordered
  <2>2. \A x \in T : \E k \in 1..Len(blobs) : blobs[k] = x
    BY <1>2 DEF Ordered
  <2> HIDE DEF T
  <2>3. CASE blobs = <<>>
    <3>1. 1..Len(blobs) = {}
      BY <2>3
    <3>2. QED
      BY <2>2, <2>3, <3>1
  <2>4. CASE blobs # <<>>
    <3>1. blobs[1] \in T
      BY <2>1, <2>4
    <3>2. QED
      BY <2>4, <3>1, <2>1
  <2>5. QED
    BY <2>1, <2>3, <2>4
<1>7. CASE T = {}
  BY <1>4, <1>6, <1>7
<1>8. CASE T # {}
  <2> HIDE DEF T
  <2>1. blobs \in Seq(s) /\ blobs # <<>>
    BY <1>6, <1>8
  <2>2. 0 \in 0..Len(blobs) - 1
    BY <2>1
  <2>3. back \in 0..Len(blobs) - 1
    BY <2>1, <2>2, BackwardIs
  <2> HIDE DEF back
  <2>4. Groups(blobs, back) \in Seq(Merged(s))
    BY <2>1, <2>3, GroupsIs
  <2>5. AddColor(acc, color, s) = [bGoBackward |-> acc.bGoBackward /\ back = Len(blobs) - 1,
                                   filtered |-> acc.filtered \o Groups(blobs, back)]
    BY <1>4, <2>1
  <2>6. (acc.bGoBackward /\ back = Len(blobs) - 1) \in BOOLEAN
    OBVIOUS
  <2>7. acc.filtered \o Groups(blobs, back) \in Seq(Merged(s))
    BY <1>1, <2>4
  <2>8. AddColor(acc, color, s) \in Filtering(s)
    BY <2>5, <2>6, <2>7 DEF Filtering
  <2>9. AddColor(acc, color, s).filtered = acc.filtered \o GroupsNow(s, color, acc.bGoBackward)
    BY <1>5, <2>5
  <2>10. QED
    BY <1>5, <1>8, <2>4, <2>8, <2>9 DEF T
<1>9. QED
  BY <1>7, <1>8

ColorsSteps(t, s) ==
  /\ t[0] = [bGoBackward |-> TRUE, filtered |-> <<>>]
  /\ \A k \in 0..m_unNumberColors : t[k] \in Filtering(s)
  /\ \A k \in 1..m_unNumberColors : t[k] = AddColor(t[k - 1], k - 1, s)
  /\ Filtered[s] = t[m_unNumberColors].filtered
LEMMA ColorsTrace ==
  ASSUME NEW view \in Scenes
  PROVE  \E t : ColorsSteps(t, view)
<1> DEFINE n == m_unNumberColors
           seq == [c \in 1..m_unNumberColors |-> c - 1]
           first == [bGoBackward |-> TRUE, filtered |-> <<>>]
           Q == Filtering(view)
           op == [i \in 1..n |-> [u \in Q |-> AddColor(u, seq[i], view)]]
           iter == CHOOSE f : f = [s \in SUBSET (1..n) |-> IF s = {} THEN first
                                     ELSE AddColor(f[s \ {Max(s)}], seq[Max(s)], view)]
           t == [k \in 0..n |-> iter[1..k]]
<1>1. n \in Nat /\ DOMAIN seq = 1..n /\ \A i \in 1..n : seq[i] = i - 1
  BY ShiftFits
<1>2. first \in Q
  BY DEF Filtering
<1> HIDE DEF n, seq, first
<1>3. \A u \in Q : \A i \in 1..n : AddColor(u, seq[i], view) \in Q
  BY AddColorIs
<1> HIDE DEF Q
<1>4. op \in [1..n -> [Q -> Q]]
  BY <1>3
<1>5. PICK f \in [SUBSET (1..n) -> Q] : FoldsLeft(n, first, op, f)
  <2> HIDE DEF op
  <2>1. CanFoldLeft(n, Q, first, op)
    BY <1>1, <1>2, <1>4, FoldLeftExists
  <2>2. QED
    BY <2>1 DEF CanFoldLeft
<1>6. f = [s \in SUBSET (1..n) |-> IF s = {} THEN first ELSE AddColor(f[s \ {Max(s)}], seq[Max(s)], view)]
  <2>1. ASSUME NEW s \in SUBSET (1..n), s # {}
        PROVE  op[Max(s)][f[s \ {Max(s)}]] = AddColor(f[s \ {Max(s)}], seq[Max(s)], view)
    <3>1. Max(s) \in 1..n /\ s \ {Max(s)} \in SUBSET (1..n)
      BY <1>1, <2>1, MaxIn
    <3>2. f[s \ {Max(s)}] \in Q
      BY <3>1
    <3>3. QED
      BY <3>1, <3>2
  <2> HIDE DEF op
  <2>2. QED
    BY <1>5, <2>1 DEF FoldsLeft
<1>7. iter = [s \in SUBSET (1..n) |-> IF s = {} THEN first
                             ELSE AddColor(iter[s \ {Max(s)}], seq[Max(s)], view)]
  BY <1>6
<1>8. FoldLeft(LAMBDA acc, color : AddColor(acc, color, view), first, seq) = iter[1..n]
  BY <1>1 DEF FoldLeft, MapThenFoldSet
<1> HIDE DEF iter, op
<1>9. iter[1..0] = first
  <2>1. 1..0 = {} /\ {} \in SUBSET (1..n)
    OBVIOUS
  <2>2. QED
    BY <1>7, <2>1
<1>10. ASSUME NEW k \in 1..n
       PROVE  iter[1..k] = AddColor(iter[1..k - 1], k - 1, view)
  <2>1. /\ 1..k \in SUBSET (1..n) /\ 1..k # {} /\ Max(1..k) = k
        /\ (1..k) \ {k} = 1..k - 1
    BY <1>1, LastOfInterval
  <2>2. iter[1..k] = AddColor(iter[1..k - 1], seq[k], view)
    BY <1>7, <2>1
  <2>3. QED
    BY <1>1, <2>2
<1>11. \A k \in 0..n : iter[1..k] \in Q
  <2> DEFINE P == {k \in 0..n : iter[1..k] \in Q}
  <2>1. P \in SUBSET (0..n) /\ 0 \in P
    BY <1>1, <1>2, <1>9
  <2>2. ASSUME NEW k \in 1..n, k - 1 \in P
        PROVE  k \in P
    <3>1. iter[1..k - 1] \in Q /\ k \in 0..n
      BY <1>1, <2>2
    <3>2. AddColor(iter[1..k - 1], k - 1, view) \in Q
      BY <1>1, <1>3, <3>1
    <3>3. QED
      BY <1>10, <3>1, <3>2
  <2> HIDE DEF P
  <2>3. P = 0..n
    BY <1>1, <2>1, <2>2, PassedOn
  <2>4. QED
    BY <2>3 DEF P
<1>12. t[0] = first /\ t[n] = iter[1..n] /\ \A k \in 0..n : t[k] \in Q
  <2>1. 0 \in 0..n /\ n \in 0..n
    BY <1>1
  <2>2. QED
    BY <1>9, <1>11, <2>1
<1>13. \A k \in 1..n : t[k] = AddColor(t[k - 1], k - 1, view)
  <2>1. \A k \in 1..n : k \in 0..n /\ k - 1 \in 0..n
    BY <1>1
  <2>2. QED
    BY <1>10, <2>1
<1>14. Filtered[view] = t[n].filtered
  <2>1. FilterBlobs(view) = FoldLeft(LAMBDA acc, color : AddColor(acc, color, view), first, seq).filtered
    BY DEF FilterBlobs, first, seq
  <2>2. Filtered[view] = FilterBlobs(view)
    BY DEF Filtered
  <2> HIDE DEF t
  <2>3. QED
    BY <1>8, <1>12, <2>1, <2>2
<1> HIDE DEF t
<1>15. QED
  BY <1>12, <1>13, <1>14 DEF ColorsSteps, Q, first, n

(* Two lists of different robots are one list. *)
LEMMA ListedBoth ==
  ASSUME NEW M, NEW m \in Seq(M), NEW l \in Seq(M), NEW S, NEW P, Listed(m, S), Listed(l, P), S \cap P = {}
  PROVE  Listed(m \o l, S \cup P)
<1> DEFINE both == m \o l
<1>1. /\ Len(m) \in Nat /\ Len(l) \in Nat /\ Len(both) = Len(m) + Len(l)
      /\ \A i \in 1..Len(m) : both[i] = m[i]
      /\ \A i \in 1..Len(l) : both[Len(m) + i] = l[i]
  OBVIOUS
<1>2. IsFiniteSet(S \cup P) /\ Cardinality(S \cup P) = Cardinality(S) + Cardinality(P)
  <2>1. /\ IsFiniteSet(S \cup P)
        /\ Cardinality(S \cup P) = Cardinality(S) + Cardinality(P) - Cardinality({})
    <3>1. IsFiniteSet(S) /\ IsFiniteSet(P)
      BY DEF Listed
    <3>2. /\ IsFiniteSet(S \cup P)
          /\ Cardinality(S \cup P) = Cardinality(S) + Cardinality(P) - Cardinality(S \cap P)
      BY <3>1, FS_Union
    <3>3. QED
      BY <3>2
  <2>2. Cardinality({}) = 0
    BY FS_EmptySet
  <2>3. Cardinality(S) = Len(m) /\ Cardinality(P) = Len(l)
    BY DEF Listed
  <2>4. QED
    BY <1>1, <2>1, <2>2, <2>3
<1>3. Len(both) = Cardinality(S \cup P)
  BY <1>1, <1>2 DEF Listed
<1> HIDE DEF both
<1>4. ASSUME NEW x \in S \cup P
      PROVE  \E i \in 1..Len(both) : both[i] = MergeBlobs(x)
  <2>1. CASE x \in S
    <3>1. PICK i \in 1..Len(m) : m[i] = MergeBlobs(x)
      BY <2>1 DEF Listed
    <3>2. i \in 1..Len(both) /\ both[i] = MergeBlobs(x)
      BY <1>1, <3>1
    <3>3. QED
      BY <3>2
  <2>2. CASE x \in P
    <3>1. PICK i \in 1..Len(l) : l[i] = MergeBlobs(x)
      BY <2>2 DEF Listed
    <3>2. PICK k \in 1..Len(both) : k = Len(m) + i
      BY <1>1
    <3>3. both[k] = MergeBlobs(x)
      BY <1>1, <3>1, <3>2
    <3>4. QED
      BY <3>3
  <2>3. QED
    BY <2>1, <2>2
<1>5. QED
  BY <1>2, <1>3, <1>4 DEF Listed, both

(* All the robots of the colours before k are merged, and the first of     *)
(* them has passed when going backward is over.                            *)
Earlier(s, k) == {b \in s : b.Color < k}
RobotsBefore(s, k) == {Robot(s, b) : b \in Earlier(s, k)}
Seen(acc, s, k) == /\ acc \in Filtering(s) /\ Listed(acc.filtered, RobotsBefore(s, k))
                   /\ ~acc.bGoBackward => Earlier(s, k) # {}
LEMMA FirstIsFirst ==
  ASSUME NEW s \in Scenes, NEW b \in s
  PROVE  FirstColor(s) <= b.Color /\ FirstColor(s) \in Nat /\ b.Color \in Nat
<1> DEFINE T == {c.Color : c \in s} \cup {NumberColors}
<1>1. \A c \in s : c.Color \in Nat
  BY SceneIs, ShiftFits DEF BlobIs
<1>2. T \in SUBSET Nat /\ T # {} /\ b.Color \in T
  BY <1>1, CamrabAssumption
<1>3. FirstColor(s) = Min(T)
  BY DEF FirstColor
<1> HIDE DEF T
<1>4. PICK n \in T : \A m \in T : n <= m
  BY <1>2, SmallestNumber
<1>5. Min(T) = n
  <2>1. \A m \in T : m \in Nat
    BY <1>2
  <2>2. \A m \in T : (\A o \in T : m <= o) => m = n
    BY <1>4, <2>1
  <2>3. QED
    BY <1>4, <2>2 DEF Min
<1>6. QED
  BY <1>1, <1>2, <1>3, <1>4, <1>5

LEMMA SeenNext ==
  ASSUME RobotParameters, NEW s \in Scenes, TellsApart(s), NEW k \in 1..m_unNumberColors, NEW acc, Seen(acc, s, k - 1)
  PROVE  Seen(AddColor(acc, k - 1, s), s, k)
<1> DEFINE next == AddColor(acc, k - 1, s)
           T == Colored(s, k - 1)
<1>1. acc \in Filtering(s) /\ k \in Nat
  BY ShiftFits DEF Seen
<1>2. Earlier(s, k) = Earlier(s, k - 1) \cup T
  <2>1. \A b \in s : b.Color \in Nat
    BY SceneIs, ShiftFits DEF BlobIs
  <2>2. \A b \in s : b.Color < k <=> b.Color < k - 1 \/ b.Color = k - 1
    BY <1>1, <2>1
  <2>3. QED
    BY <2>2 DEF Earlier, Colored
<1>3. RobotsBefore(s, k) = RobotsBefore(s, k - 1) \cup RobotsIn(s, k - 1)
  BY <1>2 DEF RobotsBefore, RobotsIn
<1>4. CASE T = {}
  <2>1. next = acc
    BY <1>1, <1>4, AddColorIs
  <2>2. RobotsIn(s, k - 1) = {}
    BY <1>4 DEF RobotsIn
  <2>3. Earlier(s, k) = Earlier(s, k - 1) /\ RobotsBefore(s, k) = RobotsBefore(s, k - 1)
    BY <1>2, <1>3, <1>4, <2>2
  <2>4. QED
    BY <2>1, <2>3 DEF Seen
<1>5. CASE T # {}
  <2> DEFINE now == GroupsNow(s, k - 1, acc.bGoBackward)
  <2>1. /\ next \in Filtering(s) /\ next.filtered = acc.filtered \o now
        /\ now \in Seq(Merged(s))
    BY <1>1, <1>5, AddColorIs
  <2>2. acc.bGoBackward \in BOOLEAN /\ acc.filtered \in Seq(Merged(s))
    BY <1>1 DEF Filtering
  <2>3. acc.bGoBackward \/ k - 1 # FirstColor(s)
    <3>1. CASE ~acc.bGoBackward
      <4>1. PICK b \in s : b.Color < k - 1
        BY <3>1 DEF Seen, Earlier
      <4>2. FirstColor(s) <= b.Color /\ FirstColor(s) \in Nat /\ b.Color \in Nat
        BY FirstIsFirst
      <4>3. QED
        BY <1>1, <4>1, <4>2
    <3>2. QED
      BY <3>1
  <2>4. Listed(now, RobotsIn(s, k - 1))
    BY <1>5, <2>2, <2>3, ColorListed
  <2>5. RobotsBefore(s, k - 1) \cap RobotsIn(s, k - 1) = {}
    <3>1. Clear(s)
      BY DEF TellsApart
    <3>2. ASSUME NEW b \in Earlier(s, k - 1), NEW c \in T, Robot(s, b) = Robot(s, c)
          PROVE  FALSE
      <4>1. b \in s /\ c \in s /\ b.Color < k - 1 /\ c.Color = k - 1
        BY DEF Earlier, Colored
      <4>2. c \in Robot(s, b)
        BY <3>1, <3>2, <4>1, RobotsAre
      <4>3. b.Color = c.Color
        BY <4>2 DEF Robot, Alike
      <4>4. QED
        BY <1>1, <4>1, <4>3
    <3>3. QED
      BY <3>2 DEF RobotsBefore, RobotsIn
  <2>6. Listed(acc.filtered \o now, RobotsBefore(s, k - 1) \cup RobotsIn(s, k - 1))
    <3> HIDE DEF now
    <3>1. Listed(acc.filtered, RobotsBefore(s, k - 1))
      BY DEF Seen
    <3>2. QED
      BY <2>1, <2>2, <2>4, <2>5, <3>1, ListedBoth
  <2>7. Earlier(s, k) # {}
    BY <1>2, <1>5
  <2> HIDE DEF now, next
  <2>8. QED
    BY <1>3, <2>1, <2>6, <2>7 DEF Seen, next
<1>6. QED
  BY <1>4, <1>5

LEMMA AllListed ==
  ASSUME RobotParameters, NEW s \in Scenes, TellsApart(s)
  PROVE  Listed(Filtered[s], {Robot(s, b) : b \in s})
<1> DEFINE n == m_unNumberColors
<1>1. n \in Nat
  BY ShiftFits
<1>2. PICK t : ColorsSteps(t, s)
  BY ColorsTrace
<1> DEFINE P == {k \in 0..n : Seen(t[k], s, k)}
<1>3. 0 \in P
  <2>1. t[0] = [bGoBackward |-> TRUE, filtered |-> <<>>] /\ t[0] \in Filtering(s) /\ 0 \in 0..n
    BY <1>1, <1>2 DEF ColorsSteps
  <2>2. \A b \in s : b.Color \in Nat
    BY SceneIs, ShiftFits DEF BlobIs
  <2>3. Earlier(s, 0) = {}
    BY <2>2 DEF Earlier
  <2>4. RobotsBefore(s, 0) = {}
    BY <2>3 DEF RobotsBefore
  <2>5. IsFiniteSet({}) /\ Cardinality({}) = 0 /\ Len(<<>>) = 0
    BY FS_EmptySet
  <2>6. Listed(<<>>, {})
    BY <2>5 DEF Listed
  <2>7. t[0].filtered = <<>> /\ t[0].bGoBackward = TRUE
    BY <2>1
  <2>8. QED
    BY <2>1, <2>4, <2>6, <2>7 DEF Seen
<1>4. ASSUME NEW k \in 1..n, k - 1 \in P
      PROVE  k \in P
  <2>1. Seen(t[k - 1], s, k - 1) /\ k \in 0..n
    BY <1>1, <1>4
  <2>2. Seen(AddColor(t[k - 1], k - 1, s), s, k)
    BY <2>1, SeenNext
  <2>3. t[k] = AddColor(t[k - 1], k - 1, s)
    BY <1>2 DEF ColorsSteps
  <2>4. QED
    BY <2>1, <2>2, <2>3
<1>5. P \in SUBSET (0..n)
  OBVIOUS
<1>6. P = 0..n
  <2> HIDE DEF P, n
  <2>1. QED
    BY <1>1, <1>3, <1>4, <1>5, PassedOn
<1>7. Seen(t[n], s, n)
  <2>1. n \in P
    BY <1>1, <1>6
  <2>2. QED
    BY <2>1
<1>8. RobotsBefore(s, n) = {Robot(s, b) : b \in s}
  <2>1. \A b \in s : b.Color < n
    BY SceneIs, <1>1 DEF BlobIs
  <2>2. Earlier(s, n) = s
    BY <2>1 DEF Earlier
  <2>3. QED
    BY <2>2 DEF RobotsBefore
<1>9. Filtered[s] = t[n].filtered
  BY <1>2 DEF ColorsSteps
<1>10. QED
  BY <1>7, <1>8, <1>9 DEF Seen

LEMMA OneForEach ==
  ASSUME RobotParameters, NEW s \in Scenes, TellsApart(s)
  PROVE  LET robots == {Robot(s, b) : b \in s}
         IN  /\ Len(Filtered[s]) = Cardinality(robots)
             /\ \A robot \in robots : \E i \in 1..Len(Filtered[s]) : Shows(Filtered[s][i], robot)
<1>1. Listed(Filtered[s], {Robot(s, b) : b \in s})
  BY AllListed
<1>2. Clear(s)
  BY DEF TellsApart
<1>3. ASSUME NEW robot \in {Robot(s, b) : b \in s}
      PROVE  \E i \in 1..Len(Filtered[s]) : Shows(Filtered[s][i], robot)
  <2>1. PICK b \in s : robot = Robot(s, b)
    OBVIOUS
  <2>2. Shows(MergeBlobs(robot), robot)
    BY <1>2, <2>1, ShowsIs
  <2>3. PICK i \in 1..Len(Filtered[s]) : Filtered[s][i] = MergeBlobs(robot)
    BY <1>1, <1>3 DEF Listed
  <2>4. QED
    BY <2>2, <2>3
<1>4. Len(Filtered[s]) = Cardinality({Robot(s, b) : b \in s})
  BY <1>1 DEF Listed
<1>5. QED
  BY <1>3, <1>4

(* What the thread looks at is a sequence of blobs. *)
LEMMA FilteredIs ==
  ASSUME NEW view \in Scenes
  PROVE  Filtered[view] \in Seq(Blobs)
<1>1. PICK t : ColorsSteps(t, view)
  BY ColorsTrace
<1>2. m_unNumberColors \in 0..m_unNumberColors
  BY ShiftFits
<1>3. Filtered[view] \in Seq(Merged(view))
  BY <1>1, <1>2 DEF ColorsSteps, Filtering
<1>4. \A i \in DOMAIN Filtered[view] : Filtered[view][i] \in Blobs
  BY DEF Blobs, ToSet
<1>5. QED
  BY <1>3, <1>4

-----------------------------------------------------------------------------
(* The readings that may be made of a packet: they say what the packet     *)
(* says, and are of a blob that was not erased, or of none.                *)
ReadingsOf(erased, p, k) ==
  {r \in Reading : /\ r.packet = p /\ r.round = k
                   /\ r.Data = DataOf(Sent(spoken[p])) /\ r.Color = ColorOf(Sent(spoken[p]))
                   /\ r.blob = NoBlob \/ r.blob \notin erased}
Candidates(erased, p) == {NoBlob} \cup {b \in Blobs : SameColor(b, erased, p)}
Electing(erased, p, k) ==
  [elected : Candidates(erased, p), min : {Degrees(1000)} \cup {Diff(b, p) : b \in Blobs},
   readings : Seq(ReadingsOf(erased, p, k))]

LEMMA CreateReadingIs ==
  ASSUME spoken \in Seq(Messages), NEW p \in 1..Len(spoken), NEW k \in Nat,
         NEW erased, NEW blob \in Candidates(erased, p)
  PROVE  CreateReading(p, blob, k) \in ReadingsOf(erased, p, k)
<1> DEFINE byte == Sent(spoken[p])
           r == CreateReading(p, blob, k)
<1>1. spoken[p] \in Messages /\ p \in Nat
  OBVIOUS
<1>2. ColorOf(byte) \in Int /\ DataOf(byte) \in Int
  BY <1>1, ReadBack
<1>3. blob \in Blobs /\ (blob = NoBlob \/ (blob.Color = ColorOf(byte) /\ blob \notin erased))
  <2>1. NoBlob \in Blobs
    BY DEF Blobs
  <2>2. blob = NoBlob \/ (blob \in Blobs /\ SameColor(blob, erased, p))
    BY DEF Candidates
  <2>3. QED
    BY <2>1, <2>2 DEF SameColor
<1>4. r = [packet |-> p, round |-> k, blob |-> blob, Data |-> DataOf(byte), Color |-> ColorOf(byte)]
  BY <1>3 DEF CreateReading
<1> HIDE DEF r, byte
<1>5. r \in Reading
  BY <1>1, <1>2, <1>3, <1>4 DEF Reading
<1>6. QED
  BY <1>3, <1>4, <1>5 DEF ReadingsOf, r, byte

LEMMA ElectIs ==
  ASSUME spoken \in Seq(Messages), NEW p \in 1..Len(spoken), NEW k \in Nat,
         NEW erased, NEW b \in Blobs, NEW acc \in Electing(erased, p, k)
  PROVE  Elect(acc, b, erased, p, k) \in Electing(erased, p, k)
<1> DEFINE elected == IF Diff(b, p) < acc.min /\ Diff(b, p) < Degrees(10) THEN b ELSE acc.elected
           min == IF elected = b THEN Diff(b, p) ELSE acc.min
           made == IF elected = NoBlob THEN acc.readings
                   ELSE Append(acc.readings, CreateReading(p, elected, k))
<1>1. /\ acc.elected \in Candidates(erased, p) /\ acc.readings \in Seq(ReadingsOf(erased, p, k))
      /\ acc.min \in {Degrees(1000)} \cup {Diff(c, p) : c \in Blobs}
  BY DEF Electing
<1>2. CASE ~SameColor(b, erased, p)
  BY <1>2 DEF Elect
<1>3. CASE SameColor(b, erased, p)
  <2>1. elected \in Candidates(erased, p)
    BY <1>1, <1>3 DEF Candidates
  <2>2. min \in {Degrees(1000)} \cup {Diff(c, p) : c \in Blobs}
    BY <1>1
  <2> HIDE DEF elected, min
  <2>3. CreateReading(p, elected, k) \in ReadingsOf(erased, p, k)
    BY <2>1, CreateReadingIs
  <2>4. made \in Seq(ReadingsOf(erased, p, k))
    BY <1>1, <2>3
  <2>5. Elect(acc, b, erased, p, k) = [elected |-> elected, min |-> min, readings |-> made]
    BY <1>3 DEF Elect, elected, min
  <2> HIDE DEF made
  <2>6. QED
    BY <2>1, <2>2, <2>4, <2>5 DEF Electing
<1>4. QED
  BY <1>2, <1>3

(* What is made of a packet. *)
LEMMA MatchIs ==
  ASSUME spoken \in Seq(Messages), NEW p \in 1..Len(spoken), NEW k \in Nat,
         NEW erased, NEW seq \in Seq(Blobs)
  PROVE  Match(seq, erased, p, k) \in Seq(ReadingsOf(erased, p, k))
<1> DEFINE n == Len(seq)
           first == [elected |-> NoBlob, min |-> Degrees(1000), readings |-> <<>>]
           Q == Electing(erased, p, k)
           alone == CreateReading(p, NoBlob, k)
           op == [i \in 1..n |-> [t \in Q |-> Elect(t, seq[i], erased, p, k)]]
           iter == CHOOSE f : f = [s \in SUBSET (1..n) |-> IF s = {} THEN first
                                     ELSE Elect(f[s \ {Max(s)}], seq[Max(s)], erased, p, k)]
<1>1. alone \in ReadingsOf(erased, p, k)
  <2>1. NoBlob \in Candidates(erased, p)
    BY DEF Candidates
  <2>2. QED
    BY <2>1, CreateReadingIs
<1>2. n \in Nat /\ DOMAIN seq = 1..n /\ \A i \in 1..n : seq[i] \in Blobs
  OBVIOUS
<1>3. first \in Q
  BY DEF Electing, Candidates
<1> HIDE DEF n, first, alone
<1>4. \A t \in Q : \A b \in Blobs : Elect(t, b, erased, p, k) \in Q
  BY ElectIs
<1> HIDE DEF Q
<1>5. op \in [1..n -> [Q -> Q]]
  <2>1. \A i \in 1..n : \A t \in Q : Elect(t, seq[i], erased, p, k) \in Q
    BY <1>2, <1>4
  <2>2. QED
    BY <2>1
<1>6. PICK f \in [SUBSET (1..n) -> Q] : FoldsLeft(n, first, op, f)
  <2> HIDE DEF op
  <2>1. CanFoldLeft(n, Q, first, op)
    BY <1>2, <1>3, <1>5, FoldLeftExists
  <2>2. QED
    BY <2>1 DEF CanFoldLeft
<1>7. \A s \in SUBSET (1..n) : s # {} => Max(s) \in 1..n /\ s \ {Max(s)} \in SUBSET (1..n)
  BY <1>2, MaxIn
<1>8. f = [s \in SUBSET (1..n) |-> IF s = {} THEN first ELSE Elect(f[s \ {Max(s)}], seq[Max(s)], erased, p, k)]
  <2>1. ASSUME NEW s \in SUBSET (1..n), s # {}
        PROVE  op[Max(s)][f[s \ {Max(s)}]] = Elect(f[s \ {Max(s)}], seq[Max(s)], erased, p, k)
    <3>1. Max(s) \in 1..n /\ f[s \ {Max(s)}] \in Q
      BY <1>7, <2>1
    <3>2. QED
      BY <3>1
  <2> HIDE DEF op
  <2>2. QED
    BY <1>6, <2>1 DEF FoldsLeft
<1>9. iter = [s \in SUBSET (1..n) |-> IF s = {} THEN first
                             ELSE Elect(iter[s \ {Max(s)}], seq[Max(s)], erased, p, k)]
  BY <1>8
<1>10. FoldLeft(LAMBDA acc, b : Elect(acc, b, erased, p, k), first, seq) = iter[1..n]
  BY <1>2 DEF FoldLeft, MapThenFoldSet
<1> HIDE DEF iter, op
<1>11. Keeps(n, Q, iter)
  <2>1. iter[{}] \in Q
    BY <1>3, <1>9
  <2>2. ASSUME NEW s \in SUBSET (1..n), s # {}, iter[s \ {Max(s)}] \in Q
        PROVE  iter[s] \in Q
    <3>1. seq[Max(s)] \in Blobs
      BY <1>2, <1>7, <2>2
    <3>2. Elect(iter[s \ {Max(s)}], seq[Max(s)], erased, p, k) \in Q
      BY <2>2, <3>1, <1>4
    <3>3. QED
      BY <1>9, <2>2, <3>2
  <2>3. QED
    BY <2>1, <2>2 DEF Keeps
<1>12. FoldLeft(LAMBDA acc, b : Elect(acc, b, erased, p, k), first, seq) \in Q
  BY <1>2, <1>10, <1>11, FoldLeftKeeps
<1>13. FoldLeft(LAMBDA acc, b : Elect(acc, b, erased, p, k), first, seq).readings
         \in Seq(ReadingsOf(erased, p, k))
  <2>1. \A t \in Q : t.readings \in Seq(ReadingsOf(erased, p, k))
    BY DEF Q, Electing
  <2> HIDE DEF Q
  <2>2. QED
    BY <1>12, <2>1, Zenon
<1>14. <<alone>> \in Seq(ReadingsOf(erased, p, k))
  BY <1>1
<1>15. \/ Match(seq, erased, p, k) = <<alone>>
       \/ Match(seq, erased, p, k)
            = FoldLeft(LAMBDA acc, b : Elect(acc, b, erased, p, k), first, seq).readings
  BY DEF Match, alone, first
<1>16. QED
  BY <1>13, <1>14, <1>15

(* The readings that may be made of some packets; each blob that was       *)
(* elected is erased, and readings with one blob have one packet.          *)
ReadingsFrom(packets, k) ==
  {r \in Reading : /\ r.packet \in ToSet(packets) /\ r.round = k
                   /\ r.Data = DataOf(Sent(spoken[r.packet])) /\ r.Color = ColorOf(Sent(spoken[r.packet]))}
BlobsOnce(readings) ==
  \A r, q \in ToSet(readings) : r.blob = q.blob /\ r.blob # NoBlob => r.packet = q.packet
Matching(packets, k) ==
  {acc \in [erased : SUBSET Blobs, readings : Seq(ReadingsFrom(packets, k))] :
     /\ \A r \in ToSet(acc.readings) : r.blob \in acc.erased
     /\ BlobsOnce(acc.readings)}

(* Joined sequences. *)
LEMMA ToSetJoined ==
  ASSUME NEW R, NEW s \in Seq(R), NEW t \in Seq(R)
  PROVE  s \o t \in Seq(R) /\ ToSet(s \o t) = ToSet(s) \cup ToSet(t)
<1> DEFINE m == Len(s)
           n == Len(t)
           u == s \o t
<1>1. m \in Nat /\ n \in Nat /\ DOMAIN s = 1..m /\ DOMAIN t = 1..n
  OBVIOUS
<1>2. u \in Seq(R) /\ DOMAIN u = 1..m + n
  OBVIOUS
<1>3. \A i \in 1..m + n : u[i] = IF i <= m THEN s[i] ELSE t[i - m]
  OBVIOUS
<1> HIDE DEF m, n, u
<1>4. ASSUME NEW i \in DOMAIN s
      PROVE  s[i] \in ToSet(u)
  <2>1. i \in DOMAIN u /\ u[i] = s[i]
    BY <1>1, <1>2, <1>3
  <2>2. QED
    BY <2>1 DEF ToSet
<1>5. ASSUME NEW i \in DOMAIN t
      PROVE  t[i] \in ToSet(u)
  <2>1. PICK j \in 1..m + n : ~(j <= m) /\ j - m = i
    <3>1. i \in 1..n /\ i \in Int /\ 1 <= i /\ i <= n
      BY <1>1
    <3>2. i + m \in 1..m + n /\ ~(i + m <= m) /\ (i + m) - m = i
      BY <1>1, <3>1
    <3>3. QED
      BY <3>2
  <2>2. j \in DOMAIN u /\ u[j] = t[i]
    BY <1>2, <1>3, <2>1
  <2>3. QED
    BY <2>2 DEF ToSet
<1>6. ASSUME NEW i \in DOMAIN u
      PROVE  u[i] \in ToSet(s) \cup ToSet(t)
  <2>1. i \in 1..m + n
    BY <1>2
  <2>2. CASE i <= m
    <3>1. i \in DOMAIN s /\ u[i] = s[i]
      BY <1>1, <1>3, <2>1, <2>2
    <3>2. QED
      BY <3>1 DEF ToSet
  <2>3. CASE ~(i <= m)
    <3>1. i - m \in DOMAIN t /\ u[i] = t[i - m]
      BY <1>1, <1>3, <2>1, <2>3
    <3>2. QED
      BY <3>1 DEF ToSet
  <2>4. QED
    BY <2>2, <2>3
<1>7. ToSet(u) = ToSet(s) \cup ToSet(t)
  BY <1>4, <1>5, <1>6 DEF ToSet
<1>8. QED
  BY <1>2, <1>7 DEF u

LEMMA MatchNextIs ==
  ASSUME spoken \in Seq(Messages), NEW packets \in Seq(1..Len(spoken)), NEW p \in ToSet(packets),
         NEW k \in Nat, NEW blobs \in Seq(Blobs), NEW acc \in Matching(packets, k)
  PROVE  MatchNext(acc, p, blobs, k) \in Matching(packets, k)
<1> DEFINE R == ReadingsFrom(packets, k)
           made == Match(blobs, acc.erased, p, k)
           erased == acc.erased \cup {r.blob : r \in ToSet(made)}
           readings == acc.readings \o made
<1>1. acc.erased \in SUBSET Blobs /\ acc.readings \in Seq(R)
      /\ (\A r \in ToSet(acc.readings) : r.blob \in acc.erased) /\ BlobsOnce(acc.readings)
  BY DEF Matching
<1>2. p \in 1..Len(spoken)
  BY DEF ToSet
<1>3. made \in Seq(ReadingsOf(acc.erased, p, k))
  BY <1>2, MatchIs
<1>4. MatchNext(acc, p, blobs, k) = [erased |-> erased, readings |-> readings]
  BY DEF MatchNext, Erase
<1> HIDE DEF made, R
<1>5. \A r \in ToSet(made) : r \in ReadingsOf(acc.erased, p, k)
  BY <1>3 DEF ToSet
<1>6. \A r \in ReadingsOf(acc.erased, p, k) : r \in R /\ r.blob \in Blobs
  BY DEF ReadingsOf, ReadingsFrom, R, Reading
<1>7. made \in Seq(R)
  BY <1>3, <1>6
<1>8. readings \in Seq(R) /\ ToSet(readings) = ToSet(acc.readings) \cup ToSet(made)
  BY <1>1, <1>7, ToSetJoined
<1> HIDE DEF readings
<1>9. erased \in SUBSET Blobs
  BY <1>1, <1>5, <1>6
<1>10. \A r \in ToSet(readings) : r.blob \in erased
  BY <1>1, <1>8
<1>11. BlobsOnce(readings)
  <2> SUFFICES ASSUME NEW r \in ToSet(readings), NEW q \in ToSet(readings),
                      r.blob = q.blob, r.blob # NoBlob
               PROVE  r.packet = q.packet
    BY DEF BlobsOnce
  <2>1. \A x \in ToSet(made) : x.packet = p /\ (x.blob = NoBlob \/ x.blob \notin acc.erased)
    BY <1>5 DEF ReadingsOf
  <2>2. CASE r \in ToSet(made) /\ q \in ToSet(made)
    BY <2>1, <2>2
  <2>3. CASE r \in ToSet(acc.readings) /\ q \in ToSet(acc.readings)
    BY <1>1, <2>3 DEF BlobsOnce
  <2>4. CASE r \in ToSet(acc.readings) /\ q \in ToSet(made)
    BY <1>1, <2>1, <2>4
  <2>5. CASE r \in ToSet(made) /\ q \in ToSet(acc.readings)
    BY <1>1, <2>1, <2>5
  <2>6. QED
    BY <1>8, <2>2, <2>3, <2>4, <2>5
<1> HIDE DEF erased
<1>12. QED
  BY <1>4, <1>8, <1>9, <1>10, <1>11 DEF Matching, R

(* What is made of the packets the thread has copied. *)
FromPackets(readings, packets, k) == readings \in Seq(ReadingsFrom(packets, k)) /\ BlobsOnce(readings)
LEMMA InferRobotsIs ==
  ASSUME spoken \in Seq(Messages), NEW seq \in Seq(1..Len(spoken)),
         NEW k \in Nat, NEW blobs \in Seq(Blobs)
  PROVE  FromPackets(InferRobots(blobs, seq, k), seq, k)
<1> DEFINE n == Len(seq)
           first == [erased |-> {}, readings |-> <<>>]
           Q == Matching(seq, k)
           op == [i \in 1..n |-> [t \in Q |-> MatchNext(t, seq[i], blobs, k)]]
           iter == CHOOSE f : f = [s \in SUBSET (1..n) |-> IF s = {} THEN first
                                     ELSE MatchNext(f[s \ {Max(s)}], seq[Max(s)], blobs, k)]
<1>1. \A i \in DOMAIN seq : seq[i] \in ToSet(seq)
  BY DEF ToSet
<1>2. n \in Nat /\ DOMAIN seq = 1..n /\ \A i \in 1..n : seq[i] \in ToSet(seq)
  BY <1>1
<1>3. first \in Q
  BY DEF Matching, BlobsOnce, ToSet
<1> HIDE DEF n, first
<1>4. \A t \in Q : \A p \in ToSet(seq) : MatchNext(t, p, blobs, k) \in Q
  BY MatchNextIs
<1> HIDE DEF Q
<1>5. op \in [1..n -> [Q -> Q]]
  <2>1. \A i \in 1..n : \A t \in Q : MatchNext(t, seq[i], blobs, k) \in Q
    BY <1>2, <1>4
  <2>2. QED
    BY <2>1
<1>6. PICK f \in [SUBSET (1..n) -> Q] : FoldsLeft(n, first, op, f)
  <2> HIDE DEF op
  <2>1. CanFoldLeft(n, Q, first, op)
    BY <1>2, <1>3, <1>5, FoldLeftExists
  <2>2. QED
    BY <2>1 DEF CanFoldLeft
<1>7. \A s \in SUBSET (1..n) : s # {} => Max(s) \in 1..n /\ s \ {Max(s)} \in SUBSET (1..n)
  BY <1>2, MaxIn
<1>8. f = [s \in SUBSET (1..n) |-> IF s = {} THEN first ELSE MatchNext(f[s \ {Max(s)}], seq[Max(s)], blobs, k)]
  <2>1. ASSUME NEW s \in SUBSET (1..n), s # {}
        PROVE  op[Max(s)][f[s \ {Max(s)}]] = MatchNext(f[s \ {Max(s)}], seq[Max(s)], blobs, k)
    <3>1. Max(s) \in 1..n /\ f[s \ {Max(s)}] \in Q
      BY <1>7, <2>1
    <3>2. QED
      BY <3>1
  <2> HIDE DEF op
  <2>2. QED
    BY <1>6, <2>1 DEF FoldsLeft
<1>9. iter = [s \in SUBSET (1..n) |-> IF s = {} THEN first
                             ELSE MatchNext(iter[s \ {Max(s)}], seq[Max(s)], blobs, k)]
  BY <1>8
<1>10. FoldLeft(LAMBDA acc, p : MatchNext(acc, p, blobs, k), first, seq) = iter[1..n]
  BY <1>2 DEF FoldLeft, MapThenFoldSet
<1> HIDE DEF iter, op
<1>11. Keeps(n, Q, iter)
  <2>1. iter[{}] \in Q
    BY <1>3, <1>9
  <2>2. ASSUME NEW s \in SUBSET (1..n), s # {}, iter[s \ {Max(s)}] \in Q
        PROVE  iter[s] \in Q
    <3>1. seq[Max(s)] \in ToSet(seq)
      BY <1>2, <1>7, <2>2
    <3>2. MatchNext(iter[s \ {Max(s)}], seq[Max(s)], blobs, k) \in Q
      BY <2>2, <3>1, <1>4
    <3>3. QED
      BY <1>9, <2>2, <3>2
  <2>3. QED
    BY <2>1, <2>2 DEF Keeps
<1>12. FoldLeft(LAMBDA acc, p : MatchNext(acc, p, blobs, k), first, seq) \in Q
  BY <1>2, <1>10, <1>11, FoldLeftKeeps
<1>13. InferRobots(blobs, seq, k)
         = FoldLeft(LAMBDA acc, p : MatchNext(acc, p, blobs, k), first, seq).readings
  BY DEF InferRobots, first
<1>14. QED
  BY <1>12, <1>13 DEF Q, Matching, FromPackets

-----------------------------------------------------------------------------
(* A step that makes no reading keeps what is true of the readings. *)
LEMMA ReadingsKept ==
  ASSUME CamrabInv, CamrabTypes', AllReadings' \subseteq AllReadings, UNCHANGED round,
         Len(spoken) <= Len(spoken'), \A p \in 1..Len(spoken) : spoken'[p] = spoken[p]
  PROVE  (\A r \in AllReadings' : Truthful(r)') /\ MatchedOnce' /\ Matched' \subseteq Matched
<1>1. Len(spoken) \in Nat /\ Len(spoken') \in Nat
  <2>1. CamrabTypes /\ CamrabTypes'
    BY DEF CamrabInv
  <2>2. spoken \in Seq(Messages) /\ spoken' \in Seq(Messages)
    BY <2>1 DEF CamrabTypes
  <2>3. QED
    BY <2>2
<1>2. ASSUME NEW r \in AllReadings'
      PROVE  Truthful(r)'
  <2>1. Truthful(r)
    BY <1>2 DEF CamrabInv
  <2>2. r.packet \in 1..Len(spoken') /\ spoken'[r.packet] = spoken[r.packet]
    BY <1>1, <2>1 DEF Truthful
  <2>3. r.Data = DataOf(Sent(spoken'[r.packet])) /\ r.Color = ColorOf(Sent(spoken'[r.packet]))
    BY <2>1, <2>2 DEF Truthful
  <2>4. r.round <= round'
    BY <2>1 DEF Truthful
  <2>5. QED
    BY <2>2, <2>3, <2>4 DEF Truthful
<1>3. MatchedOnce'
  BY DEF CamrabInv, MatchedOnce
<1>4. QED
  BY <1>2, <1>3 DEF Matched

(* Parts of sequences. *)
LEMMA ToSetParts ==
  ASSUME NEW R, NEW s \in Seq(R)
  PROVE  /\ ToSet(s) \subseteq R /\ \A i \in DOMAIN s : s[i] \in ToSet(s)
         /\ ToSet(<<>>) = {}
         /\ \A x \in R : Append(s, x) \in Seq(R) /\ ToSet(Append(s, x)) = ToSet(s) \cup {x}
         /\ s # <<>> => /\ Head(s) \in ToSet(s) /\ Head(s) = s[1] /\ Last(s) \in ToSet(s)
                        /\ Tail(s) \in Seq(R) /\ ToSet(Tail(s)) \subseteq ToSet(s)
                        /\ Front(s) \in Seq(R) /\ ToSet(Front(s)) \subseteq ToSet(s)
<1>1. DOMAIN s = 1..Len(s) /\ Len(s) \in Nat /\ \A i \in DOMAIN s : s[i] \in R
  OBVIOUS
<1>2. ToSet(s) \subseteq R /\ (\A i \in DOMAIN s : s[i] \in ToSet(s)) /\ ToSet(<<>>) = {}
  BY <1>1 DEF ToSet
<1>3. ASSUME NEW x \in R
      PROVE  Append(s, x) \in Seq(R) /\ ToSet(Append(s, x)) = ToSet(s) \cup {x}
  <2>1. /\ Append(s, x) \in Seq(R) /\ DOMAIN Append(s, x) = 1..Len(s) + 1
        /\ \A i \in 1..Len(s) : Append(s, x)[i] = s[i]
        /\ Append(s, x)[Len(s) + 1] = x
    OBVIOUS
  <2>2. 1..Len(s) + 1 = 1..Len(s) \cup {Len(s) + 1}
    BY <1>1
  <2>3. QED
    BY <1>1, <2>1, <2>2 DEF ToSet
<1>4. ASSUME s # <<>>
      PROVE  /\ Head(s) \in ToSet(s) /\ Head(s) = s[1] /\ Last(s) \in ToSet(s)
             /\ Tail(s) \in Seq(R) /\ ToSet(Tail(s)) \subseteq ToSet(s)
             /\ Front(s) \in Seq(R) /\ ToSet(Front(s)) \subseteq ToSet(s)
  <2>1. 1 \in DOMAIN s /\ Len(s) \in DOMAIN s
    BY <1>1, <1>4
  <2>2. Head(s) = s[1] /\ Last(s) = s[Len(s)]
    BY DEF Last
  <2>3. Tail(s) \in Seq(R) /\ Len(Tail(s)) = Len(s) - 1 /\ \A i \in 1..Len(s) - 1 : Tail(s)[i] = s[i + 1]
    BY <1>4
  <2>4. \A i \in 1..Len(s) - 1 : i \in DOMAIN s /\ i + 1 \in DOMAIN s
    BY <1>1
  <2>5. DOMAIN Tail(s) = 1..Len(s) - 1
    BY <2>3
  <2>6. ToSet(Tail(s)) \subseteq ToSet(s)
    BY <2>3, <2>4, <2>5 DEF ToSet
  <2>7. Front(s) \in Seq(R) /\ DOMAIN Front(s) = 1..Len(s) - 1 /\ \A i \in 1..Len(s) - 1 : Front(s)[i] = s[i]
    BY <1>1, <1>4 DEF Front
  <2>8. ToSet(Front(s)) \subseteq ToSet(s)
    BY <2>4, <2>7 DEF ToSet
  <2>9. QED
    BY <1>2, <2>1, <2>2, <2>3, <2>6, <2>7, <2>8
<1>5. QED
  BY <1>2, <1>3, <1>4

LEMMA CamrabStarts == Init => CamrabInv
<1> SUFFICES ASSUME Init PROVE CamrabInv
  OBVIOUS
<1>1. CamrabTypes
  BY DEF Init, CamrabTypes
<1>2. ToSet(<<>>) = {}
  BY DEF ToSet
<1>3. AllReadings = {}
  BY <1>2 DEF Init, AllReadings
<1>4. Waiting = <<>> /\ DOMAIN Waiting = {}
  BY DEF Init, Waiting
<1>5. FreshPackets
  BY <1>2, <1>3, <1>4 DEF Init, FreshPackets, Given, Matched
<1>6. QED
  BY <1>1, <1>3, <1>5 DEF CamrabInv, MatchedOnce

(* What the fetcher queues is a new packet. *)
LEMMA HearKeeps == CamrabInv /\ Hear => CamrabInv'
<1> SUFFICES ASSUME CamrabInv, Hear PROVE CamrabInv'
  OBVIOUS
<1> DEFINE N == Len(spoken)
<1>1. CamrabTypes /\ FreshPackets
  BY DEF CamrabInv
<1>2. PICK m \in Messages : spoken' = Append(spoken, m)
  BY DEF Hear
<1>3. /\ spoken' \in Seq(Messages) /\ N \in Nat /\ Len(spoken') = N + 1
      /\ \A p \in 1..N : spoken'[p] = spoken[p]
  BY <1>1, <1>2 DEF CamrabTypes
<1>4. m_tQueuedPackets' = Append(m_tQueuedPackets, N + 1)
  BY <1>3 DEF Hear
<1> HIDE DEF N
<1>5. /\ m_tQueuedPackets' \in Seq(Nat) /\ m_tQueuedPackets \in Seq(Nat)
      /\ ToSet(m_tQueuedPackets') = ToSet(m_tQueuedPackets) \cup {N + 1}
  <2>1. m_tQueuedPackets \in Seq(Nat) /\ N + 1 \in Nat
    BY <1>1, <1>3 DEF CamrabTypes
  <2>2. \A k \in Nat : /\ Append(m_tQueuedPackets, k) \in Seq(Nat)
                       /\ ToSet(Append(m_tQueuedPackets, k)) = ToSet(m_tQueuedPackets) \cup {k}
    BY <2>1, ToSetParts
  <2>3. QED
    BY <1>4, <2>1, <2>2
<1>6. UNCHANGED <<m_tPackets, vec_packets, thread, todo, m_tQueuedReadings, m_tReadings, round, main>>
  BY DEF Hear, threadVars
<1>7. main # "pop" /\ Waiting = m_tQueuedPackets /\ Waiting' = m_tQueuedPackets'
  <2>1. main # "pop" /\ main' = main
    BY <1>6 DEF Hear
  <2>2. QED
    BY <2>1 DEF Waiting
<1>8. CamrabTypes'
  BY <1>1, <1>3, <1>5, <1>6, <1>7 DEF CamrabTypes
<1>9. AllReadings' = AllReadings
  BY <1>6 DEF AllReadings
<1>10. (\A r \in AllReadings' : Truthful(r)') /\ MatchedOnce'
  BY <1>3, <1>6, <1>8, <1>9, ReadingsKept DEF N
<1>11. UNCHANGED <<Given, Matched>>
  BY <1>6, <1>9 DEF Given, Matched
<1>12. Given \subseteq 1..N
  <2>1. Matched \subseteq 1..N
    BY DEF CamrabInv, Matched, Truthful, N
  <2>2. QED
    BY <1>1, <2>1 DEF FreshPackets, Given, N
<1>13. N + 1 \notin 1..N
  BY <1>3
<1>14. \A i, j \in DOMAIN Waiting' : Waiting'[i] = Waiting'[j] => i = j
  <2>1. /\ DOMAIN Waiting' = DOMAIN Waiting \cup {Len(Waiting) + 1} /\ Waiting'[Len(Waiting) + 1] = N + 1
        /\ \A i \in DOMAIN Waiting : Waiting'[i] = Waiting[i]
    <3>1. DOMAIN Waiting = 1..Len(Waiting) /\ Len(Waiting) \in Nat /\ DOMAIN Waiting' = 1..Len(Waiting) + 1
      BY <1>4, <1>5, <1>7
    <3>2. 1..Len(Waiting) + 1 = 1..Len(Waiting) \cup {Len(Waiting) + 1}
      BY <3>1
    <3>3. /\ Waiting'[Len(Waiting) + 1] = N + 1
          /\ \A i \in 1..Len(Waiting) : Waiting'[i] = Waiting[i]
      BY <1>3, <1>4, <1>5, <1>7
    <3>4. QED
      BY <3>1, <3>2, <3>3
  <2>2. \A i \in DOMAIN Waiting : Waiting[i] \in 1..N
    BY <1>1, <1>5, <1>7, ToSetParts DEF FreshPackets, N
  <2>3. \A i, j \in DOMAIN Waiting : Waiting[i] = Waiting[j] => i = j
    BY <1>1 DEF FreshPackets
  <2>4. QED
    BY <1>13, <2>1, <2>2, <2>3
<1>15. FreshPackets'
  <2>1. 1..N \subseteq 1..N + 1 /\ N + 1 \in 1..N + 1
    BY <1>3
  <2>2. ToSet(m_tQueuedPackets') \cup ToSet(m_tPackets') \cup ToSet(vec_packets') \subseteq 1..Len(spoken')
    BY <1>1, <1>3, <1>5, <1>6, <2>1 DEF FreshPackets, N
  <2>3. ToSet(Waiting') \cap Given' = {}
    BY <1>1, <1>5, <1>7, <1>11, <1>12, <1>13 DEF FreshPackets
  <2>4. /\ thread' = "get" => ToSet(m_tPackets') \cap Matched' = {}
        /\ thread' = "look" => ToSet(vec_packets') \cap Matched' = {}
    BY <1>1, <1>6, <1>11 DEF FreshPackets
  <2>5. QED
    BY <1>14, <2>2, <2>3, <2>4 DEF FreshPackets
<1>16. QED
  BY <1>8, <1>10, <1>15 DEF CamrabInv

(* The readings that the thread makes are of packets that were not matched. *)
LEMMA LookKeeps == CamrabInv /\ Look => CamrabInv'
<1> SUFFICES ASSUME CamrabInv, Look PROVE CamrabInv'
  OBVIOUS
<1>1. CamrabTypes /\ FreshPackets /\ MatchedOnce /\ \A r \in AllReadings : Truthful(r)
  BY DEF CamrabInv
<1>2. /\ UNCHANGED <<m_tQueuedPackets, m_tPackets, spoken, main, vec_packets, m_tQueuedReadings, m_tReadings>>
      /\ round' = round + 1 /\ thread = "look" /\ thread' = "queue"
      /\ scene' \in Scenes /\ todo' = InferRobots(Filtered[scene'], vec_packets, round')
  BY DEF Look, packetVars
<1> DEFINE P == 1..Len(spoken)
           R == ReadingsFrom(vec_packets, round')
<1>3. round \in Nat /\ round' \in Nat /\ round < round' /\ Len(spoken) \in Nat
  BY <1>1, <1>2 DEF CamrabTypes
<1>4. vec_packets \in Seq(P) /\ ToSet(vec_packets) \subseteq P
  <2>1. vec_packets \in Seq(Nat) /\ ToSet(vec_packets) \subseteq P
    BY <1>1 DEF CamrabTypes, FreshPackets
  <2> HIDE DEF P
  <2>2. \A i \in DOMAIN vec_packets : vec_packets[i] \in P
    BY <2>1, ToSetParts
  <2>3. QED
    BY <2>1, <2>2
<1>5. FromPackets(todo', vec_packets, round')
  <2>1. Filtered[scene'] \in Seq(Blobs)
    BY <1>2, FilteredIs
  <2>2. spoken \in Seq(Messages) /\ vec_packets \in Seq(1..Len(spoken))
    BY <1>1, <1>4 DEF CamrabTypes
  <2>3. FromPackets(InferRobots(Filtered[scene'], vec_packets, round'), vec_packets, round')
    BY <1>3, <2>1, <2>2, InferRobotsIs
  <2>4. QED
    BY <1>2, <2>3
<1>6. todo' \in Seq(R) /\ BlobsOnce(todo')
  BY <1>5 DEF FromPackets
<1> HIDE DEF P, R
<1>7. ToSet(todo') \subseteq R
  BY <1>6, ToSetParts
<1>8. \A r \in R : /\ r \in Reading /\ r.packet \in ToSet(vec_packets) /\ r.round = round'
                   /\ r.Data = DataOf(Sent(spoken[r.packet])) /\ r.Color = ColorOf(Sent(spoken[r.packet]))
  BY DEF R, ReadingsFrom
<1>9. CamrabTypes'
  <2>1. todo' \in Seq(Reading)
    BY <1>6, <1>8
  <2>2. QED
    BY <1>1, <1>2, <1>3, <2>1 DEF CamrabTypes
<1>10. AllReadings' \subseteq AllReadings \cup ToSet(todo')
  BY <1>2 DEF AllReadings
<1>11. ASSUME NEW r \in AllReadings'
       PROVE  Truthful(r)'
  <2>1. /\ r.packet \in P /\ r.round <= round'
        /\ r.Data = DataOf(Sent(spoken[r.packet])) /\ r.Color = ColorOf(Sent(spoken[r.packet]))
    <3>1. CASE r \in AllReadings
      <4>1. Truthful(r)
        BY <1>1, <3>1
      <4>2. r.round <= round
        BY <4>1 DEF Truthful
      <4>3. r.round \in Nat
        <5>1. AllReadings \subseteq Reading
          BY <1>1, ToSetParts DEF CamrabTypes, AllReadings
        <5>2. QED
          BY <3>1, <5>1 DEF Reading
      <4>4. r.round <= round'
        BY <1>3, <4>2, <4>3
      <4>5. QED
        BY <4>1, <4>4 DEF Truthful, P
    <3>2. CASE r \in ToSet(todo')
      <4>1. r \in R
        BY <1>7, <3>2
      <4>2. r.round = round' /\ r.packet \in P
        BY <1>4, <1>8, <4>1
      <4>3. QED
        BY <1>3, <1>8, <4>1, <4>2
    <3>3. QED
      BY <1>10, <1>11, <3>1, <3>2
  <2>2. spoken' = spoken
    BY <1>2
  <2>3. QED
    BY <2>1, <2>2 DEF Truthful, P
<1>12. Matched' \subseteq Matched \cup ToSet(vec_packets)
  <2>1. \A r \in AllReadings' : r.packet \in Matched \cup ToSet(vec_packets)
    BY <1>7, <1>8, <1>10 DEF Matched
  <2>2. QED
    BY <2>1 DEF Matched
<1>13. FreshPackets'
  <2>1. Waiting' = Waiting
    BY <1>2 DEF Waiting
  <2>2. Given' \subseteq Given
    BY <1>2, <1>12 DEF Given
  <2>3. QED
    BY <1>1, <1>2, <2>1, <2>2 DEF FreshPackets
<1>14. MatchedOnce'
  <2>1. \A r \in AllReadings : r.packet \in Matched /\ r.round <= round /\ r.round # round'
    <3>1. AllReadings \subseteq Reading
      BY <1>1, ToSetParts DEF CamrabTypes, AllReadings
    <3>2. \A r \in AllReadings : r.round \in Nat /\ r.round <= round
      BY <1>1, <3>1 DEF Truthful, Reading
    <3>3. QED
      BY <1>3, <3>2 DEF Matched
  <2>2. \A r \in ToSet(todo') : r.packet \in ToSet(vec_packets) /\ r.round = round'
    BY <1>7, <1>8
  <2>3. ToSet(vec_packets) \cap Matched = {}
    BY <1>1, <1>2 DEF FreshPackets
  <2> SUFFICES ASSUME NEW r \in AllReadings', NEW q \in AllReadings'
               PROVE  /\ r.packet = q.packet => r.round = q.round
                      /\ r.round = q.round /\ r.blob = q.blob /\ r.blob # NoBlob => r.packet = q.packet
    BY DEF MatchedOnce
  <2>4. CASE r \in AllReadings /\ q \in AllReadings
    BY <1>1, <2>4 DEF MatchedOnce
  <2>5. CASE r \in ToSet(todo') /\ q \in ToSet(todo')
    BY <1>6, <2>2, <2>5 DEF BlobsOnce
  <2>6. CASE r \in AllReadings /\ q \in ToSet(todo')
    BY <2>1, <2>2, <2>3, <2>6
  <2>7. CASE r \in ToSet(todo') /\ q \in AllReadings
    BY <2>1, <2>2, <2>3, <2>7
  <2>8. QED
    BY <1>10, <2>4, <2>5, <2>6, <2>7
<1>15. QED
  BY <1>9, <1>11, <1>13, <1>14 DEF CamrabInv

(* The other steps of the thread and of the control step make no reading   *)
(* and hear no packet: a packet only moves on.                             *)
MovesOn ==
  /\ AllReadings' \subseteq AllReadings /\ UNCHANGED <<spoken, round>>
  /\ ToSet(m_tQueuedPackets') \subseteq ToSet(m_tQueuedPackets)
  /\ ToSet(m_tPackets') \cup ToSet(vec_packets') \subseteq 1..Len(spoken)
LEMMA MovesOnKeeps ==
  ASSUME CamrabInv, MovesOn, CamrabTypes', ToSet(Waiting') \cap Given' = {},
         \A i, j \in DOMAIN Waiting' : Waiting'[i] = Waiting'[j] => i = j,
         thread' = "get" => ToSet(m_tPackets') \cap Matched' = {},
         thread' = "look" => ToSet(vec_packets') \cap Matched' = {}
  PROVE  CamrabInv'
<1>1. Len(spoken) \in Nat
  BY DEF CamrabInv, CamrabTypes
<1>2. (\A r \in AllReadings' : Truthful(r)') /\ MatchedOnce'
  BY <1>1, ReadingsKept DEF MovesOn
<1>3. ToSet(m_tQueuedPackets') \cup ToSet(m_tPackets') \cup ToSet(vec_packets') \subseteq 1..Len(spoken')
  BY DEF CamrabInv, FreshPackets, MovesOn
<1>4. FreshPackets'
  BY <1>3 DEF FreshPackets
<1>5. QED
  BY <1>2, <1>4 DEF CamrabInv

(* What keeps the packets that wait. *)
StillWaiting == Waiting' = Waiting /\ Given' \subseteq Given
LEMMA StillWaitingIs ==
  ASSUME CamrabInv, StillWaiting
  PROVE  ToSet(Waiting') \cap Given' = {} /\ \A i, j \in DOMAIN Waiting' : Waiting'[i] = Waiting'[j] => i = j
BY DEF CamrabInv, FreshPackets, StillWaiting

LEMMA ThreadKeeps == CamrabInv /\ Thread /\ ~Look => CamrabInv'
<1> SUFFICES ASSUME CamrabInv, Thread, ~Look PROVE CamrabInv'
  OBVIOUS
<1>1. CamrabTypes /\ FreshPackets
  BY DEF CamrabInv
<1>2. UNCHANGED <<spoken, round, m_tQueuedPackets, m_tReadings, main>>
  BY DEF Thread, GetPackets, QueueReading, Inferred, DeleteLast, PopLast, Sleep, packetVars, threadVars
<1>3. /\ m_tPackets \in Seq(Nat) /\ vec_packets \in Seq(Nat)
      /\ todo \in Seq(Reading) /\ m_tQueuedReadings \in Seq(Reading)
  BY <1>1 DEF CamrabTypes
<1>4. /\ m_tPackets' \in Seq(Nat) /\ ToSet(m_tPackets') \subseteq ToSet(m_tPackets)
  <2>1. CASE PopLast
    <3>1. m_tPackets # <<>>
      BY <1>1, <2>1 DEF PopLast, CamrabTypes
    <3>2. QED
      BY <1>3, <2>1, <3>1, ToSetParts DEF PopLast
  <2>2. CASE ~PopLast
    BY <1>3, <2>2 DEF Thread, GetPackets, QueueReading, Inferred, DeleteLast, Sleep, packetVars
  <2>3. QED
    BY <2>1, <2>2
<1>5. /\ vec_packets' \in Seq(Nat)
      /\ ToSet(vec_packets') \subseteq ToSet(vec_packets) \cup ToSet(m_tPackets)
      /\ thread' = "look" => ToSet(vec_packets') \cap Matched = {}
      /\ thread' = "get" => ToSet(m_tPackets') = {}
  <2>1. ToSet(<<>>) = {}
    BY DEF ToSet
  <2>2. CASE GetPackets
    BY <1>1, <1>3, <2>2 DEF GetPackets, FreshPackets
  <2>3. CASE Inferred
    BY <2>1, <2>3 DEF Inferred
  <2>4. CASE Sleep
    BY <1>3, <2>1, <2>4 DEF Sleep, packetVars, threadVars
  <2>5. CASE QueueReading \/ DeleteLast \/ PopLast
    BY <1>3, <2>5 DEF QueueReading, DeleteLast, PopLast, threadVars
  <2>6. QED
    BY <2>2, <2>3, <2>4, <2>5 DEF Thread
<1>6. /\ todo' \in Seq(Reading) /\ m_tQueuedReadings' \in Seq(Reading)
      /\ ToSet(todo') \cup ToSet(m_tQueuedReadings') \subseteq ToSet(todo) \cup ToSet(m_tQueuedReadings)
  <2>1. CASE QueueReading
    <3>1. Head(todo) \in ToSet(todo) /\ Head(todo) \in Reading /\ Tail(todo) \in Seq(Reading)
          /\ ToSet(Tail(todo)) \subseteq ToSet(todo)
      BY <1>3, <2>1, ToSetParts DEF QueueReading
    <3>2. /\ Append(m_tQueuedReadings, Head(todo)) \in Seq(Reading)
          /\ ToSet(Append(m_tQueuedReadings, Head(todo))) = ToSet(m_tQueuedReadings) \cup {Head(todo)}
      BY <1>3, <3>1, ToSetParts, ZenonT(60)
    <3>3. QED
      BY <2>1, <3>1, <3>2 DEF QueueReading
  <2>2. CASE ~QueueReading
    BY <1>3, <2>2 DEF Thread, GetPackets, Inferred, DeleteLast, PopLast, Sleep, threadVars
  <2>3. QED
    BY <2>1, <2>2
<1>7. AllReadings' \subseteq AllReadings
  BY <1>2, <1>6 DEF AllReadings
<1>8. Matched' \subseteq Matched
  BY <1>7 DEF Matched
<1>9. CamrabTypes'
  <2>1. thread' = "pop" => m_tPackets' # <<>>
    BY DEF Thread, GetPackets, QueueReading, Inferred, DeleteLast, PopLast, Sleep
  <2>2. QED
    BY <1>1, <1>2, <1>4, <1>5, <1>6, <2>1 DEF CamrabTypes
<1>10. MovesOn
  BY <1>1, <1>2, <1>4, <1>5, <1>7 DEF MovesOn, FreshPackets
<1>11. StillWaiting
  <2>1. Waiting' = Waiting
    BY <1>2 DEF Waiting
  <2>2. Given' \subseteq Given
    BY <1>4, <1>5, <1>8 DEF Given
  <2>3. QED
    BY <2>1, <2>2 DEF StillWaiting
<1>12. /\ thread' = "get" => ToSet(m_tPackets') \cap Matched' = {}
       /\ thread' = "look" => ToSet(vec_packets') \cap Matched' = {}
  BY <1>5, <1>8
<1>13. QED
  BY <1>9, <1>10, <1>11, <1>12, StillWaitingIs, MovesOnKeeps

(* The control step takes the packets that wait, one after the other. *)
LEMMA MainKeeps == CamrabInv /\ Main => CamrabInv'
<1> SUFFICES ASSUME CamrabInv, Main PROVE CamrabInv'
  OBVIOUS
<1>1. CamrabTypes /\ FreshPackets
  BY DEF CamrabInv
<1>2. UNCHANGED <<spoken, round, thread, vec_packets, todo>>
  BY DEF Main, PushPacket, PopQueued, ReceiveData, ClearReadings, packetVars, threadVars
<1>3. /\ m_tPackets \in Seq(Nat) /\ m_tQueuedPackets \in Seq(Nat)
      /\ m_tReadings \in Seq(Reading) /\ m_tQueuedReadings \in Seq(Reading) /\ ToSet(<<>>) = {}
  BY <1>1 DEF CamrabTypes, ToSet
<1>4. CASE PushPacket
  <2> DEFINE p == Head(m_tQueuedPackets)
  <2>1. /\ UNCHANGED <<m_tQueuedPackets, m_tQueuedReadings, m_tReadings>>
        /\ main # "pop" /\ main' = "pop" /\ m_tQueuedPackets # <<>>
        /\ m_tPackets' = Append(m_tPackets, p)
    BY <1>4 DEF PushPacket
  <2>2. /\ p \in ToSet(m_tQueuedPackets) /\ p \in Nat /\ p = m_tQueuedPackets[1]
        /\ Tail(m_tQueuedPackets) \in Seq(Nat)
        /\ ToSet(Tail(m_tQueuedPackets)) \subseteq ToSet(m_tQueuedPackets)
    BY <1>3, <2>1, ToSetParts
  <2> HIDE DEF p
  <2>3. m_tPackets' \in Seq(Nat) /\ ToSet(m_tPackets') = ToSet(m_tPackets) \cup {p} /\ m_tPackets' # <<>>
    <3>1. \A k \in Nat : /\ Append(m_tPackets, k) \in Seq(Nat)
                         /\ ToSet(Append(m_tPackets, k)) = ToSet(m_tPackets) \cup {k}
      BY <1>3, ToSetParts
    <3>2. \A k \in Nat : Append(m_tPackets, k) # <<>>
      <4> SUFFICES ASSUME NEW k \in Nat PROVE Append(m_tPackets, k) # <<>>
        OBVIOUS
      <4>1. Append(m_tPackets, k)[Len(m_tPackets) + 1] = k /\ Len(Append(m_tPackets, k)) = Len(m_tPackets) + 1
        BY <1>3
      <4>2. Len(m_tPackets) + 1 # 0 /\ Len(<<>>) = 0
        BY <1>3
      <4>3. QED
        BY <4>1, <4>2, Zenon
    <3>3. p \in Nat /\ m_tPackets' = Append(m_tPackets, p)
      BY <2>1, <2>2
    <3>4. QED
      BY <3>1, <3>2, <3>3
  <2>4. Waiting = m_tQueuedPackets /\ Waiting' = Tail(m_tQueuedPackets)
    <3>1. main # "pop" /\ main' = "pop" /\ m_tQueuedPackets' = m_tQueuedPackets
      BY <2>1
    <3>2. QED
      BY <3>1 DEF Waiting
  <2>5. AllReadings' = AllReadings /\ Matched' = Matched
    BY <1>2, <2>1 DEF AllReadings, Matched
  <2>6. CamrabTypes'
    BY <1>1, <1>2, <2>1, <2>3 DEF CamrabTypes
  <2>7. MovesOn
    BY <1>1, <1>2, <2>1, <2>2, <2>3, <2>5 DEF MovesOn, FreshPackets
  <2>8. \A i, j \in DOMAIN m_tQueuedPackets : m_tQueuedPackets[i] = m_tQueuedPackets[j] => i = j
    BY <1>1, <2>4 DEF FreshPackets
  <2>9. DOMAIN Waiting' = 1..Len(m_tQueuedPackets) - 1
        /\ \A i \in DOMAIN Waiting' : Waiting'[i] = m_tQueuedPackets[i + 1] /\ i + 1 \in DOMAIN m_tQueuedPackets
    BY <1>3, <2>1, <2>4
  <2>10. \A i, j \in DOMAIN Waiting' : Waiting'[i] = Waiting'[j] => i = j
    <3> SUFFICES ASSUME NEW i \in DOMAIN Waiting', NEW j \in DOMAIN Waiting', Waiting'[i] = Waiting'[j]
                 PROVE  i = j
      OBVIOUS
    <3>1. i + 1 = j + 1
      BY <2>8, <2>9
    <3>2. i \in Int /\ j \in Int
      BY <2>9
    <3>3. QED
      BY <3>1, <3>2
  <2>11. p \notin ToSet(Waiting')
    <3>1. ASSUME NEW i \in DOMAIN Waiting', Waiting'[i] = p
          PROVE  FALSE
      <4>1. 1 \in DOMAIN m_tQueuedPackets
        BY <1>3, <2>1
      <4>2. i + 1 = 1
        BY <2>2, <2>8, <2>9, <3>1, <4>1
      <4>3. i \in Int /\ i >= 1
        BY <2>9
      <4>4. QED
        BY <4>2, <4>3
    <3>2. QED
      BY <3>1 DEF ToSet
  <2>12. ToSet(Waiting) \cap Given = {}
    BY <1>1 DEF FreshPackets
  <2>13. ToSet(Waiting') \cap Given' = {}
    BY <1>2, <2>2, <2>3, <2>4, <2>5, <2>11, <2>12 DEF Given
  <2>14. p \notin Matched
    BY <2>2, <2>4, <2>12 DEF Given
  <2>15. /\ thread' = "get" => ToSet(m_tPackets') \cap Matched' = {}
         /\ thread' = "look" => ToSet(vec_packets') \cap Matched' = {}
    BY <1>1, <1>2, <2>3, <2>5, <2>14 DEF FreshPackets
  <2>16. QED
    BY <2>6, <2>7, <2>10, <2>13, <2>15, MovesOnKeeps
<1>5. CASE ~PushPacket
  <2>1. UNCHANGED m_tPackets
    BY <1>5 DEF Main, PopQueued, ReceiveData, ClearReadings, packetVars
  <2>2. /\ m_tQueuedPackets' \in Seq(Nat) /\ ToSet(m_tQueuedPackets') \subseteq ToSet(m_tQueuedPackets)
        /\ Waiting' = Waiting /\ main' # "pop"
    <3>1. CASE PopQueued
      <4>1. /\ main = "pop" /\ main' # "pop" /\ m_tQueuedPackets # <<>>
            /\ m_tQueuedPackets' = Tail(m_tQueuedPackets)
        BY <1>1, <3>1 DEF PopQueued, CamrabTypes
      <4>2. Waiting' = Waiting
        BY <4>1 DEF Waiting
      <4>3. QED
        BY <1>3, <4>1, <4>2, ToSetParts
    <3>2. CASE ReceiveData \/ ClearReadings
      <4>1. main # "pop" /\ main' # "pop" /\ m_tQueuedPackets' = m_tQueuedPackets
        BY <3>2 DEF ReceiveData, ClearReadings, packetVars
      <4>2. QED
        BY <1>3, <4>1 DEF Waiting
    <3>3. QED
      BY <1>5, <3>1, <3>2 DEF Main
  <2>3. /\ m_tReadings' \in Seq(Reading) /\ m_tQueuedReadings' \in Seq(Reading)
        /\ ToSet(m_tReadings') \cup ToSet(m_tQueuedReadings')
             \subseteq ToSet(m_tReadings) \cup ToSet(m_tQueuedReadings)
    <3>1. CASE PopQueued
      BY <1>3, <3>1 DEF PopQueued
    <3>2. CASE ReceiveData
      <4>1. /\ m_tReadings \o m_tQueuedReadings \in Seq(Reading)
            /\ ToSet(m_tReadings \o m_tQueuedReadings) = ToSet(m_tReadings) \cup ToSet(m_tQueuedReadings)
        BY <1>3, ToSetJoined
      <4>2. QED
        BY <1>3, <3>2, <4>1 DEF ReceiveData
    <3>3. CASE ClearReadings
      <4>1. (m_tReadings' = m_tReadings \/ m_tReadings' = <<>>) /\ m_tQueuedReadings' = m_tQueuedReadings
        BY <3>3 DEF ClearReadings
      <4>2. <<>> \in Seq(Reading)
        OBVIOUS
      <4>3. QED
        BY <1>3, <4>1, <4>2
    <3>4. QED
      BY <1>5, <3>1, <3>2, <3>3 DEF Main
  <2>4. AllReadings' \subseteq AllReadings
    BY <1>2, <2>3 DEF AllReadings
  <2>5. Matched' \subseteq Matched
    BY <2>4 DEF Matched
  <2>6. CamrabTypes'
    BY <1>1, <1>2, <2>1, <2>2, <2>3 DEF CamrabTypes
  <2>7. MovesOn
    BY <1>1, <1>2, <2>1, <2>2, <2>4 DEF MovesOn, FreshPackets
  <2>8. StillWaiting
    BY <1>2, <2>1, <2>2, <2>5 DEF StillWaiting, Given
  <2>9. /\ thread' = "get" => ToSet(m_tPackets') \cap Matched' = {}
        /\ thread' = "look" => ToSet(vec_packets') \cap Matched' = {}
    BY <1>1, <1>2, <2>1, <2>5 DEF FreshPackets
  <2>10. QED
    BY <2>6, <2>7, <2>8, <2>9, StillWaitingIs, MovesOnKeeps
<1>6. QED
  BY <1>4, <1>5

LEMMA CamrabInvHolds == Spec => []CamrabInv
<1>1. CamrabInv /\ [Next]_vars => CamrabInv'
  <2>1. CamrabInv /\ UNCHANGED vars => CamrabInv'
    BY ZenonT(60) DEF CamrabInv, CamrabTypes, AllReadings, Truthful, Waiting, Matched, Given, FreshPackets, MatchedOnce,
           vars, packetVars, threadVars
  <2>2. QED
    BY <2>1, HearKeeps, LookKeeps, ThreadKeeps, MainKeeps DEF Next
<1>2. QED
  BY <1>1, CamrabStarts, PTL DEF Spec

(* The colour and the data of a reading are those its packet's robot sent, *)
(* if they fit into a byte, also where the colour is that of a blob.       *)
THEOREM HeardAsSentHolds == Spec => []HeardAsSent
<1>1. CamrabInv => HeardAsSent
  <2> SUFFICES ASSUME CamrabInv, NEW r \in AllReadings, spoken[r.packet].Data * Shift < 256
               PROVE  r.Color = spoken[r.packet].Color /\ r.Data = spoken[r.packet].Data
    BY DEF HeardAsSent
  <2>1. Truthful(r)
    BY DEF CamrabInv
  <2>2. spoken[r.packet] \in Messages
    BY <2>1 DEF Truthful, CamrabInv, CamrabTypes
  <2>3. QED
    BY <2>1, <2>2, ReadBack DEF Truthful
<1>2. QED
  BY <1>1, CamrabInvHolds, PTL

(* A packet is matched in one round, and within a round a blob with one    *)
(* packet.                                                                 *)
THEOREM MatchedOnceHolds == Spec => []MatchedOnce
<1>1. CamrabInv => MatchedOnce
  BY DEF CamrabInv
<1>2. QED
  BY <1>1, CamrabInvHolds, PTL

SceneLooked == scene \in Scenes
LEMMA SceneLookedHolds == Spec => []SceneLooked
<1>1. Init => SceneLooked
  BY CamrabAssumption DEF Init, SceneLooked
<1>2. SceneLooked /\ [Next]_vars => SceneLooked'
  <2> SUFFICES ASSUME SceneLooked, [Next]_vars
               PROVE  scene' \in Scenes
    BY DEF SceneLooked
  <2>1. CASE Look
    BY <2>1 DEF Look
  <2>2. CASE Inferred
    BY <2>2, CamrabAssumption DEF Inferred
  <2>3. CASE scene' = scene
    BY <2>3 DEF SceneLooked
  <2>4. Hear \/ Main => scene' = scene
    BY DEF Hear, Main, PushPacket, PopQueued, ReceiveData, ClearReadings, threadVars
  <2>5. Thread => Look \/ Inferred \/ scene' = scene
    BY DEF Thread, GetPackets, QueueReading, DeleteLast, PopLast, Sleep, threadVars
  <2>6. vars' = vars => scene' = scene
    BY DEF vars, threadVars
  <2>7. QED
    BY <2>1, <2>2, <2>3, <2>4, <2>5, <2>6 DEF Next
<1>3. QED
  BY <1>1, <1>2, PTL DEF Spec

(* Of each robot that the camera tells apart one blob is left. *)
THEOREM OnePerRobotHolds ==
  ASSUME RobotParameters
  PROVE  Spec => []OnePerRobot
<1>1. SceneLooked => OnePerRobot
  BY OneForEach DEF OnePerRobot, SceneLooked
<1>2. QED
  BY <1>1, SceneLookedHolds, PTL

-----------------------------------------------------------------------------
(* The board of the real robot: its life cycle and its serial line.       *)

(* Multiples of a number lie apart by at least that number.                *)
LEMMA Bigger ==
  ASSUME NEW R \in Nat \ {0}, NEW a \in Nat, NEW b \in Nat, a < b
  PROVE  R * a + R <= R * b
<1>1. PICK d \in Nat : b = a + 1 + d
  <2>1. b - a - 1 \in Nat /\ b = a + 1 + (b - a - 1)
    OBVIOUS
  <2>2. QED
    BY <2>1
<1>2. R * d \in Nat
  OBVIOUS
<1>3. R * b = R * a + R + R * d
  BY <1>1
<1>4. R * a \in Nat /\ R * b \in Nat
  OBVIOUS
<1>5. QED
  BY <1>2, <1>3, <1>4

(* The remainder is the only one: what modulo returns is fixed by the      *)
(* quotient it goes with.                                                  *)
LEMMA Division ==
  ASSUME NEW R \in Nat \ {0}, NEW q \in Nat, NEW r \in 0..R - 1
  PROVE  (R * q + r) % R = r
<1> DEFINE x == R * q + r
           p == x \div R
           s == x % R
<1>0. R * q \in Nat /\ x \in Nat
  OBVIOUS
<1>1. x = R * p + s /\ s \in 0..R - 1 /\ p \in Nat
  BY <1>0
<1>2. R * p \in Nat
  BY <1>1
<1> HIDE DEF p, s
<1>3. CASE p < q
  <2>1. R * p + R <= R * q
    BY <1>1, <1>3, Bigger
  <2>2. QED
    BY <1>0, <1>1, <1>2, <2>1
<1>4. CASE q < p
  <2>1. R * q + R <= R * p
    BY <1>1, <1>4, Bigger
  <2>2. QED
    BY <1>0, <1>1, <1>2, <2>1
<1>5. CASE p = q
  <2>1. s = r
    BY <1>0, <1>1, <1>5
  <2>2. QED
    BY <2>1 DEF s
<1>6. QED
  BY <1>1, <1>3, <1>4, <1>5

(* Counting one more commutes with taking the remainder.                   *)
LEMMA NextRound ==
  ASSUME NEW x \in Nat, NEW R \in Nat \ {0}
  PROVE  /\ x % R \in 0..R - 1
         /\ (x + 1) % R = ((x % R) + 1) % R
<1> DEFINE q == x \div R
           r == x % R
<1>1. x = R * q + r /\ r \in 0..R - 1 /\ q \in Nat
  OBVIOUS
<1>2. CASE r + 1 < R
  <2>1. (r + 1) % R = r + 1
    BY <1>1, <1>2
  <2>2. x + 1 = R * q + (r + 1) /\ r + 1 \in 0..R - 1
    BY <1>1, <1>2
  <2> HIDE DEF q, r
  <2>3. (R * q + (r + 1)) % R = r + 1
    BY <1>1, <2>2, Division
  <2>4. QED
    BY <1>1, <2>1, <2>2, <2>3 DEF r
<1>3. CASE r + 1 = R
  <2>1. (r + 1) % R = 0
    BY <1>1, <1>3
  <2>2. x + 1 = R * (q + 1) + 0 /\ 0 \in 0..R - 1 /\ q + 1 \in Nat
    BY <1>1, <1>3
  <2> HIDE DEF q, r
  <2>3. (R * (q + 1) + 0) % R = 0
    BY <2>2, Division
  <2>4. QED
    BY <1>1, <2>1, <2>2, <2>3 DEF r
<1>4. QED
  BY <1>1, <1>2, <1>3

-----------------------------------------------------------------------------
(* Where the program is: the states of the board at each of its functions. *)
Early == {"InitSerial", "WakeUpPic", "SendSensorConfiguration", "InitController"}
Loop  == {"SyncControlStep", "IsExperimentFinished", "ReceiveSensorData", "ControlStep", "SendActuatorData"}
Final == {"ResetPic30", "SendSensorConfiguration", "ReceiveSensorData", "SendActuatorData",
          "DestroySerial", "delete"}

Order ==
  /\ left > 0 => fn \in Transfers
  /\ phase = "main" => fn \in Early \cup Loop
  /\ phase = "destroy" => fn \in Final
  /\ phase \in {"over", "aborted", "faulting"} => fn = "none" /\ left = 0

MainPlace ==
  phase = "main" =>
    /\ ~broken /\ Reset # "R"
    /\ fn = "InitSerial" => board = "WAITING"
    /\ fn = "WakeUpPic" => left <= 1 /\ board = IF left = 0 THEN "INITIALIZATION" ELSE "WAKE_UP"
    /\ fn = "SendSensorConfiguration" => board = IF left = 0 THEN "WAKE_UP" ELSE "SENDING_CONFIGURATION"
    /\ fn = "InitController" => board = "SENDING_CONFIGURATION"
    /\ fn = "SyncControlStep" => board = IF synced THEN "RECEIVE" ELSE "SENDING_CONFIGURATION"
    /\ fn \in {"IsExperimentFinished", "ReceiveSensorData"} =>
         synced /\ board \in {"SENDING_CONFIGURATION", "SEND"}
    /\ fn \in {"ControlStep", "SendActuatorData"} => synced /\ board = "RECEIVE"

(* The steps counted so far, against the commands sent: the two agree but  *)
(* for the step whose command is about to be sent.                         *)
Done == m_unExpDuration - m_unExperimentStepsLeft
StepCount ==
  phase = "main" =>
    /\ fn \in Early => ~synced /\ m_unExpDuration = 0 /\ m_unExperimentStepsLeft = 0
    /\ ~synced => sent = 0 /\ m_unExperimentStepsLeft = m_unExpDuration
    /\ m_unExpDuration > 0 =>
         /\ fn \in {"ReceiveSensorData", "ControlStep", "SyncControlStep"} => m_unExperimentStepsLeft > 0
         /\ fn = "SendActuatorData" => (sent + 1) % Rounds = Done % Rounds
         /\ fn # "SendActuatorData" => sent = Done % Rounds

StepInv == TypeOK /\ Order /\ MainPlace /\ StepCount

USE DEF mainVars, lineVars, picVars, programVars

(* Only the end of a transfer moves the program on, and it moves it on as  *)
(* the function it was in says.                                            *)
LEMMA FollowingIsFunction ==
  ASSUME fn \in Functions
  PROVE  Following(fn) \in Functions
BY DEF Following, InMain, InDestructor, Functions

(* The parts on the two lines, and what taking one off and putting one on  *)
(* does to a line of them.                                                 *)
ToParts   == [kind : Sends, at : 1..Parts, reset : BOOLEAN]
FromParts == [n : 0..Rounds - 1, at : 1..Parts]

LEMMA LinesAreSequences ==
  ASSUME NEW S
  PROVE  /\ <<>> \in Seq(S)
         /\ \A s \in Seq(S) : s # <<>> => Head(s) \in S /\ Tail(s) \in Seq(S)
         /\ \A s \in Seq(S) : \A e \in S : Append(s, e) \in Seq(S)
OBVIOUS

LEMMA TypeOKInductive == StepInv /\ [BoardNext]_boardVars => TypeOK'
<1> SUFFICES ASSUME StepInv, [BoardNext]_boardVars
             PROVE  TypeOK'
  OBVIOUS
<1> USE BoardAssumption
<1>0. TypeOK /\ Order /\ MainPlace /\ StepCount
  BY DEF StepInv
<1>a. /\ (sent + 1) % Rounds \in 0..Rounds - 1 /\ (acted + 1) % Rounds \in 0..Rounds - 1
      /\ Parts \in 1..Parts /\ 1 \in 1..Parts /\ Size \in 1..Parts
  <2>1. sent + 1 \in Nat /\ acted + 1 \in Nat /\ Rounds \in Nat \ {0}
    BY <1>0 DEF TypeOK
  <2>2. (sent + 1) % Rounds \in 0..Rounds - 1 /\ (acted + 1) % Rounds \in 0..Rounds - 1
    BY <2>1, NextRound
  <2>3. QED
    BY <2>2 DEF Size
<1>b. Continue => fn' \in Functions /\ left' = 0 /\ phase' = phase
  BY <1>0, FollowingIsFunction DEF Continue, TypeOK
<1>c. Throw => fn' \in Functions /\ left' = 0 /\ phase' \in {"destroy", "aborted"}
  BY DEF Throw, Functions
<1>d. Abort \/ Fault => fn' \in Functions /\ left' = 0 /\ phase' \in {"aborted", "faulting"}
  BY DEF Abort, Fault, Functions
<1>1. CASE OutOfSync
  BY <1>0, <1>1, <1>b DEF OutOfSync, TypeOK
<1>2. CASE InitSerial
  <2>1. fromPic' \in Seq(FromParts)
    BY <1>0, <1>2, LinesAreSequences DEF InitSerial, TypeOK, FromParts
  <2>2. fd' \in BOOLEAN /\ Reset' \in {"0", "N", "R"} /\ board' = "INITIALIZATION" /\ (Continue \/ Throw)
    BY <1>0, <1>2 DEF InitSerial, TypeOK
  <2>3. UNCHANGED <<mainVars, m_bGoHome, sensed, sent, toPic, picVars, broken>>
    BY <1>2 DEF InitSerial
  <2>4. QED
    BY <1>0, <1>b, <1>c, <2>1, <2>2, <2>3 DEF TypeOK, FromParts
<1>3. CASE InitController
  <2>1. UNCHANGED <<board, fd, Reset, synced, m_bGoHome, sensed, sent, lineVars, picVars, broken>>
    BY <1>3 DEF InitController
  <2>2. m_unExperimentStepsLeft = 0
    BY <1>0, <1>3 DEF InitController, StepCount, Order, Early, Final, TypeOK
  <2>3. /\ m_unExpDuration' \in Lengths \cup {0} /\ m_unExperimentStepsLeft' \in 0..m_unExpDuration'
        /\ m_pcController' \in {"unset", "made", "deleted"} /\ (Continue \/ Throw \/ Abort)
        /\ m_pcOmnidirectionalCameraSensor' \in {"unset", "usable"}
    <3>1. /\ m_unExpDuration' \in {m_unExpDuration} \cup Lengths
          /\ m_unExperimentStepsLeft' \in {0, m_unExpDuration'}
          /\ m_pcController' \in {"unset", "made"} /\ (Continue \/ Throw \/ Abort)
          /\ m_pcOmnidirectionalCameraSensor' \in {m_pcOmnidirectionalCameraSensor, "usable"}
      BY <1>3, <2>2 DEF InitController
    <3>2. m_unExpDuration' \in Lengths \cup {0}
      BY <1>0, <3>1 DEF TypeOK
    <3>3. m_unExpDuration' \in Nat
      BY <3>2
    <3>4. m_unExperimentStepsLeft' \in 0..m_unExpDuration'
      BY <3>1, <3>3
    <3>5. m_pcOmnidirectionalCameraSensor' \in {"unset", "usable"}
      BY <1>0, <3>1 DEF TypeOK
    <3>6. QED
      BY <3>1, <3>2, <3>4, <3>5
  <2>4. QED
    BY <1>0, <1>b, <1>c, <1>d, <2>1, <2>3 DEF TypeOK
<1>4. CASE IsExperimentFinished
  <2>1. UNCHANGED <<board, fd, Reset, mainVars, m_bGoHome, sensed, sent, lineVars, picVars, broken>>
    BY <1>4 DEF IsExperimentFinished
  <2>2. fn' \in Functions /\ left' = 0 /\ phase' \in {"main", "destroy", "over", "aborted", "faulting"}
    BY <1>0, <1>4, <1>b DEF IsExperimentFinished, TypeOK, Functions
  <2>3. QED
    BY <1>0, <2>1, <2>2 DEF TypeOK
<1>5. CASE ControlStep
  <2>1. Continue \/ Throw \/ Abort \/ Fault
    BY <1>5 DEF ControlStep
  <2>2. m_bGoHome' \in BOOLEAN
    BY <1>0, <1>5 DEF ControlStep, Fault, TypeOK
  <2>3. UNCHANGED <<board, fd, Reset, mainVars, sensed, sent, lineVars, picVars, broken>>
    BY <1>5 DEF ControlStep
  <2>4. QED
    BY <1>0, <1>b, <1>c, <1>d, <2>1, <2>2, <2>3 DEF TypeOK
<1>6. CASE SyncControlStep
  <2>1. phase = "main"
    BY <1>0, <1>6 DEF SyncControlStep, Order, Final, TypeOK
  <2>2. m_unExperimentStepsLeft' \in 0..m_unExpDuration
    BY <1>0, <1>6, <2>1 DEF SyncControlStep, Counts, StepCount, TypeOK
  <2>3. synced' = TRUE /\ Continue
           /\ UNCHANGED <<board, fd, Reset, m_unExpDuration, m_pcController, m_pcOmnidirectionalCameraSensor,
                         m_bGoHome, sensed, sent, lineVars, picVars, broken>>
    BY <1>6 DEF SyncControlStep
  <2>4. QED
    BY <1>0, <1>b, <2>2, <2>3 DEF TypeOK
<1>7. CASE Begin
  BY <1>0, <1>7, <1>a, SMTT(40) DEF Begin, Entering, TypeOK
<1>m. Moved /\ left > 0 => fn' \in Functions /\ left' \in 0..Parts /\ phase' = phase
                              /\ board' \in {board, "SEND", "RECEIVE"}
  BY <1>0, <1>b, SMTT(40) DEF Moved, Leaving, TypeOK
<1>8. CASE Write
  <2>1. Packet \in ToParts
    BY <1>0, <1>8 DEF Write, Packet, TypeOK, ToParts
  <2>2. toPic' \in Seq(ToParts)
    <3>1. toPic \in Seq(ToParts) /\ toPic' = Append(toPic, Packet)
      BY <1>0, <1>8 DEF Write, TypeOK, ToParts
    <3>2. QED
      BY <2>1, <3>1, LinesAreSequences
  <2>3. sent' \in 0..Rounds - 1
    BY <1>0, <1>8, <1>a DEF Write, TypeOK
  <2>4. Moved /\ left > 0 /\ UNCHANGED <<fd, Reset, mainVars, m_bGoHome, sensed, fromPic, picVars, broken>>
    BY <1>8 DEF Write
  <2>5. QED
    BY <1>0, <1>m, <2>2, <2>3, <2>4 DEF TypeOK, ToParts
<1>9. CASE Read
  <2>1. fromPic' \in Seq(FromParts) /\ Head(fromPic) \in FromParts
    <3>1. fromPic \in Seq(FromParts) /\ fromPic # <<>> /\ fromPic' = Tail(fromPic)
      BY <1>0, <1>9 DEF Read, TypeOK, FromParts
    <3>2. QED
      BY <3>1, LinesAreSequences
  <2>2. sensed' \in 0..Rounds - 1
    BY <1>0, <1>9, <2>1 DEF Read, TypeOK, FromParts
  <2>3. Moved /\ left > 0 /\ UNCHANGED <<fd, Reset, mainVars, m_bGoHome, sent, toPic, picVars, broken>>
    BY <1>9 DEF Read
  <2>4. QED
    BY <1>0, <1>m, <2>1, <2>2, <2>3, SMTT(40) DEF TypeOK, FromParts
<1>10. CASE TransferFails
  BY <1>0, <1>10, <1>c DEF TransferFails, TypeOK
<1>11. CASE ResetPic30
  BY <1>0, <1>11, <1>b DEF ResetPic30, Stopped, TypeOK
<1>12. CASE DestroySerial
  <2>1. fromPic' \in Seq(FromParts)
    BY <1>0, <1>12, LinesAreSequences DEF DestroySerial, TypeOK, FromParts
  <2>2. fd' \in BOOLEAN /\ Continue /\ UNCHANGED <<board, Reset, mainVars, m_bGoHome, sensed, sent, toPic, picVars, broken>>
    BY <1>12 DEF DestroySerial
  <2>3. QED
    BY <1>0, <1>b, <2>1, <2>2 DEF TypeOK, FromParts
<1>13. CASE DeleteController
  BY <1>0, <1>13 DEF DeleteController, TypeOK, Functions
<1>14. CASE SignalHandler
  BY <1>0, <1>14 DEF SignalHandler, TypeOK
<1>15. CASE Pic
  <2>1. UNCHANGED programVars
    BY <1>15 DEF Pic
  <2>2. toPic \in Seq(ToParts) /\ (toPic # <<>> => Tail(toPic) \in Seq(ToParts))
    BY <1>0, LinesAreSequences DEF TypeOK, ToParts
  <2>3. CASE PicWakes \/ PicConfigures \/ PicActs
    <3>1. toPic' \in Seq(ToParts)
      BY <2>2, <2>3 DEF PicWakes, PicConfigures, PicActs
    <3>2. /\ UNCHANGED fromPic /\ pic' \in {"asleep", "configure", "sense", "act"}
          /\ part' \in 1..Parts /\ acted' \in 0..Rounds - 1
      BY <1>0, <1>a, <2>3, SMTT(40) DEF PicWakes, PicConfigures, PicActs, TypeOK
    <3>3. QED
      BY <1>0, <2>1, <3>1, <3>2 DEF TypeOK, ToParts
  <2>4. CASE PicSenses
    <3>1. [n |-> acted, at |-> part] \in FromParts
      BY <1>0 DEF TypeOK, FromParts
    <3>2. fromPic' \in Seq(FromParts)
      <4>1. fromPic \in Seq(FromParts) /\ fromPic' = Append(fromPic, [n |-> acted, at |-> part])
        BY <1>0, <2>4 DEF PicSenses, TypeOK, FromParts
      <4>2. QED
        BY <3>1, <4>1, LinesAreSequences
    <3>3. UNCHANGED <<toPic, acted>> /\ pic' \in {"sense", "act"} /\ part' \in 1..Parts
      BY <1>0, <1>a, <2>4 DEF PicSenses, TypeOK
    <3>4. QED
      BY <1>0, <2>1, <3>2, <3>3 DEF TypeOK, FromParts
  <2>5. QED
    BY <1>15, <2>3, <2>4 DEF Pic
<1>16. CASE UNCHANGED boardVars
  BY <1>0, <1>16 DEF TypeOK, boardVars
<1>17. QED
  BY <1>1, <1>2, <1>3, <1>4, <1>5, <1>6, <1>7, <1>8, <1>9, <1>10, <1>11, <1>12, <1>13, <1>14,
     <1>15, <1>16 DEF BoardNext, Program, Terminated

(* The order of the functions, whatever fails.                             *)
LEMMA OrderInductive == StepInv /\ [BoardNext]_boardVars => Order'
<1> SUFFICES ASSUME StepInv, [BoardNext]_boardVars
             PROVE  Order'
  OBVIOUS
<1>0. TypeOK /\ Order /\ MainPlace /\ BoardAssumption
  BY BoardAssumption DEF StepInv
<1>1. CASE left' = 0 /\ UNCHANGED phase /\ fn' = Following(fn) /\ phase \in {"main", "destroy"}
           /\ (fn = "delete" => phase # "destroy")
  BY <1>0, <1>1 DEF Order, Following, InMain, InDestructor, Early, Loop, Final
<1>2. CASE (Throw /\ phase \in {"main", "destroy"}) \/ Abort \/ Fault
  BY <1>0, <1>2 DEF Throw, Abort, Fault, Order, Final
<1>3. CASE UNCHANGED <<phase, fn>> /\ (left' > 0 => fn \in Transfers) /\ (left' = left \/ fn # "none")
  BY <1>0, <1>3 DEF Order
<1>4. fn # "none" => phase \in {"main", "destroy"}
  BY <1>0 DEF Order, TypeOK
<1>5. CASE OutOfSync
  <2>1. fn \notin {"none", "delete"}
    BY <1>5 DEF OutOfSync, InSync
  <2>2. QED
    BY <1>1, <1>4, <1>5, <2>1 DEF OutOfSync, Continue
<1>6. CASE InitSerial \/ InitController \/ ControlStep \/ SyncControlStep \/ ResetPic30 \/ DestroySerial
  <2>1. fn \notin {"none", "delete"} /\ (Continue \/ Throw \/ Abort \/ Fault)
    BY <1>6 DEF InitSerial, InitController, ControlStep, SyncControlStep, ResetPic30, DestroySerial
  <2>2. QED
    BY <1>1, <1>2, <1>4, <2>1 DEF Continue
<1>7. CASE IsExperimentFinished
  <2>1. fn = "IsExperimentFinished"
    BY <1>7 DEF IsExperimentFinished
  <2>2. CASE Continue
    BY <1>1, <1>4, <2>1, <2>2 DEF Continue
  <2>3. CASE phase' = "destroy" /\ fn' = "ResetPic30" /\ left' = 0
    BY <2>3 DEF Order, Final
  <2>4. QED
    BY <1>7, <2>2, <2>3 DEF IsExperimentFinished
<1>8. CASE Begin
  BY <1>3, <1>8 DEF Begin, Transfers, Sends
<1>9. CASE Write \/ Read
  <2>1. fn \in Transfers /\ Moved /\ left > 0
    BY <1>9 DEF Write, Read, Transfers
  <2>2. CASE Continue
    BY <1>1, <1>4, <2>1, <2>2 DEF Continue, Transfers, Sends
  <2>3. CASE UNCHANGED <<phase, fn>>
    BY <1>3, <2>1, <2>3 DEF Transfers, Sends
  <2>4. QED
    BY <2>1, <2>2, <2>3 DEF Moved
<1>10. CASE TransferFails
  <2>1. fn # "none" /\ Throw
    BY <1>10 DEF TransferFails, Sends
  <2>2. QED
    BY <1>2, <1>4, <2>1
<1>11. CASE DeleteController
  <2>1. fn' = "none" /\ phase' \in {"over", "aborted"} /\ left' = left /\ fn \notin Transfers
    BY <1>11 DEF DeleteController, Transfers, Sends
  <2>2. left = 0
    BY <1>0, <2>1, BoardAssumption DEF Order, TypeOK
  <2>3. QED
    BY <2>1, <2>2 DEF Order
<1>12. CASE SignalHandler \/ Pic \/ UNCHANGED boardVars
  BY <1>0, <1>12 DEF SignalHandler, Pic, boardVars, Order
<1>13. QED
  BY <1>5, <1>6, <1>7, <1>8, <1>9, <1>10, <1>11, <1>12 DEF BoardNext, Program, Terminated

LEMMA MainPlaceInductive == StepInv /\ [BoardNext]_boardVars => MainPlace'
<1> SUFFICES ASSUME StepInv, [BoardNext]_boardVars, phase' = "main"
             PROVE  MainPlace'
  BY DEF MainPlace
<1>0. TypeOK /\ Order /\ MainPlace /\ BoardAssumption
  BY BoardAssumption DEF StepInv
<1>1. phase = "main" /\ ~broken /\ Reset # "R"
  <2>1. UNCHANGED phase \/ phase' # "main"
    BY DEF BoardNext, Program, OutOfSync, InitSerial, InitController, IsExperimentFinished, ControlStep,
           SyncControlStep, Begin, Write, Read, Moved, TransferFails, ResetPic30, DestroySerial,
           DeleteController, Pic, SignalHandler, Terminated, Continue, Throw, Abort, Fault, boardVars
  <2>2. QED
    BY <1>0, <2>1 DEF MainPlace
<1>2. ~Throw /\ ~Abort /\ ~Fault
  BY <1>1 DEF Throw, Abort, Fault
<1>3. Continue => left' = 0 /\ fn' = InMain(fn)
  BY <1>1 DEF Continue, Following
<1>4. CASE OutOfSync
  BY <1>0, <1>1, <1>4 DEF OutOfSync, InSync, Order, MainPlace, Early, Loop
<1>5. CASE InitSerial
  BY <1>0, <1>1, <1>2, <1>3, <1>5 DEF InitSerial, MainPlace, InMain
<1>6. CASE InitController
  BY <1>0, <1>1, <1>2, <1>3, <1>6 DEF InitController, MainPlace, InMain, StepInv, StepCount, Early
<1>7. CASE IsExperimentFinished
  BY <1>0, <1>1, <1>3, <1>7 DEF IsExperimentFinished, MainPlace, InMain
<1>8. CASE ControlStep
  BY <1>0, <1>1, <1>2, <1>3, <1>8 DEF ControlStep, MainPlace, InMain
<1>9. CASE SyncControlStep
  BY <1>0, <1>1, <1>3, <1>9 DEF SyncControlStep, MainPlace, InMain
<1>10. CASE Begin
  BY <1>0, <1>1, <1>10 DEF Begin, MainPlace, Entering, Size, Transfers, Sends
<1>11. CASE Write \/ Read
  <2>1. /\ fn \in Transfers /\ left > 0 /\ Moved
        /\ UNCHANGED <<Reset, synced, broken>>
    BY <1>11 DEF Write, Read, Transfers
  <2>2. CASE left = 1
    BY <1>0, <1>1, <1>3, <2>1, <2>2 DEF Moved, MainPlace, Leaving, InMain, Transfers, Sends
  <2>3. CASE left # 1
    BY <1>0, <1>1, <2>1, <2>3 DEF Moved, MainPlace, TypeOK
  <2>4. QED
    BY <2>2, <2>3
<1>12. CASE TransferFails \/ ResetPic30 \/ DestroySerial \/ DeleteController
  BY <1>0, <1>1, <1>2, <1>12 DEF TransferFails, ResetPic30, DestroySerial, DeleteController, Order, Early, Loop
<1>13. CASE SignalHandler \/ Pic \/ UNCHANGED boardVars
  BY <1>0, <1>1, <1>13 DEF SignalHandler, Pic, boardVars, MainPlace
<1>14. QED
  BY <1>4, <1>5, <1>6, <1>7, <1>8, <1>9, <1>10, <1>11, <1>12, <1>13 DEF BoardNext, Program, Terminated

LEMMA StepCountInductive == StepInv /\ [BoardNext]_boardVars => StepCount'
<1> SUFFICES ASSUME StepInv, [BoardNext]_boardVars, phase' = "main"
             PROVE  StepCount'
  BY DEF StepCount
<1>0. TypeOK /\ Order /\ MainPlace /\ StepCount /\ BoardAssumption
  BY BoardAssumption DEF StepInv
<1>1. phase = "main"
  <2>1. UNCHANGED phase \/ phase' # "main"
    BY DEF BoardNext, Program, OutOfSync, InitSerial, InitController, IsExperimentFinished, ControlStep,
           SyncControlStep, Begin, Write, Read, Moved, TransferFails, ResetPic30, DestroySerial,
           DeleteController, Pic, SignalHandler, Terminated, Continue, Throw, Abort, Fault, boardVars
  <2>2. QED
    BY <2>1
<1>2. ~Throw /\ ~Abort /\ ~Fault
  BY <1>1 DEF Throw, Abort, Fault
<1>3. Continue => left' = 0 /\ fn' = InMain(fn)
  BY <1>1 DEF Continue, Following
<1>4. CASE OutOfSync
  BY <1>0, <1>1, <1>4 DEF OutOfSync, InSync, Order, MainPlace, Early, Loop
<1>5. CASE InitSerial
  <2>1. fn = "InitSerial" /\ fn' = "WakeUpPic" /\ UNCHANGED <<mainVars, sent>>
    BY <1>2, <1>3, <1>5 DEF InitSerial, InMain
  <2>2. QED
    BY <1>0, <1>1, <2>1 DEF StepCount, Early
<1>6. CASE InitController
  <2>1. /\ fn' = "SyncControlStep" /\ m_unExpDuration' \in Lengths
        /\ m_unExperimentStepsLeft' = m_unExpDuration' /\ UNCHANGED <<synced, sent>>
    BY <1>2, <1>3, <1>6 DEF InitController, InMain
  <2>2. ~synced /\ sent = 0
    BY <1>0, <1>1, <1>6 DEF InitController, StepCount, Early
  <2>3. m_unExpDuration' \in Nat /\ m_unExpDuration' - m_unExpDuration' = 0
    <3>1. Lengths \subseteq Nat /\ m_unExpDuration' \in Lengths
      BY <2>1, BoardAssumption
    <3>2. m_unExpDuration' \in Nat
      BY <3>1
    <3>3. \A n \in Nat : n - n = 0
      OBVIOUS
    <3>4. QED
      BY <3>2, <3>3
  <2>4. 0 % Rounds = 0
    <3>1. Rounds * 0 + 0 = 0 /\ 0 \in 0..Rounds - 1
      BY <1>0 DEF BoardAssumption
    <3>2. QED
      BY <1>0, <3>1, Division DEF BoardAssumption
  <2>5. QED
    BY <2>1, <2>2, <2>3, <2>4 DEF StepCount, Early, Done
<1>7. CASE IsExperimentFinished
  <2>1. fn = "IsExperimentFinished" /\ fn' = "ReceiveSensorData" /\ ~Finished /\ UNCHANGED <<mainVars, sent>>
    BY <1>1, <1>3, <1>7 DEF IsExperimentFinished, InMain
  <2>2. synced /\ (m_unExpDuration > 0 => m_unExperimentStepsLeft # 0)
    BY <1>0, <1>1, <2>1 DEF MainPlace, Finished
  <2>3. m_unExperimentStepsLeft # 0 => m_unExperimentStepsLeft > 0
    BY <1>0 DEF TypeOK, BoardAssumption
  <2>4. QED
    BY <1>0, <1>1, <2>1, <2>2, <2>3 DEF StepCount, Early, Done
<1>8. CASE ControlStep
  <2>1. fn = "ControlStep" /\ fn' = "SyncControlStep" /\ UNCHANGED <<mainVars, sent>>
    BY <1>2, <1>3, <1>8 DEF ControlStep, InMain
  <2>2. QED
    BY <1>0, <1>1, <2>1 DEF StepCount, Early, Done
<1>9. CASE SyncControlStep
  <2>1. /\ fn = "SyncControlStep" /\ synced' = TRUE /\ UNCHANGED <<m_unExpDuration, sent>>
        /\ m_unExperimentStepsLeft' = IF Counts THEN m_unExperimentStepsLeft - 1 ELSE m_unExperimentStepsLeft
        /\ fn' = IF synced THEN "SendActuatorData" ELSE "IsExperimentFinished"
    BY <1>3, <1>9 DEF SyncControlStep, InMain
  <2>2. CASE ~synced
    BY <1>0, <1>1, <2>1, <2>2 DEF StepCount, Early, Done, Counts
  <2>3. CASE synced /\ ~(m_unExpDuration > 0)
    BY <2>1, <2>3 DEF StepCount, Early
  <2>4. CASE synced /\ m_unExpDuration > 0
    <3>1. Done \in Nat /\ Done' = Done + 1 /\ sent = Done % Rounds
      BY <1>0, <1>1, <2>1, <2>4 DEF StepCount, Done, Counts, TypeOK, BoardAssumption
    <3>2. Rounds \in Nat \ {0}
      BY <1>0 DEF BoardAssumption
    <3>3. (Done + 1) % Rounds = (sent + 1) % Rounds
      BY <3>1, <3>2, NextRound
    <3>4. QED
      BY <2>1, <2>4, <3>1, <3>3 DEF StepCount, Early
  <2>5. QED
    BY <2>2, <2>3, <2>4, <1>0 DEF TypeOK
<1>10. CASE Begin
  BY <1>0, <1>1, <1>10 DEF Begin, StepCount, Done
<1>11. CASE Write \/ Read
  <2>1. fn \in Transfers /\ left > 0 /\ Moved /\ UNCHANGED mainVars
    BY <1>11 DEF Write, Read, Transfers
  <2>2. sent' = IF fn = "SendActuatorData" /\ left = 1 THEN (sent + 1) % Rounds ELSE sent
    BY <1>11 DEF Write, Read
  <2>3. CASE left = 1
    <3>1. fn' = InMain(fn)
      BY <1>3, <2>1, <2>3 DEF Moved
    <3>2. CASE fn \in Early
      <4>1. fn' \in Early /\ UNCHANGED sent
        BY <2>1, <2>2, <3>1, <3>2 DEF InMain, Early, Transfers, Sends
      <4>2. QED
        BY <1>0, <1>1, <2>1, <3>2, <4>1 DEF StepCount, Early
    <3>3. CASE fn = "ReceiveSensorData"
      <4>1. fn' = "ControlStep" /\ UNCHANGED sent
        BY <2>2, <3>1, <3>3 DEF InMain
      <4>2. QED
        BY <1>0, <1>1, <2>1, <3>3, <4>1 DEF StepCount, Early, Done
    <3>4. CASE fn = "SendActuatorData"
      <4>1. fn' = "IsExperimentFinished" /\ sent' = (sent + 1) % Rounds /\ synced
        BY <1>0, <1>1, <2>2, <2>3, <3>1, <3>4 DEF InMain, MainPlace
      <4>2. QED
        BY <1>0, <1>1, <2>1, <3>4, <4>1 DEF StepCount, Early, Done
    <3>5. QED
      BY <2>1, <3>2, <3>3, <3>4 DEF Transfers, Sends, Early
  <2>4. CASE left # 1
    BY <1>0, <1>1, <2>1, <2>2, <2>4 DEF Moved, StepCount, Done
  <2>5. QED
    BY <2>3, <2>4
<1>12. CASE TransferFails \/ ResetPic30 \/ DestroySerial \/ DeleteController
  BY <1>0, <1>1, <1>2, <1>12 DEF TransferFails, ResetPic30, DestroySerial, DeleteController, Order, Early, Loop
<1>13. CASE SignalHandler \/ Pic \/ UNCHANGED boardVars
  BY <1>0, <1>1, <1>13 DEF SignalHandler, Pic, boardVars, StepCount, Done
<1>14. QED
  BY <1>4, <1>5, <1>6, <1>7, <1>8, <1>9, <1>10, <1>11, <1>12, <1>13 DEF BoardNext, Program, Terminated

LEMMA StepInvHolds == BoardSpec => []StepInv
<1>1. BoardInit => StepInv
  <2> SUFFICES ASSUME BoardInit
               PROVE  StepInv
    OBVIOUS
  <2>1. toPic \in Seq(ToParts) /\ fromPic \in Seq(FromParts)
    BY LinesAreSequences DEF BoardInit
  <2>a. 0 \in 0..Parts /\ 1 \in 1..Parts /\ 0 \in 0..Rounds - 1 /\ 0 \in Lengths \cup {0} /\ 0 \in 0..0
    BY BoardAssumption
  <2>b. TypeOK
    BY <2>1, <2>a DEF BoardInit, TypeOK, Functions, ToParts, FromParts
  <2>2. Order /\ MainPlace /\ StepCount
    BY DEF BoardInit, Order, MainPlace, StepCount, Early
  <2>3. QED
    BY <2>b, <2>2 DEF StepInv
<1>2. StepInv /\ [BoardNext]_boardVars => StepInv'
  BY TypeOKInductive, OrderInductive, MainPlaceInductive, StepCountInductive DEF StepInv
<1>3. QED
  BY <1>1, <1>2, PTL DEF BoardSpec

(* Every variable keeps its type, whatever fails and wherever a signal     *)
(* arrives: m_unExperimentStepsLeft, which is unsigned, never passes zero, *)
(* because the loop looks at it before every step.                         *)
THEOREM TypeCorrect == BoardSpec => []TypeOK
BY StepInvHolds, PTL DEF StepInv

(* An experiment that ends by itself has had the steps its length says:    *)
(* the first call of SyncControlStep counts none, and the command of every *)
(* counted step has been sent before the loop asks whether it is over.     *)
THEOREM StepsDoneHolds == BoardSpec => StepsDone
<1>1. ASSUME StepInv, IsExperimentFinished, phase' = "destroy", ~m_bGoHome
      PROVE  m_unExpDuration > 0 /\ sent = m_unExpDuration % Rounds
  <2>1. fn = "IsExperimentFinished"
    BY <1>1 DEF IsExperimentFinished
  <2>2. phase = "main" /\ Reset # "R"
    BY <1>1, <2>1 DEF StepInv, Order, Final, TypeOK, MainPlace
  <2>3. Finished
    BY <1>1, <2>2 DEF IsExperimentFinished, Continue
  <2>4. m_unExpDuration > 0 /\ m_unExperimentStepsLeft = 0
    BY <1>1, <2>2, <2>3 DEF Finished
  <2>5. Done = m_unExpDuration
    BY <1>1, <2>4, BoardAssumption DEF Done, StepInv, TypeOK, BoardAssumption
  <2>6. QED
    BY <1>1, <2>1, <2>2, <2>4, <2>5 DEF StepInv, StepCount
<1>2. QED
  BY <1>1, StepInvHolds, PTL DEF BoardSpec, StepsDone

-----------------------------------------------------------------------------
(* The conversation with the PIC, as long as no transfer broke it off. The *)
(* destructor finds the board in any state, and takes it to SEND or leaves *)
(* it where it was never woken up.                                         *)
DestroyPlace ==
  ~broken =>
    /\ phase = "destroy" =>
         /\ fn # "ResetPic30" => Reset = "R"
         /\ fn = "SendSensorConfiguration" => board = IF left = 0 THEN "WAKE_UP" ELSE "SENDING_CONFIGURATION"
         /\ fn = "ReceiveSensorData" => board \in {"SENDING_CONFIGURATION", "SEND"}
         /\ fn = "SendActuatorData" => board = "RECEIVE" \/ (left = 0 /\ board \in {"WAITING", "INITIALIZATION"})
         /\ fn \in {"DestroySerial", "delete"} => board \in {"WAITING", "INITIALIZATION", "SEND"}
    /\ phase = "over" => board \in {"WAITING", "INITIALIZATION", "SEND"}

(* Parts of the packet that passes now: those the program has still to     *)
(* send, those it has still to read, and those the PIC has still to hear.  *)
(* The symbol that wakes the PIC up counts as part Parts + 1 of the        *)
(* configuration that follows it.                                          *)
Asleep == {"WAITING", "INITIALIZATION", "WAKE_UP", "SENDING_CONFIGURATION"}
ToSend ==
  CASE board \in {"WAITING", "INITIALIZATION"} -> Parts + 1
    [] board = "WAKE_UP"               -> IF fn = "WakeUpPic" THEN Parts + 1 ELSE Parts
    [] board = "SENDING_CONFIGURATION" -> IF fn = "SendSensorConfiguration" THEN left ELSE 0
    [] board = "RECEIVE"               -> IF fn = "SendActuatorData" /\ left > 0 THEN left ELSE Parts
    [] OTHER                           -> 0
ToRead == IF fn = "ReceiveSensorData" /\ left > 0 THEN left ELSE Parts
ToHear == IF pic = "asleep" THEN Parts + 1 ELSE part
KindAt(i) == IF i = Parts + 1 THEN "WakeUpPic" ELSE "SendSensorConfiguration"
PartAt(i) == IF i = Parts + 1 THEN 1 ELSE i

Speaking == fn \notin {"DestroySerial", "delete"} /\ phase # "over"
Spoken   == fn \in {"DestroySerial", "delete", "none"}

(* The line holds what the program has sent and the PIC has not heard, or  *)
(* what the PIC has said and the program has not read, part by part.       *)
Starting ==
  /\ board \in Asleep /\ pic \in {"asleep", "configure"} /\ (pic = "asleep" => part = 1)
  /\ fromPic = <<>> /\ ToRead = Parts /\ acted = sent
  /\ Len(toPic) = ToHear - ToSend
  /\ \A i \in 1..Len(toPic) : /\ toPic[i].kind = KindAt(ToHear - i + 1)
                              /\ toPic[i].at = PartAt(ToHear - i + 1)
Sensing ==
  /\ board \in {"SENDING_CONFIGURATION", "SEND"}
  /\ Speaking /\ fn # "SendSensorConfiguration"
  /\ pic = "sense" \/ (pic = "act" /\ part = Parts)
  /\ toPic = <<>> /\ acted = sent
  /\ Len(fromPic) = ToRead - (IF pic = "sense" THEN part ELSE 0)
  /\ \A i \in 1..Len(fromPic) : fromPic[i].n = acted /\ fromPic[i].at = ToRead - i + 1
Acting ==
  /\ board \in {"RECEIVE", "SEND"} /\ pic = "act"
  /\ fromPic = <<>> /\ ToRead = Parts
  /\ Len(toPic) = part - ToSend
  /\ \A i \in 1..Len(toPic) : toPic[i].kind = "SendActuatorData" /\ toPic[i].at = part - i + 1
  /\ board = "RECEIVE" => acted = sent /\ \A i \in 1..Len(toPic) : toPic[i].reset = (Reset = "R")
  /\ board = "SEND" =>
       /\ sent = (acted + 1) % Rounds
       /\ \/ Spoken /\ \A i \in 1..Len(toPic) : toPic[i].reset
          \/ Speaking /\ \A i \in 1..Len(toPic) : ~toPic[i].reset
Resting ==
  board = "SEND" /\ pic = "asleep" /\ toPic = <<>> /\ fromPic = <<>> /\ Spoken

Conversation == ~broken => Starting \/ Sensing \/ Acting \/ Resting

LineInv == StepInv /\ DestroyPlace /\ Conversation

LEMMA DestroyPlaceInductive == LineInv /\ [BoardNext]_boardVars => DestroyPlace'
<1> SUFFICES ASSUME LineInv, [BoardNext]_boardVars, ~broken'
             PROVE  DestroyPlace'
  BY DEF DestroyPlace
<1>0. TypeOK /\ Order /\ MainPlace /\ DestroyPlace
  BY DEF LineInv, StepInv
<1>1. ~broken
  <2>1. UNCHANGED broken \/ broken' = (broken \/ left < Size \/ fn \in {"WakeUpPic", "SendSensorConfiguration"})
    BY DEF BoardNext, Program, OutOfSync, InitSerial, InitController, IsExperimentFinished, ControlStep,
           SyncControlStep, Begin, Write, Read, TransferFails, ResetPic30, DestroySerial,
           DeleteController, Pic, SignalHandler, Terminated, boardVars
  <2>2. QED
    BY <2>1
<1>2. Continue => left' = 0 /\ phase' = phase /\ fn' = Following(fn)
  BY DEF Continue
<1>3. CASE Throw \/ Abort \/ Fault
  BY <1>3, <1>1 DEF Throw, Abort, Fault, DestroyPlace
<1>4. CASE OutOfSync
  <2>1. fn \in {"WakeUpPic", "InitSerial"} \cup Transfers
    BY <1>4 DEF OutOfSync, InSync, Transfers, Sends
  <2>2. phase = "destroy" /\ fn = "SendActuatorData" /\ board \in {"WAITING", "INITIALIZATION"}
    BY <1>0, <1>1, <1>4, <2>1 DEF OutOfSync, InSync, MainPlace, DestroyPlace, Order, TypeOK, Transfers, Sends, Final
  <2>3. QED
    BY <1>0, <1>1, <1>2, <1>4, <2>2 DEF OutOfSync, DestroyPlace, Following, InDestructor
<1>5. CASE (InitSerial \/ InitController \/ ControlStep \/ SyncControlStep) /\ Continue
  <2>1. phase = "main"
    BY <1>0, <1>5 DEF InitSerial, InitController, ControlStep, SyncControlStep, Order, TypeOK, Final
  <2>2. QED
    BY <1>2, <1>5, <2>1 DEF DestroyPlace
<1>6. CASE IsExperimentFinished
  <2>1. phase = "main"
    BY <1>0, <1>6 DEF IsExperimentFinished, Order, TypeOK, Final
  <2>2. QED
    BY <1>2, <1>6, <2>1 DEF IsExperimentFinished, DestroyPlace
<1>7. CASE Begin
  <2>1. /\ fn \in Transfers /\ InSync /\ left = 0 /\ left' = Size /\ board' = Entering(fn)
        /\ UNCHANGED <<phase, fn, Reset, broken>>
    BY <1>7 DEF Begin
  <2>2. left' # 0
    BY <2>1, BoardAssumption DEF Size
  <2>3. CASE phase = "destroy"
    <3>1. fn \in {"SendSensorConfiguration", "ReceiveSensorData", "SendActuatorData"} /\ Reset = "R"
      BY <1>0, <1>1, <2>1, <2>3 DEF Order, Final, Transfers, Sends, DestroyPlace
    <3>2. QED
      BY <1>0, <1>1, <2>1, <2>2, <2>3, <3>1 DEF DestroyPlace, Entering, InSync
  <2>4. QED
    BY <1>0, <2>1, <2>3 DEF DestroyPlace, Order, Transfers, Sends
<1>8. CASE Write \/ Read
  <2>1. fn \in Transfers /\ left > 0 /\ Moved /\ UNCHANGED <<Reset, broken>>
    BY <1>8 DEF Write, Read, Transfers
  <2>2. CASE left = 1
    <3>1. phase' = phase /\ fn' = Following(fn) /\ board' = Leaving(fn) /\ left' = 0
      BY <1>2, <2>1, <2>2 DEF Moved
    <3>2. CASE phase = "destroy"
      BY <1>0, <1>1, <2>1, <2>2, <3>1, <3>2 DEF DestroyPlace, Following, InDestructor, Leaving, Transfers, Sends, Order, Final
    <3>3. QED
      BY <1>0, <2>1, <3>1, <3>2 DEF DestroyPlace, Order, Transfers, Sends
  <2>3. CASE left # 1
    BY <1>0, <1>1, <2>1, <2>3 DEF Moved, DestroyPlace, TypeOK, Order, Transfers, Sends
  <2>4. QED
    BY <2>2, <2>3
<1>9. CASE TransferFails
  BY <1>3, <1>9 DEF TransferFails
<1>10. CASE ResetPic30
  <2>1. phase = "destroy" /\ fn = "ResetPic30" /\ left = 0
    BY <1>0, <1>10, BoardAssumption DEF ResetPic30, Order, TypeOK, Early, Loop, Transfers, Sends
  <2>2. /\ Reset' = "R" /\ UNCHANGED board /\ phase' = "destroy" /\ fn' = InDestructor(fn) /\ left' = 0
    BY <1>2, <1>10, <2>1 DEF ResetPic30, Stopped, Following
  <2>3. QED
    BY <1>0, <2>1, <2>2 DEF DestroyPlace, InDestructor, TypeOK
<1>11. CASE DestroySerial
  <2>1. phase = "destroy" /\ fn = "DestroySerial"
    BY <1>0, <1>11 DEF DestroySerial, Order, TypeOK, Early, Loop
  <2>2. UNCHANGED <<Reset, board>> /\ phase' = "destroy" /\ fn' = "delete"
    BY <1>2, <1>11, <2>1 DEF DestroySerial, Following, InDestructor
  <2>3. QED
    BY <1>0, <1>1, <2>1, <2>2 DEF DestroyPlace
<1>12. CASE DeleteController
  <2>1. phase = "destroy" /\ fn = "delete"
    BY <1>0, <1>12 DEF DeleteController, Order, TypeOK, Early, Loop
  <2>2. UNCHANGED <<Reset, board>> /\ phase' \in {"over", "aborted"} /\ fn' = "none"
    BY <1>12 DEF DeleteController
  <2>3. QED
    BY <1>0, <1>1, <2>1, <2>2 DEF DestroyPlace
<1>13. CASE SignalHandler \/ Pic \/ UNCHANGED boardVars
  BY <1>0, <1>1, <1>13 DEF SignalHandler, Pic, boardVars, DestroyPlace
<1>14. QED
  BY <1>3, <1>4, <1>5, <1>6, <1>7, <1>8, <1>9, <1>10, <1>11, <1>12, <1>13
     DEF BoardNext, Program, Terminated, InitSerial, InitController, ControlStep, SyncControlStep

(* What taking the first part off a line and putting one on does to the    *)
(* others.                                                                 *)
LEMMA TailOfLine ==
  ASSUME NEW S, NEW s \in Seq(S), s # <<>>
  PROVE  /\ Len(s) \in Nat \ {0} /\ Head(s) = s[1] /\ 1 \in 1..Len(s)
         /\ Tail(s) \in Seq(S) /\ Len(Tail(s)) = Len(s) - 1
         /\ \A i \in 1..Len(Tail(s)) : i \in Nat /\ i + 1 \in 1..Len(s) /\ Tail(s)[i] = s[i + 1]
OBVIOUS

LEMMA EndOfLine ==
  ASSUME NEW S, NEW s \in Seq(S), NEW e \in S
  PROVE  /\ Len(s) \in Nat
         /\ Append(s, e) \in Seq(S) /\ Len(Append(s, e)) = Len(s) + 1
         /\ \A i \in 1..Len(s) + 1 : /\ i \in 1..Len(s) => Append(s, e)[i] = s[i]
                                     /\ i \notin 1..Len(s) => i = Len(s) + 1 /\ Append(s, e)[i] = e
OBVIOUS

LEMMA EmptyLine == Len(<<>>) = 0 /\ 1..0 = {} /\ \A S : \A s \in Seq(S) : Len(s) = 0 <=> s = <<>>
OBVIOUS

(* A step of the program that moves no part, in which the program neither  *)
(* begins to send nor stops to listen.                                     *)
LEMMA ConversationQuiet ==
  ASSUME Starting \/ Sensing \/ Acting \/ Resting,
         UNCHANGED <<lineVars, picVars, sent>>, ToSend' = ToSend, ToRead' = ToRead,
         board' = board \/ (board \in Asleep /\ board' \in Asleep /\ ~Sensing),
         Sensing \/ board = "SEND" => (Speaking => Speaking'),
         Sensing => fn' # "SendSensorConfiguration",
         Spoken => Spoken',
         board = "RECEIVE" => Reset' = Reset \/ toPic = <<>>
  PROVE  Starting' \/ Sensing' \/ Acting' \/ Resting'
<1> UNCHANGED ToHear
  BY DEF ToHear
<1>1. CASE Starting
  <2>1. Starting'
    BY <1>1 DEF Starting, KindAt, PartAt, Sensing, Asleep
  <2>2. QED
    BY <2>1
<1>2. CASE Sensing
  BY <1>2 DEF Sensing
<1>3. CASE Acting
  <2>1. board' = board
    BY <1>3 DEF Acting, Asleep
  <2>2. board = "RECEIVE" => \A i \in 1..Len(toPic) : toPic[i].reset = (Reset' = "R")
    BY <1>3, EmptyLine DEF Acting
  <2>3. Acting'
    BY <1>3, <2>1, <2>2 DEF Acting
  <2>4. QED
    BY <2>3
<1>4. CASE Resting
  BY <1>4 DEF Resting, Asleep
<1>5. QED
  BY <1>1, <1>2, <1>3, <1>4

(* The steps of the program.                                               *)
LEMMA ProgramKeepsConversation ==
  ASSUME LineInv, Program, ~broken'
  PROVE  Starting' \/ Sensing' \/ Acting' \/ Resting'
<1>0. TypeOK /\ Order /\ MainPlace /\ DestroyPlace
  BY DEF LineInv, StepInv
<1>1. ~broken
  <2>1. UNCHANGED broken \/ broken' = (broken \/ left < Size \/ fn \in {"WakeUpPic", "SendSensorConfiguration"})
    BY DEF Program, OutOfSync, InitSerial, InitController, IsExperimentFinished, ControlStep,
           SyncControlStep, Begin, Write, Read, TransferFails, ResetPic30, DestroySerial, DeleteController
  <2>2. QED
    BY <2>1
<1>2. Starting \/ Sensing \/ Acting \/ Resting
  BY <1>1 DEF LineInv, Conversation
<1>3. Continue => left' = 0 /\ phase' = phase /\ fn' = Following(fn)
  BY DEF Continue
<1>4. Parts \in Nat \ {0} /\ left \in 0..Parts /\ part \in 1..Parts
  BY <1>0, BoardAssumption DEF TypeOK
<1>5. toPic \in Seq(ToParts) /\ fromPic \in Seq(FromParts)
  BY <1>0 DEF TypeOK, ToParts, FromParts
<1>6. CASE OutOfSync
  <2>1. fn \in {"WakeUpPic", "InitSerial"} \cup Transfers
    BY <1>6 DEF OutOfSync, InSync, Transfers, Sends
  <2>2. phase = "destroy" /\ fn = "SendActuatorData" /\ board \in {"WAITING", "INITIALIZATION"}
    BY <1>0, <1>1, <1>6, <2>1 DEF OutOfSync, InSync, MainPlace, DestroyPlace, Order, TypeOK, Transfers, Sends, Final
  <2>3. /\ fn' = "DestroySerial" /\ UNCHANGED <<lineVars, picVars, sent, board>>
    BY <1>3, <1>6, <2>2 DEF OutOfSync, Following, InDestructor
  <2>4. ToSend' = ToSend /\ ToRead' = ToRead
    BY <2>2, <2>3 DEF ToSend, ToRead
  <2>5. QED
    BY <1>2, <2>2, <2>3, <2>4, ConversationQuiet DEF Sensing, Spoken
<1>7. CASE InitSerial
  <2>1. fn = "InitSerial" /\ board = "WAITING" /\ board' = "INITIALIZATION" /\ UNCHANGED <<toPic, picVars, sent>>
    BY <1>7 DEF InitSerial, InSync
  <2>2. Starting /\ ~Sensing
    BY <1>2, <2>1 DEF Sensing, Acting, Resting
  <2>3. UNCHANGED lineVars
    BY <1>7, <2>2 DEF InitSerial, Starting
  <2>4. phase = "main"
    BY <1>0, <2>1 DEF Order, Final, TypeOK
  <2>5. fn' \in {"WakeUpPic", "ResetPic30"}
    BY <1>3, <1>7, <2>1, <2>4 DEF InitSerial, Throw, Following, InMain
  <2>6. ToSend' = ToSend /\ ToRead' = ToRead
    BY <2>1, <2>5 DEF ToSend, ToRead
  <2>7. board \in Asleep /\ board' \in Asleep /\ ~Spoken
    BY <2>1 DEF Asleep, Spoken
  <2>8. QED
    BY <1>2, <2>1, <2>2, <2>3, <2>6, <2>7, ConversationQuiet
<1>8. CASE InitController \/ ControlStep \/ SyncControlStep \/ IsExperimentFinished \/ ResetPic30
  <2>1. /\ fn \in {"InitController", "ControlStep", "SyncControlStep", "IsExperimentFinished", "ResetPic30"}
        /\ UNCHANGED <<board, sent, lineVars, picVars>>
        /\ fn # "ResetPic30" => UNCHANGED Reset
    BY <1>8 DEF InitController, ControlStep, SyncControlStep, IsExperimentFinished, ResetPic30
  <2>2. left = 0 /\ phase \in {"main", "destroy"}
    BY <1>0, <1>4, <2>1 DEF Order, TypeOK, Transfers, Sends
  <2>3. /\ left' = 0 /\ phase' \in {"main", "destroy", "aborted", "faulting"}
        /\ fn' \in {"SendSensorConfiguration", "SendActuatorData", "ReceiveSensorData", "ControlStep",
                    "SyncControlStep", "IsExperimentFinished", "ResetPic30", "none"}
        /\ fn' = "SendSensorConfiguration" => board = "WAKE_UP"
    <3>1. CASE Continue
      <4>1. CASE phase = "main"
        BY <1>0, <1>3, <2>1, <3>1, <4>1 DEF Following, InMain, Order, Early, Loop
      <4>2. CASE phase = "destroy"
        BY <1>0, <1>3, <2>1, <2>2, <3>1, <4>2 DEF Following, InDestructor, Order, Final
      <4>3. QED
        BY <2>2, <4>1, <4>2
    <3>2. CASE ~Continue
      <4>1. phase = "main"
        BY <1>0, <1>8, <2>1, <2>2, <3>2 DEF InitController, ControlStep, SyncControlStep, IsExperimentFinished, ResetPic30,
                                         Order, Final
      <4>2. QED
        BY <1>8, <3>2, <4>1 DEF InitController, ControlStep, SyncControlStep, IsExperimentFinished, ResetPic30,
                                Throw, Abort, Fault
    <3>3. QED
      BY <3>1, <3>2
  <2>4. ToSend' = ToSend /\ ToRead' = ToRead
    BY <1>4, <2>1, <2>2, <2>3 DEF ToSend, ToRead
  <2>5. Speaking' /\ ~Spoken /\ (Sensing => fn' # "SendSensorConfiguration")
    BY <2>1, <2>2, <2>3 DEF Speaking, Spoken, Sensing
  <2>6. board = "RECEIVE" => toPic = <<>>
    <3>1. SUFFICES ASSUME board = "RECEIVE"
                   PROVE  toPic = <<>>
      OBVIOUS
    <3>2. Acting /\ ToSend = Parts
      BY <1>2, <2>2, <3>1 DEF Starting, Sensing, Resting, Asleep, ToSend
    <3>3. Len(toPic) = 0
      BY <1>4, <1>5, <3>2 DEF Acting
    <3>4. QED
      BY <1>5, <3>3, EmptyLine
  <2>7. QED
    BY <1>2, <2>1, <2>4, <2>5, <2>6, ConversationQuiet
<1>9. CASE Begin
  <2>1. /\ fn \in Transfers /\ left = 0 /\ InSync /\ left' = Size /\ board' = Entering(fn)
        /\ UNCHANGED <<phase, fn, Reset, sent, lineVars, picVars>>
    BY <1>9 DEF Begin
  <2>2. ToSend' = ToSend /\ ToRead' = ToRead
    BY <1>4, <2>1 DEF ToSend, ToRead, Size, Transfers, Sends, InSync, Entering
  <2>3. board' = board \/ (board \in Asleep /\ board' \in Asleep /\ ~Sensing)
    BY <2>1 DEF Transfers, Sends, InSync, Entering, Asleep, Sensing
  <2>4. (Speaking => Speaking') /\ (Spoken => Spoken') /\ (Sensing => fn' # "SendSensorConfiguration")
    BY <2>1 DEF Speaking, Spoken, Sensing
  <2>5. QED
    BY <1>2, <2>1, <2>2, <2>3, <2>4, ConversationQuiet
<1>10. CASE Write
  <2>1. /\ fn \in Sends /\ left > 0 /\ toPic' = Append(toPic, Packet) /\ Moved
        /\ sent' = IF fn = "SendActuatorData" /\ left = 1 THEN (sent + 1) % Rounds ELSE sent
        /\ UNCHANGED <<Reset, fromPic, picVars>>
    BY <1>10 DEF Write
  <2>2. Packet \in ToParts
    BY <1>0, <1>4, <2>1 DEF Packet, ToParts
  <2>3. /\ Len(toPic) \in Nat /\ Len(toPic') = Len(toPic) + 1
        /\ \A i \in 1..Len(toPic) + 1 : /\ i \in 1..Len(toPic) => toPic'[i] = toPic[i]
                                        /\ i \notin 1..Len(toPic) => i = Len(toPic) + 1 /\ toPic'[i] = Packet
    BY <1>5, <2>1, <2>2, EndOfLine
  <2>4. left = 1 => left' = 0 /\ phase' = phase /\ fn' = Following(fn) /\ board' = Leaving(fn)
    BY <1>3, <2>1 DEF Moved
  <2>5. left # 1 => left' = left - 1 /\ left - 1 > 0 /\ UNCHANGED <<phase, fn, board>>
    BY <1>4, <2>1 DEF Moved
  <2>6. CASE fn \in {"WakeUpPic", "SendSensorConfiguration"}
    <3>1. /\ board \in {"WAKE_UP", "SENDING_CONFIGURATION"} /\ UNCHANGED <<board, sent>>
          /\ fn = "WakeUpPic" => board = "WAKE_UP" /\ left = 1
          /\ fn = "SendSensorConfiguration" => board = "SENDING_CONFIGURATION"
          /\ phase \in {"main", "destroy"}
      BY <1>0, <1>1, <1>4, <2>1, <2>4, <2>5, <2>6 DEF MainPlace, DestroyPlace, Order, TypeOK, Final, Leaving
    <3>2. left = 1 => fn' = IF fn = "WakeUpPic" THEN "SendSensorConfiguration"
                            ELSE IF phase = "main" THEN "InitController" ELSE "ReceiveSensorData"
      BY <1>0, <2>4, <2>6, <3>1 DEF Following, InMain, InDestructor, Order, Final
    <3>3. ToSend \in Nat \ {0} /\ ToSend' = ToSend - 1 /\ ToRead' = Parts
          /\ Packet.kind = KindAt(ToSend) /\ Packet.at = PartAt(ToSend)
      <4>1. CASE fn = "WakeUpPic"
        BY <1>4, <2>1, <2>4, <3>1, <3>2, <4>1 DEF ToSend, ToRead, Packet, KindAt, PartAt
      <4>2. CASE fn = "SendSensorConfiguration"
        BY <1>4, <2>1, <2>4, <2>5, <3>1, <3>2, <4>2 DEF ToSend, ToRead, Packet, KindAt, PartAt
      <4>3. QED
        BY <2>6, <4>1, <4>2
    <3>4. Starting
      BY <1>2, <2>6, <3>1 DEF Sensing, Acting, Resting
    <3>5. UNCHANGED ToHear /\ ToHear \in Nat
      BY <1>4, <2>1 DEF ToHear
    <3>6. Len(toPic') = ToHear' - ToSend'
      BY <2>3, <3>3, <3>4, <3>5 DEF Starting
    <3>7. ASSUME NEW i \in 1..Len(toPic')
          PROVE  toPic'[i].kind = KindAt(ToHear - i + 1) /\ toPic'[i].at = PartAt(ToHear - i + 1)
      <4>1. CASE i \in 1..Len(toPic)
        BY <2>3, <3>4, <4>1 DEF Starting
      <4>2. CASE i \notin 1..Len(toPic)
        <5>1. i = Len(toPic) + 1 /\ toPic'[i] = Packet
          BY <2>3, <4>2
        <5>2. ToHear - i + 1 = ToSend
          BY <2>3, <3>3, <3>4, <3>5, <5>1 DEF Starting
        <5>3. QED
          BY <3>3, <5>1, <5>2
      <4>3. QED
        BY <4>1, <4>2
    <3>8. Starting'
      BY <2>1, <3>1, <3>3, <3>4, <3>5, <3>6, <3>7 DEF Starting, Asleep, KindAt, PartAt
    <3>9. QED
      BY <3>8
  <2>7. CASE fn = "SendActuatorData"
    <3>1. board = "RECEIVE" /\ phase \in {"main", "destroy"} /\ (Reset = "R" <=> phase = "destroy")
      BY <1>0, <1>1, <1>4, <2>1, <2>7 DEF MainPlace, DestroyPlace, Order, TypeOK
    <3>2. Acting /\ ToSend = left
      BY <1>2, <2>1, <2>7, <3>1 DEF Starting, Sensing, Resting, Asleep, ToSend
    <3>3. ToSend' = left - 1 /\ ToRead' = Parts
      BY <1>4, <2>1, <2>4, <2>5, <2>7, <3>1 DEF ToSend, ToRead, Leaving, Following, InMain, InDestructor
    <3>4. Len(toPic') = part' - ToSend'
      BY <1>4, <2>1, <2>3, <3>2, <3>3 DEF Acting
    <3>5. ASSUME NEW i \in 1..Len(toPic')
          PROVE  /\ toPic'[i].kind = "SendActuatorData" /\ toPic'[i].at = part - i + 1
                 /\ toPic'[i].reset = (Reset = "R")
      <4>1. CASE i \in 1..Len(toPic)
        BY <2>3, <3>1, <3>2, <4>1 DEF Acting
      <4>2. CASE i \notin 1..Len(toPic)
        <5>1. i = Len(toPic) + 1 /\ toPic'[i] = Packet
          BY <2>3, <4>2
        <5>2. part - i + 1 = left
          BY <1>4, <2>3, <3>2, <5>1 DEF Acting
        <5>3. Packet.kind = "SendActuatorData" /\ Packet.at = left /\ Packet.reset = (Reset = "R")
          BY <2>7 DEF Packet
        <5>4. QED
          BY <5>1, <5>2, <5>3
      <4>3. QED
        BY <4>1, <4>2
    <3>6. CASE left # 1
      <4>1. Acting'
        BY <2>1, <2>5, <2>7, <3>1, <3>2, <3>3, <3>4, <3>5, <3>6 DEF Acting
      <4>2. QED
        BY <4>1
    <3>7. CASE left = 1
      <4>1. board' = "SEND" /\ sent' = (acted + 1) % Rounds /\ phase' = phase
        BY <2>1, <2>4, <2>7, <3>1, <3>2, <3>7 DEF Acting, Leaving
      <4>2. fn' = IF phase = "main" THEN "IsExperimentFinished" ELSE "DestroySerial"
        BY <1>0, <1>4, <2>4, <2>7, <3>1, <3>7 DEF Following, InMain, InDestructor, MainPlace
      <4>3. IF phase = "main" THEN Speaking' ELSE Spoken'
        BY <3>1, <4>1, <4>2 DEF Speaking, Spoken
      <4>4. \A i \in 1..Len(toPic') : IF phase = "main" THEN ~toPic'[i].reset ELSE toPic'[i].reset
        BY <3>1, <3>5
      <4>5. \/ Spoken' /\ \A i \in 1..Len(toPic') : toPic'[i].reset
            \/ Speaking' /\ \A i \in 1..Len(toPic') : ~toPic'[i].reset
        BY <4>3, <4>4
      <4>6. Acting'
        BY <2>1, <3>2, <3>3, <3>4, <3>5, <4>1, <4>5 DEF Acting
      <4>7. QED
        BY <4>6
    <3>8. QED
      BY <3>6, <3>7
  <2>8. QED
    BY <2>1, <2>6, <2>7 DEF Sends
<1>11. CASE Read
  <2>1. /\ fn = "ReceiveSensorData" /\ left > 0 /\ fromPic # <<>> /\ fromPic' = Tail(fromPic) /\ Moved
        /\ UNCHANGED <<Reset, sent, toPic, picVars>>
    BY <1>11 DEF Read
  <2>2. Sensing /\ ToRead = left
    BY <1>2, <2>1 DEF Starting, Acting, Resting, ToRead
  <2>3. /\ Len(fromPic) \in Nat \ {0} /\ Len(fromPic') = Len(fromPic) - 1
        /\ \A i \in 1..Len(fromPic') : i \in Nat /\ i + 1 \in 1..Len(fromPic) /\ fromPic'[i] = fromPic[i + 1]
        /\ fromPic' \in Seq(FromParts)
    BY <1>5, <2>1, TailOfLine
  <2>4. CASE left # 1
    <3>1. left' = left - 1 /\ left - 1 > 0 /\ UNCHANGED <<phase, fn, board>>
      BY <1>4, <2>1, <2>4 DEF Moved
    <3>2. ToRead' = left - 1
      BY <2>1, <3>1 DEF ToRead
    <3>3. Len(fromPic') = ToRead' - (IF pic = "sense" THEN part ELSE 0)
      BY <1>4, <2>2, <2>3, <3>2 DEF Sensing
    <3>4. ASSUME NEW i \in 1..Len(fromPic')
          PROVE  fromPic'[i].n = acted /\ fromPic'[i].at = ToRead' - i + 1
      <4>1. i \in Nat /\ i + 1 \in 1..Len(fromPic) /\ fromPic'[i] = fromPic[i + 1]
        BY <2>3
      <4>2. fromPic[i + 1].n = acted /\ fromPic[i + 1].at = left - (i + 1) + 1
        BY <2>2, <4>1 DEF Sensing
      <4>3. left - (i + 1) + 1 = (left - 1) - i + 1
        BY <1>4, <4>1
      <4>4. QED
        BY <3>2, <4>1, <4>2, <4>3
    <3>5. Sensing'
      BY <2>1, <2>2, <3>1, <3>3, <3>4 DEF Sensing, Speaking
    <3>6. QED
      BY <3>5
  <2>5. CASE left = 1
    <3>1. left' = 0 /\ phase' = phase /\ fn' = Following(fn) /\ board' = "RECEIVE"
      BY <1>3, <2>1, <2>5 DEF Moved, Leaving
    <3>2. pic = "act" /\ part = Parts /\ Len(fromPic) = 1
      BY <1>4, <2>2, <2>3, <2>5 DEF Sensing
    <3>3. fromPic' = <<>>
      BY <2>3, <3>2, EmptyLine
    <3>4. ToRead' = Parts /\ ToSend' = Parts
      BY <3>1 DEF ToRead, ToSend
    <3>5. Acting'
      BY <1>4, <2>1, <2>2, <3>1, <3>2, <3>3, <3>4, EmptyLine DEF Acting, Sensing
    <3>6. QED
      BY <3>5
  <2>6. QED
    BY <2>4, <2>5
<1>12. CASE TransferFails
  <2>1. /\ left > 0 /\ fn \in {"ReceiveSensorData", "SendActuatorData"} /\ left = Parts /\ Throw
        /\ UNCHANGED <<board, Reset, sent, lineVars, picVars>>
    <3>1. /\ left > 0 /\ fn \in Transfers /\ Throw
          /\ ~(left < Size) /\ fn \notin {"WakeUpPic", "SendSensorConfiguration"}
          /\ UNCHANGED <<board, Reset, sent, lineVars, picVars>>
      BY <1>1, <1>12 DEF TransferFails, Transfers
    <3>2. Size = Parts
      BY <3>1 DEF Size
    <3>3. left = Parts
      BY <1>4, <3>1, <3>2
    <3>4. QED
      BY <3>1, <3>3 DEF Transfers, Sends
  <2>2. left' = 0 /\ fn' \in {"none", "ResetPic30"} /\ phase' \in {"aborted", "destroy"}
    BY <2>1 DEF Throw
  <2>3. fn = "ReceiveSensorData" => board \in {"SENDING_CONFIGURATION", "SEND"}
    BY <1>0, <1>1, <2>1 DEF Order, TypeOK, MainPlace, DestroyPlace
  <2>4. fn = "SendActuatorData" => board = "RECEIVE"
    BY <1>0, <1>1, <1>4, <2>1 DEF Order, TypeOK, MainPlace, DestroyPlace
  <2>5. ToSend' = ToSend /\ ToRead' = ToRead
    BY <1>4, <2>1, <2>2, <2>3, <2>4 DEF ToSend, ToRead
  <2>6. Speaking' /\ ~Spoken /\ fn' # "SendSensorConfiguration"
    BY <2>1, <2>2 DEF Speaking, Spoken
  <2>7. QED
    BY <1>2, <2>1, <2>5, <2>6, ConversationQuiet
<1>13. CASE DestroySerial \/ DeleteController
  <2>1. /\ fn \in {"DestroySerial", "delete"} /\ fn' \in {"delete", "none"}
        /\ left = 0 /\ left' = 0 /\ UNCHANGED <<board, Reset, sent, toPic, picVars>>
        /\ board \in {"WAITING", "INITIALIZATION", "SEND"}
    <3>1. fn \in {"DestroySerial", "delete"} /\ phase = "destroy" /\ left = 0
      BY <1>0, <1>4, <1>13, SMTT(40) DEF DestroySerial, DeleteController, Order, TypeOK, Early, Loop, Transfers, Sends
    <3>2. QED
      BY <1>0, <1>1, <1>3, <1>13, <3>1 DEF DestroySerial, DeleteController, DestroyPlace, Following, InDestructor
  <2>2. ~Sensing /\ Spoken /\ ~Speaking /\ Spoken'
    BY <2>1 DEF Sensing, Speaking, Spoken
  <2>3. fromPic = <<>>
    BY <1>2, <2>2 DEF Starting, Acting, Resting
  <2>4. UNCHANGED lineVars
    BY <1>13, <2>1, <2>3 DEF DestroySerial, DeleteController
  <2>5. ToSend' = ToSend /\ ToRead' = ToRead
    BY <2>1 DEF ToSend, ToRead
  <2>6. QED
    BY <1>2, <2>1, <2>2, <2>4, <2>5, ConversationQuiet
<1>14. QED
  BY <1>6, <1>7, <1>8, <1>9, <1>10, <1>11, <1>12, <1>13 DEF Program

(* The steps of the PIC, which the program does not see.                   *)
LEMMA PicKeepsConversation ==
  ASSUME LineInv, Pic, ~broken'
  PROVE  Starting' \/ Sensing' \/ Acting' \/ Resting'
<1>0. TypeOK /\ Order /\ MainPlace /\ DestroyPlace
  BY DEF LineInv, StepInv
<1>1. UNCHANGED programVars /\ ~broken
  BY DEF Pic
<1>2. Starting \/ Sensing \/ Acting \/ Resting
  BY <1>1 DEF LineInv, Conversation
<1>3. Parts \in Nat \ {0} /\ left \in 0..Parts /\ part \in 1..Parts
  BY <1>0, BoardAssumption DEF TypeOK
<1>4. toPic \in Seq(ToParts) /\ fromPic \in Seq(FromParts)
  BY <1>0 DEF TypeOK, ToParts, FromParts
<1>5. ToSend' = ToSend /\ ToRead' = ToRead /\ (Speaking => Speaking') /\ (Spoken => Spoken')
  BY <1>1 DEF ToSend, ToRead, Speaking, Spoken
<1>6. ToSend \in 0..Parts + 1
  BY <1>3 DEF ToSend
<1>7. CASE PicWakes \/ PicConfigures
  <2>1. toPic # <<>> /\ toPic' = Tail(toPic) /\ pic \in {"asleep", "configure"} /\ UNCHANGED <<fromPic, acted>>
    BY <1>7 DEF PicWakes, PicConfigures
  <2>2. Starting
    BY <1>2, <2>1 DEF Sensing, Acting, Resting
  <2>3. /\ Len(toPic) \in Nat \ {0} /\ Len(toPic') = Len(toPic) - 1
        /\ \A i \in 1..Len(toPic') : i \in Nat /\ i + 1 \in 1..Len(toPic) /\ toPic'[i] = toPic[i + 1]
        /\ toPic' \in Seq(ToParts)
    BY <1>4, <2>1, TailOfLine
  <2>4. CASE PicWakes \/ part # 1
    <3>1. pic' = "configure" /\ part' = ToHear - 1 /\ ToHear' = ToHear - 1 /\ ToHear \in Nat
      <4>1. CASE PicWakes
        BY <1>3, <4>1 DEF PicWakes, ToHear
      <4>2. CASE PicConfigures /\ part # 1
        BY <1>3, <4>2 DEF PicConfigures, ToHear
      <4>3. QED
        BY <1>7, <2>4, <4>1, <4>2
    <3>2. Len(toPic') = ToHear' - ToSend'
      BY <1>5, <1>6, <2>2, <2>3, <3>1 DEF Starting
    <3>3. ASSUME NEW i \in 1..Len(toPic')
          PROVE  toPic'[i].kind = KindAt(ToHear' - i + 1) /\ toPic'[i].at = PartAt(ToHear' - i + 1)
      <4>1. i \in Nat /\ i + 1 \in 1..Len(toPic) /\ toPic'[i] = toPic[i + 1]
        BY <2>3
      <4>2. ToHear - (i + 1) + 1 = (ToHear - 1) - i + 1
        BY <3>1, <4>1
      <4>3. /\ toPic[i + 1].kind = KindAt(ToHear - (i + 1) + 1)
            /\ toPic[i + 1].at = PartAt(ToHear - (i + 1) + 1)
        BY <2>2, <4>1 DEF Starting
      <4>4. QED
        BY <3>1, <4>1, <4>2, <4>3
    <3>4. Starting'
      BY <1>1, <1>5, <2>1, <2>2, <3>1, <3>2, <3>3 DEF Starting, KindAt, PartAt
    <3>5. QED
      BY <3>4
  <2>5. CASE PicConfigures /\ part = 1
    <3>1. pic = "configure" /\ pic' = "sense" /\ part' = Parts
      BY <2>5 DEF PicConfigures
    <3>2. ToHear = 1 /\ ToSend = 0 /\ Len(toPic) = 1
      BY <1>3, <1>6, <2>2, <2>3, <2>5, <3>1 DEF Starting, ToHear
    <3>3. toPic' = <<>>
      BY <2>3, <3>2, EmptyLine
    <3>4. board = "SENDING_CONFIGURATION" /\ fn # "SendSensorConfiguration"
      BY <1>0, <1>1, <1>3, <2>2, <3>2 DEF ToSend, Starting, Asleep, MainPlace, DestroyPlace, Order, TypeOK
    <3>5. Speaking
      BY <1>0, <1>1, <3>4 DEF Speaking, DestroyPlace, Order, TypeOK, Early, Loop
    <3>6. Len(fromPic') = ToRead' - part'
      BY <1>3, <1>5, <2>1, <2>2, <3>1, EmptyLine DEF Starting
    <3>7. Sensing'
      BY <1>1, <1>5, <2>1, <2>2, <3>1, <3>3, <3>4, <3>5, <3>6, EmptyLine DEF Sensing, Starting
    <3>8. QED
      BY <3>7
  <2>6. QED
    BY <1>7, <2>4, <2>5
<1>8. CASE PicSenses
  <2>1. pic = "sense" /\ fromPic' = Append(fromPic, [n |-> acted, at |-> part]) /\ UNCHANGED <<toPic, acted>>
    BY <1>8 DEF PicSenses
  <2>2. Sensing
    BY <1>2, <2>1 DEF Starting, Acting, Resting
  <2>3. [n |-> acted, at |-> part] \in FromParts
    BY <1>0 DEF FromParts, TypeOK
  <2>4. /\ Len(fromPic) \in Nat /\ Len(fromPic') = Len(fromPic) + 1
        /\ \A i \in 1..Len(fromPic) + 1 :
             /\ i \in 1..Len(fromPic) => fromPic'[i] = fromPic[i]
             /\ i \notin 1..Len(fromPic) => i = Len(fromPic) + 1 /\ fromPic'[i] = [n |-> acted, at |-> part]
    BY <1>4, <2>1, <2>3, EndOfLine
  <2>5. /\ pic' = "sense" => part' = part - 1
        /\ pic' # "sense" => pic' = "act" /\ part' = Parts /\ part = 1
    BY <1>3, <1>8 DEF PicSenses
  <2>6. ToRead \in Nat
    BY <1>3 DEF ToRead
  <2>7. Len(fromPic') = ToRead' - (IF pic' = "sense" THEN part' ELSE 0)
    BY <1>3, <1>5, <2>1, <2>2, <2>4, <2>5, <2>6 DEF Sensing
  <2>8. ASSUME NEW i \in 1..Len(fromPic')
        PROVE  fromPic'[i].n = acted' /\ fromPic'[i].at = ToRead' - i + 1
    <3>1. CASE i \in 1..Len(fromPic)
      BY <1>5, <2>1, <2>2, <2>4, <3>1 DEF Sensing
    <3>2. CASE i \notin 1..Len(fromPic)
      <4>1. i = Len(fromPic) + 1 /\ fromPic'[i] = [n |-> acted, at |-> part]
        BY <2>4, <3>2
      <4>2. ToRead - i + 1 = part
        BY <1>3, <2>1, <2>2, <2>4, <2>6, <4>1, SMTT(40) DEF Sensing
      <4>3. QED
        BY <1>5, <2>1, <4>1, <4>2
    <3>3. QED
      BY <3>1, <3>2
  <2>9. Sensing'
    BY <1>1, <1>5, <2>1, <2>2, <2>5, <2>7, <2>8 DEF Sensing
  <2>10. QED
    BY <2>9
<1>9. CASE PicActs
  <2>1. pic = "act" /\ toPic # <<>> /\ toPic' = Tail(toPic) /\ UNCHANGED fromPic
    BY <1>9 DEF PicActs
  <2>2. Acting
    BY <1>2, <2>1 DEF Starting, Sensing, Resting
  <2>3. /\ Len(toPic) \in Nat \ {0} /\ Len(toPic') = Len(toPic) - 1 /\ Head(toPic) = toPic[1] /\ 1 \in 1..Len(toPic)
        /\ \A i \in 1..Len(toPic') : i \in Nat /\ i + 1 \in 1..Len(toPic) /\ toPic'[i] = toPic[i + 1]
        /\ toPic' \in Seq(ToParts)
    BY <1>4, <2>1, TailOfLine
  <2>4. CASE part > 1
    <3>1. part' = part - 1 /\ UNCHANGED <<pic, acted>>
      BY <1>9, <2>4 DEF PicActs
    <3>2. Len(toPic') = part' - ToSend'
      BY <1>3, <1>5, <1>6, <2>2, <2>3, <3>1 DEF Acting
    <3>3. ASSUME NEW i \in 1..Len(toPic')
          PROVE  toPic'[i].kind = "SendActuatorData" /\ toPic'[i].at = part' - i + 1
      <4>1. i \in Nat /\ i + 1 \in 1..Len(toPic) /\ toPic'[i] = toPic[i + 1]
        BY <2>3
      <4>2. part - (i + 1) + 1 = (part - 1) - i + 1
        BY <1>3, <4>1
      <4>3. QED
        BY <2>2, <3>1, <4>1, <4>2 DEF Acting
    <3>4. Acting'
      BY <1>1, <1>5, <2>1, <2>2, <2>3, <3>1, <3>2, <3>3 DEF Acting
    <3>5. QED
      BY <3>4
  <2>5. CASE ~(part > 1)
    <3>1. ToSend = 0 /\ Len(toPic) = 1
      BY <1>3, <1>6, <2>2, <2>3, <2>5 DEF Acting
    <3>2. board = "SEND"
      BY <1>3, <2>2, <3>1 DEF Acting, ToSend
    <3>3. toPic' = <<>>
      BY <2>3, <3>1, EmptyLine
    <3>4. acted' = sent' /\ pic' \in {"asleep", "sense"} /\ (pic' = "asleep" <=> Head(toPic).reset)
          /\ (pic' = "sense" => part' = Parts)
      BY <1>1, <1>9, <2>2, <2>5, <3>2 DEF PicActs, Acting
    <3>5. CASE Head(toPic).reset
      <4>1. Spoken
        BY <2>2, <2>3, <3>2, <3>5 DEF Acting
      <4>2. Resting'
        BY <1>1, <1>5, <2>1, <2>2, <3>2, <3>3, <3>4, <3>5, <4>1 DEF Resting, Acting
      <4>3. QED
        BY <4>2
    <3>6. CASE ~Head(toPic).reset
      <4>1. Speaking /\ fn # "SendSensorConfiguration"
        BY <1>0, <1>1, <2>2, <2>3, <3>2, <3>6 DEF Acting, MainPlace, DestroyPlace, Order, TypeOK
      <4>2. Len(fromPic') = ToRead' - part'
        BY <1>3, <1>5, <2>1, <2>2, <3>4, <3>6, EmptyLine DEF Acting
      <4>3. Sensing'
        BY <1>1, <1>5, <2>1, <2>2, <3>2, <3>3, <3>4, <3>6, <4>1, <4>2, EmptyLine DEF Sensing, Acting
      <4>4. QED
        BY <4>3
    <3>7. QED
      BY <3>5, <3>6
  <2>6. QED
    BY <2>4, <2>5
<1>10. QED
  BY <1>7, <1>8, <1>9 DEF Pic

LEMMA LineInvHolds == BoardSpec => []LineInv
<1>1. BoardInit => DestroyPlace /\ Conversation
  <2> SUFFICES ASSUME BoardInit
               PROVE  DestroyPlace /\ Conversation
    OBVIOUS
  <2>1. DestroyPlace
    BY DEF BoardInit, DestroyPlace
  <2>2. ToSend = Parts + 1 /\ ToHear = Parts + 1 /\ ToRead = Parts
    BY DEF BoardInit, ToSend, ToHear, ToRead
  <2>3. Starting
    BY <2>2, EmptyLine, BoardAssumption DEF BoardInit, Starting, Asleep
  <2>4. QED
    BY <2>1, <2>3 DEF Conversation
<1>2. LineInv /\ StepInv' /\ [BoardNext]_boardVars => LineInv'
  <2> SUFFICES ASSUME LineInv, StepInv', [BoardNext]_boardVars
               PROVE  LineInv'
    OBVIOUS
  <2>1. CASE Program
    BY <2>1, ProgramKeepsConversation, DestroyPlaceInductive DEF LineInv, Conversation
  <2>2. CASE Pic
    BY <2>2, PicKeepsConversation, DestroyPlaceInductive DEF LineInv, Conversation
  <2>3. CASE SignalHandler \/ UNCHANGED boardVars
    <3>1. UNCHANGED <<phase, fn, left, board, Reset, sent, lineVars, picVars, broken>>
      BY <2>3 DEF SignalHandler, boardVars
    <3>2. Conversation'
      <4>1. UNCHANGED <<ToSend, ToRead, ToHear, Speaking, Spoken>>
        BY <3>1 DEF ToSend, ToRead, ToHear, Speaking, Spoken
      <4>2. UNCHANGED <<Starting, Sensing, Acting, Resting>>
        BY <3>1, <4>1 DEF Starting, Sensing, Acting, Resting, KindAt, PartAt
      <4>3. QED
        BY <3>1, <4>2 DEF LineInv, Conversation
    <3>3. QED
      BY <3>2, DestroyPlaceInductive DEF LineInv
  <2>4. QED
    BY <2>1, <2>2, <2>3 DEF BoardNext, Terminated
<1>3. QED
  BY <1>1, <1>2, StepInvHolds, PTL DEF BoardSpec, LineInv

(* The two sides never speak at once, and each takes every part of a       *)
(* packet for what it is, from which the program may go to its destructor  *)
(* at any point between two packets, and before the first part of one: the *)
(* line always holds the parts that one side still has to send less than   *)
(* the other still has to hear.                                            *)
THEOREM FramedHolds == BoardSpec => []Framed
<1>1. LineInv => Framed
  <2> SUFFICES ASSUME LineInv, ~broken
               PROVE  /\ toPic = <<>> \/ (fromPic = <<>> /\ pic # "sense")
                      /\ toPic # <<>> => Head(toPic).kind = Expected /\ Head(toPic).at = part
                      /\ fn = "ReceiveSensorData" /\ left > 0 /\ fromPic # <<>> => Head(fromPic).at = left
    BY DEF Framed
  <2>1. Starting \/ Sensing \/ Acting \/ Resting
    BY DEF LineInv, Conversation
  <2>2. TypeOK /\ Parts \in Nat \ {0}
    BY BoardAssumption DEF LineInv, StepInv
  <2>3. toPic \in Seq(ToParts) /\ fromPic \in Seq(FromParts)
    BY <2>2 DEF TypeOK, ToParts, FromParts
  <2>4. /\ toPic # <<>> => Head(toPic) = toPic[1] /\ 1 \in 1..Len(toPic)
        /\ fromPic # <<>> => Head(fromPic) = fromPic[1] /\ 1 \in 1..Len(fromPic)
    BY <2>3, TailOfLine
  <2>5. part \in 1..Parts /\ ToHear - 1 + 1 = ToHear /\ part - 1 + 1 = part /\ ToRead - 1 + 1 = ToRead
    BY <2>2 DEF TypeOK, ToHear, ToRead
  <2>6. CASE Starting
    <3>1. pic # "sense" /\ fromPic = <<>> /\ pic \in {"asleep", "configure"} /\ (pic = "asleep" => part = 1)
      BY <2>6 DEF Starting
    <3>2. toPic # <<>> => Head(toPic).kind = KindAt(ToHear) /\ Head(toPic).at = PartAt(ToHear)
      BY <2>4, <2>5, <2>6 DEF Starting
    <3>3. KindAt(ToHear) = Expected /\ PartAt(ToHear) = part
      BY <2>2, <2>5, <3>1 DEF Expected, ToHear, KindAt, PartAt
    <3>4. QED
      BY <3>1, <3>2, <3>3
  <2>7. CASE Sensing
    BY <2>4, <2>5, <2>7 DEF Sensing, ToRead
  <2>8. CASE Acting
    BY <2>4, <2>5, <2>8 DEF Acting, Expected
  <2>9. CASE Resting
    BY <2>9 DEF Resting
  <2>10. QED
    BY <2>1, <2>6, <2>7, <2>8, <2>9
<1>2. QED
  BY <1>1, LineInvHolds, PTL

(* When the program has ended by its destructor and the PIC has heard all  *)
(* of it the robot is at rest, wherever a signal, an exception or a transfer that failed at   *)
(* its beginning sent the program to the destructor: either the PIC was    *)
(* never woken up, or the last command resets it.                          *)
THEOREM StoppedAtEndHolds == BoardSpec => []StoppedAtEnd
<1>1. LineInv => StoppedAtEnd
  <2> SUFFICES ASSUME LineInv, ~broken, phase = "over", toPic = <<>>
               PROVE  pic = "asleep"
    BY DEF StoppedAtEnd, AtRest
  <2>1. Starting \/ Sensing \/ Acting \/ Resting
    BY DEF LineInv, Conversation
  <2>2. board \in {"WAITING", "INITIALIZATION", "SEND"}
    BY DEF LineInv, DestroyPlace
  <2>3. TypeOK /\ Parts \in Nat \ {0} /\ part \in 1..Parts /\ Len(toPic) = 0
    BY BoardAssumption, EmptyLine DEF LineInv, StepInv, TypeOK
  <2>4. CASE Starting
    <3>1. ToSend = Parts + 1
      BY <2>2, <2>4 DEF ToSend, Starting, Asleep
    <3>2. QED
      BY <2>3, <2>4, <3>1 DEF Starting, ToHear
  <2>5. CASE Acting
    <3>1. ToSend = 0
      BY <2>2, <2>5 DEF Acting, ToSend
    <3>2. QED
      BY <2>3, <2>5, <3>1 DEF Acting
  <2>6. QED
    BY <2>1, <2>4, <2>5 DEF Sensing, Speaking, Resting
<1>2. QED
  BY <1>1, LineInvHolds, PTL

(* The controller decides on readings taken after the robot obeyed its     *)
(* last command: the reading that ends a packet carries the count of the   *)
(* commands obeyed, which is then the count of those sent.                 *)
THEOREM FreshHolds == BoardSpec => []Fresh
<1>1. LineInv /\ Fresh /\ [BoardNext]_boardVars => Fresh'
  <2> SUFFICES ASSUME LineInv, Fresh, [BoardNext]_boardVars, fn' = "ControlStep"
               PROVE  sensed' = sent'
    BY DEF Fresh
  <2>1. TypeOK /\ Order /\ MainPlace
    BY DEF LineInv, StepInv
  <2>2. CASE fn = "ControlStep" /\ UNCHANGED <<sensed, sent>>
    BY <2>2 DEF Fresh
  <2>3. Continue => fn = "ReceiveSensorData" /\ phase = "main"
    <3>1. Continue => fn' = IF phase = "destroy" THEN InDestructor(fn) ELSE InMain(fn)
      BY DEF Continue, Following
    <3>2. InDestructor(fn) # "ControlStep"
      BY DEF InDestructor
    <3>3. InMain(fn) = "ControlStep" => fn = "ReceiveSensorData"
      BY DEF InMain
    <3>4. /\ phase \in {"main", "destroy", "over", "aborted", "faulting"}
          /\ phase \in {"over", "aborted", "faulting"} => fn = "none"
      BY <2>1 DEF TypeOK, Order
    <3>5. QED
      BY <3>1, <3>2, <3>3, <3>4
  <2>4. ~Throw /\ ~Abort /\ ~Fault
    BY DEF Throw, Abort, Fault
  <2>5. CASE OutOfSync
    BY <2>1, <2>3, <2>5 DEF OutOfSync, InSync, MainPlace
  <2>6. CASE InitSerial \/ InitController \/ IsExperimentFinished \/ ControlStep \/ SyncControlStep
               \/ TransferFails \/ ResetPic30 \/ DestroySerial \/ DeleteController
    BY <2>3, <2>4, <2>6 DEF InitSerial, InitController, IsExperimentFinished, ControlStep, SyncControlStep,
                            TransferFails, ResetPic30, DestroySerial, DeleteController
  <2>7. CASE Begin \/ SignalHandler \/ Pic \/ UNCHANGED boardVars
    BY <2>2, <2>7 DEF Begin, SignalHandler, Pic, boardVars
  <2>8. CASE Write
    BY <2>3, <2>8 DEF Write, Moved, Sends
  <2>9. CASE Read
    <3>1. /\ fn = "ReceiveSensorData" /\ left = 1 /\ phase = "main" /\ fromPic # <<>>
          /\ sensed' = Head(fromPic).n /\ sent' = sent
      BY <2>3, <2>9 DEF Read, Moved
    <3>2. Sensing
      BY <2>1, <3>1 DEF LineInv, Conversation, MainPlace, Starting, Acting, Resting
    <3>3. Head(fromPic) = fromPic[1] /\ 1 \in 1..Len(fromPic)
      BY <2>1, <3>1, TailOfLine DEF TypeOK
    <3>4. QED
      BY <3>1, <3>2, <3>3 DEF Sensing
  <2>10. QED
    BY <2>5, <2>6, <2>7, <2>8, <2>9 DEF BoardNext, Program, Terminated
<1>2. BoardInit => Fresh
  BY DEF BoardInit, Fresh
<1>3. QED
  BY <1>1, <1>2, LineInvHolds, PTL DEF BoardSpec
=============================================================================
