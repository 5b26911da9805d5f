------------------------- MODULE RangeAndBearingProofs -------------------------
(***************************************************************************)
(* Proofs about the range-and-bearing board: for every size of a message,  *)
(* every number of emitters, retries, messages and commands, what the      *)
(* robot receives is what was fetched, what it sends is one version of its *)
(* data, and a field of a packet comes from its own register.              *)
(*                                                                         *)
(* Each argument says who has which mutex where, and why a mutex that the  *)
(* cleanup of a cancelled thread frees for somebody else does no harm: the *)
(* thread that might have used it is the one that has just ended.          *)
(***************************************************************************)
EXTENDS RangeAndBearing, Integers, SequenceTheorems, TLAPS

FetcherStages == {"test", "lock", "address", "value", "unlock", "queue", "push", "sleep", "ended"}
SenderStages == {"test", "data", "next", "write", "sleep", "ended"}
MainStages == {"receive", "move", "pop", "control", "send", "copy", "body", "close actuator",
               "closing actuator", "erase", "close sensor", "closing sensor", "gone"}
Threads == {"main", "fetcher", "sender"}
Stages == FetcherStages \cup SenderStages \cup MainStages
Fields == 0..255

(* The stages of the threads, and the order in which main cancels them. *)
StageInv ==
  /\ pc \in [Threads -> Stages]
  /\ pc["fetcher"] \in FetcherStages /\ pc["sender"] \in SenderStages /\ pc["main"] \in MainStages
  /\ cancelled \subseteq {"fetcher", "sender"}
  /\ "fetcher" \in cancelled => "sender" \in cancelled
  /\ pc["main"] \in {"close actuator", "closing actuator", "erase", "close sensor", "closing sensor", "gone"}
       => "sender" \in cancelled
  /\ pc["sender"] = "ended" => "sender" \in cancelled
  /\ pc["fetcher"] = "ended" => "fetcher" \in cancelled

(* The data to send: main copies them and the sender writes a frame of     *)
(* them under the mutex, which the end of the sender may take from main.   *)
Desireds == [state : States, Enabled : SUBSET EmitterNumbers, n : Versions]
Sents == [state : States, Enabled : SUBSET EmitterNumbers, header : Versions, body : Versions]
DataInv ==
  /\ m_sDesiredData \in Desireds /\ m_sSentData \in Sents
  /\ pc["main"] \in {"copy", "body"} => m_tDataMutex = "main" \/ pc["sender"] = "ended"
  /\ pc["sender"] \in {"next", "write"} => m_tDataMutex = "sender" /\ frame = {m_sSentData.header}
  /\ IF pc["main"] = "body" THEN m_sSentData.header = m_sDesiredData.n
                            ELSE m_sSentData.header = m_sSentData.body

(* The register the board is addressed at: as long as the sender may write *)
(* it shares the bus with the fetcher alone, and whoever is between two    *)
(* calls has it.                                                           *)
Sound(k) == fields[k] \in {FetchOrder[k], None}
BusInv ==
  /\ fi \in 1..Len(FetchOrder)
  /\ fields \in Seq(Fields) /\ \A k \in 1..Len(fields) : Sound(k)
  /\ tries < maxRetries /\ unRetries \in Nat
  /\ pc["fetcher"] \in {"lock", "address", "value"} => Len(fields) = fi - 1
  /\ pc["fetcher"] = "unlock" => Len(fields) = fi
  /\ pc["fetcher"] = "value" => register = FetchOrder[fi]
  /\ "sender" \notin cancelled =>
       /\ pc["sender"] = "write" => m_tIOMutex = "sender"
       /\ pc["fetcher"] \in {"address", "value", "unlock"} => m_tIOMutex = "fetcher"

(* The messages: the two lists together are the messages fetched so far,   *)
(* the one main is moving being in both.                                   *)
Moving == IF pc["main"] = "pop" THEN 1 ELSE 0
LastQueued == IF At("fetcher", "sleep") \/ At("fetcher", "test") \/ fi = 1 THEN psPacket ELSE psPacket - 1
QueueInv ==
  cancelled = {} =>
    /\ fi \in 1..Len(FetchOrder) /\ psPacket \in Nat
    /\ fi > 1 /\ ~At("fetcher", "sleep") /\ ~At("fetcher", "test") => psPacket > 0
    /\ pc["fetcher"] \in {"queue", "push"} => fi = Len(FetchOrder)
    /\ pc["fetcher"] = "push" => m_tPacketQueueMutex = "fetcher"
    /\ pc["main"] \in {"move", "pop"} => m_tPacketQueueMutex = "main"
    /\ m_tPackets \in Seq(Nat) /\ m_tQueuedPackets \in Seq(Nat)
    /\ pc["main"] = "pop" => m_tQueuedPackets # <<>> /\ m_tPackets # <<>>
    /\ \A k \in 1..Len(m_tPackets) : m_tPackets[k] = k
    /\ \A k \in 1..Len(m_tQueuedPackets) : m_tQueuedPackets[k] = Len(m_tPackets) - Moving + k
    /\ Len(m_tPackets) - Moving + Len(m_tQueuedPackets) = LastQueued

-----------------------------------------------------------------------------
(* A packet is read from more than one register of the board. *)
LEMMA OrderOfRegisters ==
  FetchOrder \in Seq(Fields) /\ Len(FetchOrder) = DataSize + 5 /\ DataSize \in 1..4
<1>1. DataSize \in 1..4
  BY BearingAssumption
<1>2. <<10, 11, 1, 2>> \in Seq(Fields) /\ Len(<<10, 11, 1, 2>>) = 4
  BY DEF Fields
<1>3. \A t \in Seq(Fields) : Len(t) = 4 =>
        SubSeq(t, 5 - DataSize, 4) \in Seq(Fields) /\ Len(SubSeq(t, 5 - DataSize, 4)) = DataSize
  <2> HIDE DEF Fields
  <2>1. ASSUME NEW t \in Seq(Fields), Len(t) = 4, NEW n \in 1..4
        PROVE  SubSeq(t, 5 - n, 4) \in Seq(Fields) /\ Len(SubSeq(t, 5 - n, 4)) = n
    <3>1. 5 - n \in 1..4 /\ 4 - (5 - n) + 1 = n
      OBVIOUS
    <3>2. \A i \in 5 - n..4 : t[i] \in Fields
      <4>1. \A i \in 5 - n..4 : i \in 1..Len(t)
        BY <2>1, <3>1
      <4>2. QED
        BY <2>1, <4>1, ElementOfSeq
    <3>3. QED
      BY <3>1, <3>2, SubSeqProperties
  <2>2. QED
    BY <1>1, <2>1
<1>4. DataReceived(DataSize) \in Seq(Fields) /\ Len(DataReceived(DataSize)) = DataSize
  BY <1>2, <1>3 DEF DataReceived
<1>5. <<0>> \in Seq(Fields) /\ <<3, 4, 5, 6>> \in Seq(Fields) /\ Len(<<0>>) = 1 /\ Len(<<3, 4, 5, 6>>) = 4
  BY DEF Fields
<1>6. \A a, b, c \in Seq(Fields) : a \o b \o c \in Seq(Fields) /\ Len(a \o b \o c) = Len(a) + Len(b) + Len(c)
  OBVIOUS
<1>7. QED
  <2> DEFINE D == DataReceived(DataSize)
             a == <<0>>
             c == <<3, 4, 5, 6>>
  <2>1. a \in Seq(Fields) /\ D \in Seq(Fields) /\ c \in Seq(Fields)
        /\ Len(a) = 1 /\ Len(D) = DataSize /\ Len(c) = 4
    BY <1>4, <1>5
  <2>2. FetchOrder = a \o D \o c
    BY DEF FetchOrder
  <2> HIDE DEF D, a, c
  <2>3. FetchOrder \in Seq(Fields) /\ Len(FetchOrder) = Len(a) + Len(D) + Len(c)
    BY <1>6, <2>1, <2>2
  <2>4. QED
    BY <1>1, <2>1, <2>3

(* A list of values under the operations the threads use. *)
LEMMA Lists ==
  ASSUME NEW S, NEW q \in Seq(S)
  PROVE  /\ Len(q) \in Nat /\ (q # <<>> => Len(q) > 0)
         /\ \A e \in S : /\ Append(q, e) \in Seq(S) /\ Len(Append(q, e)) = Len(q) + 1
                        /\ Append(q, e) # <<>>
                        /\ \A k \in 1..Len(q) : Append(q, e)[k] = q[k]
                        /\ Append(q, e)[Len(q) + 1] = e
         /\ q # <<>> => /\ Head(q) = q[1] /\ Head(q) \in S /\ Tail(q) \in Seq(S)
                        /\ Len(Tail(q)) = Len(q) - 1
                        /\ \A k \in 1..(Len(q) - 1) : Tail(q)[k] = q[k + 1]
OBVIOUS

-----------------------------------------------------------------------------
LEMMA StageAlways == Spec => []StageInv
<1>1. Init => StageInv
  <2> SUFFICES ASSUME Init PROVE StageInv
    OBVIOUS
  <2>1. pc = [t \in {"main", "fetcher", "sender"} |->
                CASE t = "fetcher" -> "test" [] t = "sender" -> "test" [] OTHER -> "receive"]
    BY DEF Init
  <2>2. pc \in [Threads -> Stages]
    BY <2>1 DEF Threads, Stages, FetcherStages, MainStages
  <2>3. pc["fetcher"] = "test" /\ pc["sender"] = "test" /\ pc["main"] = "receive" /\ cancelled = {}
    BY <2>1 DEF Init
  <2>4. QED
    BY <2>2, <2>3 DEF StageInv, FetcherStages, SenderStages, MainStages
<1>2. StageInv /\ [Next]_vars => StageInv'
  <2> SUFFICES ASSUME StageInv, [Next]_vars
               PROVE  StageInv'
    OBVIOUS
  <2>1. pc \in [Threads -> Stages]
    BY DEF StageInv
  <2>2. CASE UNCHANGED <<pc, cancelled>>
    BY <2>2 DEF StageInv
  <2>3. ASSUME NEW l \in FetcherStages, Go("fetcher", l), UNCHANGED cancelled,
               l = "ended" => "fetcher" \in cancelled
        PROVE  StageInv'
    <3>1. /\ pc' \in [Threads -> Stages]
          /\ pc'["fetcher"] = l /\ pc'["sender"] = pc["sender"] /\ pc'["main"] = pc["main"]
      BY <2>1, <2>3 DEF Go, Threads, Stages
    <3>2. QED
      BY <2>3, <3>1 DEF StageInv
  <2>4. ASSUME NEW l \in SenderStages, Go("sender", l), UNCHANGED cancelled,
               l = "ended" => "sender" \in cancelled
        PROVE  StageInv'
    <3>1. /\ pc' \in [Threads -> Stages]
          /\ pc'["sender"] = l /\ pc'["fetcher"] = pc["fetcher"] /\ pc'["main"] = pc["main"]
      BY <2>1, <2>4 DEF Go, Threads, Stages
    <3>2. QED
      BY <2>4, <3>1 DEF StageInv
  <2>5. ASSUME NEW l \in MainStages, Go("main", l), "sender" \in cancelled => "sender" \in cancelled',
               cancelled \subseteq cancelled', cancelled' \subseteq {"fetcher", "sender"},
               "fetcher" \in cancelled' => "sender" \in cancelled',
               l \in {"close actuator", "closing actuator", "erase", "close sensor", "closing sensor", "gone"}
                 => "sender" \in cancelled'
        PROVE  StageInv'
    <3>1. /\ pc' \in [Threads -> Stages]
          /\ pc'["main"] = l /\ pc'["fetcher"] = pc["fetcher"] /\ pc'["sender"] = pc["sender"]
      BY <2>1, <2>5 DEF Go, Threads, Stages
    <3>2. QED
      BY <2>5, <3>1 DEF StageInv
  <2>6. CASE ThreadCleanup("fetcher")
    BY <2>3, <2>6 DEF ThreadCleanup, Cancelled, FetcherStages
  <2>7. CASE ThreadCleanup("sender")
    BY <2>4, <2>7 DEF ThreadCleanup, Cancelled, SenderStages
  <2>8. CASE FetcherTest \/ FetcherLocks \/ FetcherLocksQueue \/ FetcherPushes \/ Sleep("fetcher")
    BY <2>3, <2>8 DEF FetcherTest, FetcherLocks, FetcherLocksQueue, FetcherPushes, Sleep, LockBus, FetcherStages
  <2>9. CASE FetcherWritesAddress \/ FetcherReads
    BY <2>2, <2>3, <2>9 DEF FetcherWritesAddress, FetcherReads, FetcherStages
  <2>10. CASE FetcherUnlocks
    BY <2>3, <2>10 DEF FetcherUnlocks, FetcherStages
  <2>11. CASE SenderTest \/ SenderLocksData \/ SenderLocksBus \/ SenderUnlocksData \/ Sleep("sender")
    BY <2>4, <2>11 DEF SenderTest, SenderLocksData, SenderLocksBus, SenderUnlocksData, Sleep, LockBus, SenderStages
  <2>12. CASE SenderWrites
    BY <2>2, <2>4, <2>12 DEF SenderWrites, SenderStages
  <2>13. CASE ReceiveData \/ MovesPacket \/ PopsPacket \/ Received \/ ControlStep \/ SendData \/ CopiesHeader
    <3>1. UNCHANGED cancelled /\ \E l \in {"receive", "move", "pop", "control", "send", "copy", "body"} : Go("main", l)
      BY <2>13 DEF ReceiveData, MovesPacket, PopsPacket, Received, ControlStep, SendData, CopiesHeader
    <3>2. QED
      BY <2>5, <3>1 DEF StageInv, MainStages
  <2>14. CASE CopiesBody
    <3>1. /\ UNCHANGED cancelled
          /\ (Go("main", "close actuator") /\ "sender" \in cancelled) \/ Go("main", "receive")
      BY <2>14 DEF CopiesBody
    <3>2. QED
      BY <2>5, <3>1 DEF StageInv, MainStages
  <2>15. CASE DestroyActuator
    <3>1. cancelled' = cancelled \cup {"sender"} /\ Go("main", "send")
      BY <2>15 DEF DestroyActuator
    <3>2. QED
      BY <2>5, <3>1 DEF StageInv, MainStages
  <2>16. CASE DestroySensor
    <3>1. cancelled' = cancelled \cup {"fetcher"} /\ Go("main", "erase") /\ "sender" \in cancelled
      BY <2>16 DEF DestroySensor, StageInv, At
    <3>2. QED
      BY <2>5, <3>1 DEF StageInv, MainStages
  <2>17. CASE CloseDevice \/ Destroyed
    <3>1. UNCHANGED cancelled /\ "sender" \in cancelled
          /\ \E l \in {"closing actuator", "closing sensor", "gone"} : Go("main", l)
      BY <2>17 DEF CloseDevice, Destroyed, LockBus, At, StageInv
    <3>2. QED
      BY <2>5, <3>1 DEF StageInv, MainStages
  <2>18. CASE ErasesPackets
    <3>1. UNCHANGED cancelled /\ "sender" \in cancelled /\ (UNCHANGED pc \/ Go("main", "close sensor"))
      BY <2>18 DEF ErasesPackets, At, StageInv
    <3>2. QED
      BY <2>2, <2>5, <3>1 DEF StageInv, MainStages
  <2>19. UNCHANGED vars => UNCHANGED <<pc, cancelled>>
    BY DEF vars
  <2>20. QED
    BY <2>2, <2>6, <2>7, <2>8, <2>9, <2>10, <2>11, <2>12, <2>13, <2>14, <2>15, <2>16, <2>17, <2>18, <2>19
       DEF Next, Fetcher, Sender, Main
<1>3. QED
  BY <1>1, <1>2, PTL DEF Spec

(* What a step does to the stages of the two other threads: nothing.       *)
LEMMA OneMoves ==
  ASSUME StageInv, NEW t \in Threads, NEW l \in Stages, Go(t, l)
  PROVE  pc'[t] = l /\ \A u \in Threads \ {t} : pc'[u] = pc[u]
  BY DEF StageInv, Go

(* The steps of the fetcher move no other thread. *)
LEMMA FetcherMoves ==
  ASSUME StageInv, Fetcher
  PROVE  /\ pc'["sender"] = pc["sender"] /\ pc'["main"] = pc["main"]
         /\ UNCHANGED <<m_tDataMutex, cancelled, m_tPackets, m_sDesiredData, m_sSentData, sendVars>>
<1>1. \A l \in FetcherStages : Go("fetcher", l) => pc'["sender"] = pc["sender"] /\ pc'["main"] = pc["main"]
  BY OneMoves DEF Threads, Stages
<1>2. pc' = pc \/ \E l \in FetcherStages : Go("fetcher", l)
  BY DEF Fetcher, ThreadCleanup, FetcherTest, FetcherLocks, FetcherWritesAddress, FetcherReads, FetcherUnlocks,
         FetcherLocksQueue, FetcherPushes, Sleep, LockBus, FetcherStages
<1>3. UNCHANGED <<m_tDataMutex, cancelled, m_tPackets, m_sDesiredData, m_sSentData, sendVars>>
  BY DEF Fetcher, ThreadCleanup, FetcherTest, FetcherLocks, FetcherWritesAddress, FetcherReads, FetcherUnlocks,
         FetcherLocksQueue, FetcherPushes, Sleep, LockBus, mutexes, packets
<1>4. QED
  BY <1>1, <1>2, <1>3

LEMMA SenderMoves ==
  ASSUME StageInv, Sender
  PROVE  /\ pc'["fetcher"] = pc["fetcher"] /\ pc'["main"] = pc["main"]
         /\ UNCHANGED <<m_tPacketQueueMutex, cancelled, packets, m_sDesiredData, m_sSentData, fetchVars>>
<1>1. \A l \in SenderStages : Go("sender", l) => pc'["fetcher"] = pc["fetcher"] /\ pc'["main"] = pc["main"]
  BY OneMoves DEF Threads, Stages
<1>2. pc' = pc \/ \E l \in SenderStages : Go("sender", l)
  BY DEF Sender, ThreadCleanup, SenderTest, SenderLocksData, SenderLocksBus, SenderWrites, SenderUnlocksData,
         Sleep, LockBus, SenderStages
<1>3. UNCHANGED <<m_tPacketQueueMutex, cancelled, packets, m_sDesiredData, m_sSentData, fetchVars>>
  BY DEF Sender, ThreadCleanup, SenderTest, SenderLocksData, SenderLocksBus, SenderWrites, SenderUnlocksData,
         Sleep, LockBus, mutexes
<1>4. QED
  BY <1>1, <1>2, <1>3

LEMMA MainMoves ==
  ASSUME StageInv, Main
  PROVE  /\ pc'["fetcher"] = pc["fetcher"] /\ pc'["sender"] = pc["sender"]
         /\ UNCHANGED <<register, fetchVars, sendVars>>
<1>1. \A l \in MainStages : Go("main", l) => pc'["fetcher"] = pc["fetcher"] /\ pc'["sender"] = pc["sender"]
  BY OneMoves DEF Threads, Stages
<1>2. pc' = pc \/ \E l \in MainStages : Go("main", l)
  BY DEF Main, ReceiveData, MovesPacket, PopsPacket, Received, ControlStep, SendData, CopiesHeader, CopiesBody,
         DestroyActuator, CloseDevice, DestroySensor, ErasesPackets, Destroyed, LockBus, MainStages
<1>3. UNCHANGED <<register, fetchVars, sendVars>>
  BY DEF Main, ReceiveData, MovesPacket, PopsPacket, Received, ControlStep, SendData, CopiesHeader, CopiesBody,
         DestroyActuator, CloseDevice, DestroySensor, ErasesPackets, Destroyed
<1>4. QED
  BY <1>1, <1>2, <1>3

-----------------------------------------------------------------------------
(* What the controller may want to send. *)
LEMMA DesiredTypes ==
  ASSUME DataInv, \/ SetData \/ Disable \/ UNCHANGED m_sDesiredData
                  \/ \E i \in EmitterNumbers : SetDataForEmitter(i) \/ DisableEmitter(i)
  PROVE  m_sDesiredData' \in Desireds
<1>1. m_sDesiredData.Enabled \in SUBSET EmitterNumbers /\ m_sDesiredData.n \in Versions
  BY DEF DataInv, Desireds
<1>2. (m_sDesiredData.n + 1) % Commands \in Versions
  <2>1. \A n \in Nat, c \in Nat \ {0} : (n + 1) % c \in 0..c - 1
    OBVIOUS
  <2>2. QED
    BY <1>1, <2>1, BearingAssumption DEF Versions
<1>3. ASSUME NEW state \in States, NEW enabled \in SUBSET EmitterNumbers, Desired(state, enabled)
      PROVE  m_sDesiredData' \in Desireds
  BY <1>2, <1>3 DEF Desired, Desireds
<1>4. ASSUME NEW i \in EmitterNumbers, SetDataForEmitter(i) \/ DisableEmitter(i)
      PROVE  m_sDesiredData' \in Desireds
  <2>1. m_sDesiredData.Enabled \cup {i} \in SUBSET EmitterNumbers
        /\ m_sDesiredData.Enabled \ {i} \in SUBSET EmitterNumbers
    BY <1>1
  <2>2. QED
    BY <1>3, <1>4, <2>1 DEF SetDataForEmitter, DisableEmitter, States
<1>5. QED
  BY <1>3, <1>4 DEF SetData, Disable, States, DataInv

LEMMA DataAlways == Spec => []DataInv
<1>1. Init => DataInv
  <2> SUFFICES ASSUME Init PROVE DataInv
    OBVIOUS
  <2>1. pc["main"] = "receive" /\ pc["sender"] = "test"
    BY DEF Init
  <2>2. 0 \in Versions /\ {} \in SUBSET EmitterNumbers /\ "STATE_ALL_EMITTERS_DISABLED" \in States
    BY BearingAssumption DEF Versions, States
  <2>3. m_sDesiredData \in Desireds /\ m_sSentData \in Sents /\ m_sSentData.header = m_sSentData.body
    BY <2>2 DEF Init, Desireds, Sents
  <2>4. QED
    BY <2>1, <2>3 DEF DataInv
<1>2. DataInv /\ StageInv /\ StageInv' /\ [Next]_vars => DataInv'
  <2> SUFFICES ASSUME DataInv, StageInv, StageInv', [Next]_vars
               PROVE  DataInv'
    OBVIOUS
  <2>1. CASE UNCHANGED vars
    BY <2>1 DEF vars, sendVars, mutexes, DataInv
  <2>2. CASE Fetcher
    BY <2>2, FetcherMoves DEF DataInv, sendVars
  <2>3. CASE Sender
    <3>1. /\ pc'["main"] = pc["main"] /\ UNCHANGED <<m_sDesiredData, m_sSentData>>
      BY <2>3, SenderMoves
    <3>2. \A l \in SenderStages : Go("sender", l) => pc'["sender"] = l
      BY OneMoves DEF Threads, Stages
    <3>3. CASE ThreadCleanup("sender")
      <4>1. pc'["sender"] = "ended"
        BY <3>2, <3>3 DEF ThreadCleanup, SenderStages
      <4>2. QED
        BY <3>1, <4>1 DEF DataInv
    <3>4. CASE SenderTest \/ Sleep("sender")
      <4>1. pc'["sender"] \in {"data", "test"} /\ pc["sender"] # "ended" /\ UNCHANGED m_tDataMutex
        BY <3>2, <3>4 DEF SenderTest, Sleep, SenderStages, mutexes, At
      <4>2. QED
        BY <3>1, <4>1 DEF DataInv
    <3>5. CASE SenderLocksData
      <4>1. /\ m_tDataMutex = "free" /\ m_tDataMutex' = "sender" /\ frame' = {m_sSentData.header}
            /\ pc["sender"] = "data" /\ pc'["sender"] = "next"
        BY <3>2, <3>5 DEF SenderLocksData, DataHolder, SenderStages, At
      <4>2. QED
        BY <3>1, <4>1 DEF DataInv
    <3>6. CASE SenderLocksBus
      <4>1. /\ pc["sender"] = "next" /\ pc'["sender"] = "write" /\ UNCHANGED <<m_tDataMutex, frame>>
        BY <3>2, <3>6 DEF SenderLocksBus, LockBus, SenderStages, At
      <4>2. QED
        BY <3>1, <4>1 DEF DataInv
    <3>7. CASE SenderWrites
      <4>1. /\ pc["sender"] = "write" /\ UNCHANGED m_tDataMutex
            /\ pc'["sender"] \in {"next", "write"} /\ (frame' = frame \/ frame' = frame \cup {m_sSentData.body})
        BY <3>2, <3>7 DEF SenderWrites, SenderStages, At
      <4>2. pc["main"] # "body" /\ m_sSentData.header = m_sSentData.body
        BY <4>1 DEF DataInv
      <4>3. QED
        BY <3>1, <4>1, <4>2 DEF DataInv
    <3>8. CASE SenderUnlocksData
      <4>1. /\ pc["sender"] = "next" /\ pc'["sender"] = "sleep"
        BY <3>2, <3>8 DEF SenderUnlocksData, SenderStages, At
      <4>2. QED
        BY <3>1, <4>1 DEF DataInv
    <3>9. QED
      BY <2>3, <3>3, <3>4, <3>5, <3>6, <3>7, <3>8 DEF Sender
  <2>4. CASE Main
    <3>1. pc'["sender"] = pc["sender"] /\ UNCHANGED frame
      BY <2>4, MainMoves DEF sendVars
    <3>2. \A l \in MainStages : Go("main", l) => pc'["main"] = l
      BY OneMoves DEF Threads, Stages
    <3>3. CASE ReceiveData \/ MovesPacket \/ PopsPacket \/ Received \/ CloseDevice \/ DestroySensor \/ Destroyed
               \/ ErasesPackets
      <4>1. UNCHANGED <<m_tDataMutex, m_sDesiredData, m_sSentData>>
        BY <3>3 DEF ReceiveData, MovesPacket, PopsPacket, Received, CloseDevice, DestroySensor, Destroyed, ErasesPackets,
                    mutexes
      <4>2. pc["main"] # "body" /\ pc'["main"] \notin {"copy", "body"}
        BY <3>2, <3>3 DEF ReceiveData, MovesPacket, PopsPacket, Received, CloseDevice, DestroySensor, Destroyed,
                          ErasesPackets, LockBus, MainStages, At
      <4>3. QED
        BY <3>1, <4>1, <4>2 DEF DataInv
    <3>4. CASE ControlStep \/ DestroyActuator
      <4>1. UNCHANGED <<m_tDataMutex, m_sSentData>> /\ pc["main"] # "body" /\ pc'["main"] = "send"
        BY <3>2, <3>4 DEF ControlStep, DestroyActuator, MainStages, mutexes, At
      <4>2. m_sDesiredData' \in Desireds
        BY <3>4, DesiredTypes DEF ControlStep, DestroyActuator
      <4>3. QED
        BY <3>1, <4>1, <4>2 DEF DataInv
    <3>5. CASE SendData
      <4>1. /\ m_tDataMutex = "free" /\ m_tDataMutex' = "main" /\ UNCHANGED <<m_sDesiredData, m_sSentData>>
            /\ pc["main"] = "send" /\ pc'["main"] = "copy"
        BY <3>2, <3>5 DEF SendData, MainStages, At
      <4>2. QED
        BY <3>1, <4>1 DEF DataInv
    <3>6. CASE CopiesHeader
      <4>1. /\ pc["main"] = "copy" /\ pc'["main"] = "body" /\ UNCHANGED <<m_tDataMutex, m_sDesiredData>>
            /\ m_sSentData' = [m_sSentData EXCEPT !.state = m_sDesiredData.state, !.Enabled = m_sDesiredData.Enabled,
                                                  !.header = m_sDesiredData.n]
        BY <3>2, <3>6 DEF CopiesHeader, MainStages, mutexes, At
      <4>2. m_sSentData' \in Sents /\ m_sSentData'.header = m_sDesiredData.n
        BY <4>1 DEF DataInv, Sents, Desireds
      <4>3. pc["sender"] \notin {"next", "write"}
        BY <4>1 DEF DataInv
      <4>4. QED
        BY <3>1, <4>1, <4>2, <4>3 DEF DataInv
    <3>7. CASE CopiesBody
      <4>1. /\ pc["main"] = "body" /\ pc'["main"] \in {"close actuator", "receive"} /\ UNCHANGED m_sDesiredData
            /\ m_sSentData' = [m_sSentData EXCEPT !.body = m_sDesiredData.n]
        BY <3>2, <3>7 DEF CopiesBody, MainStages, At
      <4>2. m_sSentData' \in Sents /\ m_sSentData'.header = m_sSentData.header /\ m_sSentData'.body = m_sDesiredData.n
        BY <4>1 DEF DataInv, Sents, Desireds
      <4>3. pc["sender"] \notin {"next", "write"}
        BY <4>1 DEF DataInv
      <4>4. QED
        BY <3>1, <4>1, <4>2, <4>3 DEF DataInv
    <3>8. QED
      BY <2>4, <3>3, <3>4, <3>5, <3>6, <3>7 DEF Main
  <2>5. QED
    BY <2>1, <2>2, <2>3, <2>4 DEF Next
<1>3. QED
  BY <1>1, <1>2, StageAlways, PTL DEF Spec

(* What goes out in one frame is one version of the data to send, also     *)
(* while the sender is cancelled and main copies the data regardless.      *)
THEOREM WholeFramesHolds == Spec => []WholeFrames
<1>1. Init => WholeFrames
  BY DEF Init, WholeFrames
<1>2. WholeFrames /\ DataInv' /\ StageInv /\ StageInv' /\ [Next]_vars => WholeFrames'
  <2> SUFFICES ASSUME WholeFrames, DataInv', StageInv, StageInv', [Next]_vars
               PROVE  WholeFrames'
    OBVIOUS
  <2>1. frame' = frame \/ pc'["sender"] \in {"next", "write"}
    <3>1. CASE SenderLocksData \/ SenderWrites
      <4>1. (pc["sender"] = "write" /\ UNCHANGED pc) \/ \E l \in {"next", "write"} : Go("sender", l)
        BY <3>1 DEF SenderLocksData, SenderWrites, At
      <4>2. QED
        BY <4>1, OneMoves DEF Threads, Stages, SenderStages
    <3>2. Sender => SenderLocksData \/ SenderWrites \/ frame' = frame
      BY DEF Sender, ThreadCleanup, SenderTest, SenderLocksBus, SenderUnlocksData, Sleep, sendVars
    <3>3. QED
      BY <3>1, <3>2, FetcherMoves, MainMoves DEF Next, vars, sendVars
  <2>2. CASE pc'["sender"] \in {"next", "write"}
    <3>1. frame' = {m_sSentData'.header}
      BY <2>2 DEF DataInv
    <3>2. QED
      BY <3>1 DEF WholeFrames
  <2>3. QED
    BY <2>1, <2>2 DEF WholeFrames
<1>3. QED
  BY <1>1, <1>2, DataAlways, StageAlways, PTL DEF Spec

-----------------------------------------------------------------------------
(* As long as a retry helps, a call to the bus succeeds in the end, with   *)
(* the bus locked throughout: the register the fetcher reads is the one it *)
(* has just addressed, because the sender, the only other thread that      *)
(* addresses one, either is kept off the bus or has been cancelled.        *)
LEMMA BusAlways ==
  ASSUME Failures # "many"
  PROVE  Spec => []BusInv
<1>1. Init => BusInv
  BY OrderOfRegisters, BearingAssumption DEF Init, BusInv
<1>2. BusInv /\ StageInv /\ StageInv' /\ [Next]_vars => BusInv'
  <2> SUFFICES ASSUME BusInv, StageInv, StageInv', [Next]_vars
               PROVE  BusInv'
    OBVIOUS
  <2>1. \A n : MayFail(n) => n + 1 < maxRetries
    BY BearingAssumption DEF MayFail
  <2>2. fi \in 1..Len(FetchOrder) /\ Len(FetchOrder) \in Nat /\ Len(FetchOrder) > 1
        /\ FetchOrder[fi] \in Fields /\ None \in Fields
    <3>1. fi \in 1..Len(FetchOrder) /\ Len(FetchOrder) \in Nat /\ Len(FetchOrder) > 1
      BY OrderOfRegisters DEF BusInv
    <3>2. FetchOrder[fi] \in Fields
      BY <3>1, OrderOfRegisters
    <3>3. None \in Fields
      BY DEF Fields, None
    <3>4. QED
      BY <3>1, <3>2, <3>3
  <2>3. \A l \in FetcherStages : Go("fetcher", l) => pc'["fetcher"] = l
    BY OneMoves DEF Threads, Stages
  <2>4. \A l \in SenderStages : Go("sender", l) => pc'["sender"] = l
    BY OneMoves DEF Threads, Stages
  <2>5. CASE UNCHANGED vars
    BY <2>5 DEF vars, fetchVars, sendVars, mutexes, BusInv, Sound
  <2>6. CASE Main
    <3>1. /\ pc'["fetcher"] = pc["fetcher"] /\ pc'["sender"] = pc["sender"]
          /\ UNCHANGED <<register, fi, tries, fields, unRetries>>
      BY <2>6, MainMoves DEF fetchVars, sendVars
    <3>2. (m_tIOMutex' = m_tIOMutex /\ cancelled' = cancelled) \/ "sender" \in cancelled'
      <4>1. CASE CloseDevice \/ DestroySensor \/ Destroyed \/ DestroyActuator
        BY <4>1 DEF CloseDevice, DestroySensor, Destroyed, DestroyActuator, StageInv, At
      <4>2. CASE ~(CloseDevice \/ DestroySensor \/ Destroyed \/ DestroyActuator)
        BY <2>6, <4>2 DEF Main, ReceiveData, MovesPacket, PopsPacket, Received, ControlStep, SendData,
                          CopiesHeader, CopiesBody, ErasesPackets, mutexes
      <4>3. QED
        BY <4>1, <4>2
    <3>3. QED
      BY <3>1, <3>2 DEF BusInv, Sound
  <2>7. CASE Sender
    <3>1. pc'["fetcher"] = pc["fetcher"] /\ UNCHANGED <<fi, tries, fields, cancelled>>
      BY <2>7, SenderMoves DEF fetchVars
    <3>2. CASE ThreadCleanup("sender")
      <4>1. "sender" \in cancelled /\ UNCHANGED <<register, unRetries>>
        BY <3>2 DEF ThreadCleanup, Cancelled, sendVars
      <4>2. QED
        BY <3>1, <4>1 DEF BusInv, Sound
    <3>3. CASE SenderLocksBus
      <4>1. m_tIOMutex = "free" /\ m_tIOMutex' = "sender" /\ register' = register /\ unRetries' = 0
        BY <3>3 DEF SenderLocksBus, LockBus
      <4>2. QED
        BY <3>1, <4>1 DEF BusInv, Sound
    <3>4. CASE SenderWrites
      <4>1. pc["sender"] = "write" /\ "sender" \notin cancelled
        BY <3>4 DEF SenderWrites, At, Cancelled, Points
      <4>2. m_tIOMutex = "sender" /\ pc["fetcher"] \notin {"address", "value", "unlock"}
        BY <4>1 DEF BusInv
      <4>3. pc'["sender"] = "next" \/ UNCHANGED <<pc, m_tIOMutex>> \/ (unRetries > maxRetries /\ MayFail(unRetries))
        BY <2>4, <3>4 DEF SenderWrites, SenderStages
      <4>4. ~(unRetries > maxRetries /\ MayFail(unRetries))
        BY <2>1, BearingAssumption DEF BusInv
      <4>5. unRetries' \in Nat
        BY <3>4 DEF SenderWrites, BusInv
      <4>6. QED
        BY <3>1, <4>2, <4>3, <4>4, <4>5 DEF BusInv, Sound
    <3>5. CASE SenderTest \/ SenderLocksData \/ SenderUnlocksData \/ Sleep("sender")
      <4>1. pc'["sender"] # "write" /\ UNCHANGED <<m_tIOMutex, register, unRetries>>
        BY <2>4, <3>5 DEF SenderTest, SenderLocksData, SenderUnlocksData, Sleep, SenderStages, mutexes, sendVars
      <4>2. QED
        BY <3>1, <4>1 DEF BusInv, Sound
    <3>6. QED
      BY <2>7, <3>2, <3>3, <3>4, <3>5 DEF Sender
  <2>8. CASE Fetcher
    <3>1. pc'["sender"] = pc["sender"] /\ UNCHANGED <<cancelled, unRetries>>
      BY <2>8, FetcherMoves DEF sendVars
    <3>2. CASE ThreadCleanup("fetcher")
      <4>1. /\ "fetcher" \in cancelled /\ "sender" \in cancelled /\ pc'["fetcher"] = "ended"
            /\ UNCHANGED <<register, fi, tries, fields>>
        BY <2>3, <3>2 DEF ThreadCleanup, Cancelled, StageInv, FetcherStages, fetchVars
      <4>2. QED
        BY <3>1, <4>1 DEF BusInv, Sound
    <3>3. CASE FetcherTest
      <4>1. /\ pc'["fetcher"] = "lock" /\ fi' = 1 /\ tries' = 0 /\ fields' = <<>> /\ UNCHANGED m_tIOMutex
        BY <2>3, <3>3 DEF FetcherTest, FetcherStages, mutexes
      <4>2. <<>> \in Seq(Fields) /\ Len(<<>>) = 0
        OBVIOUS
      <4>3. QED
        BY <2>2, <3>1, <4>1, <4>2, BearingAssumption DEF BusInv, Sound
    <3>4. CASE FetcherLocks
      <4>1. /\ pc["fetcher"] = "lock" /\ pc'["fetcher"] = "address" /\ m_tIOMutex = "free" /\ m_tIOMutex' = "fetcher"
            /\ UNCHANGED <<register, fi, tries, fields>>
        BY <2>3, <3>4 DEF FetcherLocks, LockBus, FetcherStages, fetchVars, At
      <4>2. QED
        BY <3>1, <4>1 DEF BusInv, Sound
    <3>5. CASE FetcherWritesAddress
      <4>1. /\ pc["fetcher"] = "address" /\ UNCHANGED <<fi, fields>>
            /\ \/ register' = FetchOrder[fi] /\ tries' = 0 /\ pc'["fetcher"] = "value" /\ UNCHANGED m_tIOMutex
               \/ tries + 1 < maxRetries /\ tries' = tries + 1 /\ UNCHANGED <<register, pc, m_tIOMutex>>
        BY <2>1, <2>3, <3>5 DEF FetcherWritesAddress, Between, FetcherStages, At
      <4>2. tries' < maxRetries
        BY <4>1, BearingAssumption
      <4>3. QED
        BY <3>1, <4>1, <4>2 DEF BusInv, Sound
    <3>6. CASE FetcherReads
      <4>1. /\ pc["fetcher"] = "value" /\ UNCHANGED <<fi, register, m_tIOMutex>>
            /\ \/ fields' = Append(fields, register) /\ tries' = 0 /\ pc'["fetcher"] = "unlock"
               \/ tries + 1 < maxRetries /\ tries' = tries + 1 /\ UNCHANGED <<fields, pc>>
        BY <2>1, <2>3, <3>6 DEF FetcherReads, FetcherStages, At
      <4>2. tries' < maxRetries
        BY <4>1, BearingAssumption
      <4>3. /\ fields \in Seq(Fields) /\ Len(fields) = fi - 1 /\ register = FetchOrder[fi]
            /\ \A k \in 1..Len(fields) : Sound(k)
        BY <4>1 DEF BusInv
      <4>4. CASE fields' = Append(fields, register) /\ pc'["fetcher"] = "unlock"
        <5>1. /\ fields' \in Seq(Fields) /\ Len(fields') = fi /\ fields'[fi] = FetchOrder[fi]
              /\ \A k \in 1..Len(fields) : fields'[k] = fields[k]
          BY <2>2, <4>3, <4>4, Lists
        <5>2. \A k \in 1..Len(fields') : k \in 1..Len(fields) \/ k = fi
          BY <2>2, <4>3, <5>1
        <5>3. \A k \in 1..Len(fields') : Sound(k)'
          BY <4>3, <5>1, <5>2 DEF Sound
        <5>4. QED
          BY <3>1, <4>1, <4>2, <4>4, <5>1, <5>3 DEF BusInv
      <4>5. CASE UNCHANGED <<fields, pc>>
        BY <3>1, <4>1, <4>2, <4>5 DEF BusInv, Sound
      <4>6. QED
        BY <4>1, <4>4, <4>5
    <3>7. CASE FetcherUnlocks
      <4>1. /\ pc["fetcher"] = "unlock" /\ m_tIOMutex' = "free" /\ UNCHANGED <<register, tries, fields>>
            /\ \/ fi' = fi /\ pc'["fetcher"] \in {"sleep", "queue"}
               \/ fi + 1 \in 1..Len(FetchOrder) /\ fi' = fi + 1 /\ pc'["fetcher"] = "lock"
        <5>1. /\ pc["fetcher"] = "unlock" /\ m_tIOMutex' = "free" /\ UNCHANGED <<register, tries, fields>>
              /\ \/ fi' = fi /\ (Go("fetcher", "sleep") \/ Go("fetcher", "queue"))
                 \/ fi = 1 /\ fi' = 2 /\ Go("fetcher", "lock")
                 \/ fi \in 2..Len(FetchOrder) - 1 /\ fi' = fi + 1 /\ Go("fetcher", "lock")
          BY <3>7 DEF FetcherUnlocks, At
        <5>2. 1 + 1 \in 1..Len(FetchOrder) /\ \A n \in 2..Len(FetchOrder) - 1 : n + 1 \in 1..Len(FetchOrder)
          BY <2>2
        <5>3. QED
          BY <2>3, <5>1, <5>2 DEF FetcherStages
      <4>2. m_tIOMutex = "fetcher" \/ "sender" \in cancelled
        BY <4>1 DEF BusInv
      <4>3. Len(fields) = fi /\ (fi' = fi + 1 => Len(fields) = fi' - 1)
        BY <2>2, <4>1 DEF BusInv
      <4>4. QED
        BY <3>1, <4>1, <4>2, <4>3 DEF BusInv, Sound
    <3>8. CASE FetcherLocksQueue \/ FetcherPushes \/ Sleep("fetcher")
      <4>1. /\ pc'["fetcher"] \in {"push", "sleep", "test"} /\ UNCHANGED <<register, fi, tries, fields, m_tIOMutex>>
        BY <2>3, <3>8 DEF FetcherLocksQueue, FetcherPushes, Sleep, FetcherStages, fetchVars, mutexes
      <4>2. QED
        BY <3>1, <4>1 DEF BusInv, Sound
    <3>9. QED
      BY <2>8, <3>2, <3>3, <3>4, <3>5, <3>6, <3>7, <3>8 DEF Fetcher
  <2>9. QED
    BY <2>5, <2>6, <2>7, <2>8 DEF Next
<1>3. QED
  BY <1>1, <1>2, StageAlways, PTL DEF Spec

(* A field of a packet comes from the register it was asked from, unless   *)
(* the bus failed for good: although the sender addresses other registers  *)
(* between any two calls, and although its cancellation frees the bus      *)
(* while the fetcher has it. With failures that outlast the retries this   *)
(* does not hold: the fetcher then goes on without the bus.                *)
THEOREM OwnRegisterHolds ==
  ASSUME Failures # "many"
  PROVE  Spec => []OwnRegister
<1>1. BusInv => OwnRegister
  BY DEF BusInv, Sound, OwnRegister
<1>2. QED
  BY <1>1, BusAlways, PTL

-----------------------------------------------------------------------------
(* The fetcher appends to the queue and main takes from it, each with the  *)
(* mutex of the queue.                                                     *)
LEMMA QueueAlways == Spec => []QueueInv
<1>1. Init => QueueInv
  <2> SUFFICES ASSUME Init PROVE QueueInv
    OBVIOUS
  <2>1. pc["fetcher"] = "test" /\ pc["main"] = "receive" /\ fi = 1 /\ psPacket = 0
        /\ m_tPackets = <<>> /\ m_tQueuedPackets = <<>>
    BY DEF Init
  <2>2. 1 \in 1..Len(FetchOrder)
    BY OrderOfRegisters
  <2>3. <<>> \in Seq(Nat) /\ Len(<<>>) = 0
    OBVIOUS
  <2>4. QED
    BY <2>1, <2>2, <2>3 DEF QueueInv, Moving, LastQueued, At
<1>2. QueueInv /\ StageInv /\ StageInv' /\ [Next]_vars => QueueInv'
  <2> SUFFICES ASSUME QueueInv, StageInv, StageInv', [Next]_vars, cancelled' = {}
               PROVE  QueueInv'
    BY DEF QueueInv
  <2>1. \A l \in FetcherStages : Go("fetcher", l) => pc'["fetcher"] = l
    BY OneMoves DEF Threads, Stages
  <2>2. \A l \in MainStages : Go("main", l) => pc'["main"] = l
    BY OneMoves DEF Threads, Stages
  <2>3. Len(FetchOrder) \in Nat /\ Len(FetchOrder) > 1
    BY OrderOfRegisters
  <2>4. ASSUME cancelled = {},
               UNCHANGED <<fi, psPacket, m_tPacketQueueMutex, m_tPackets, m_tQueuedPackets>>,
               pc'["main"] = pc["main"],
               \/ pc'["fetcher"] = pc["fetcher"]
               \/ /\ {pc["fetcher"], pc'["fetcher"]} \cap {"test", "sleep", "queue", "push"} = {}
        PROVE  QueueInv'
    BY <2>4 DEF QueueInv, Moving, LastQueued, At
  <2>5. CASE UNCHANGED vars
    BY <2>4, <2>5 DEF vars, fetchVars, mutexes, packets
  <2>6. CASE Sender
    <3>1. /\ pc'["fetcher"] = pc["fetcher"] /\ pc'["main"] = pc["main"]
          /\ UNCHANGED <<m_tPacketQueueMutex, cancelled, packets, fetchVars>>
      BY <2>6, SenderMoves
    <3>2. QED
      BY <2>4, <3>1 DEF packets, fetchVars
  <2>7. CASE Fetcher
    <3>1. pc'["main"] = pc["main"] /\ UNCHANGED <<cancelled, m_tPackets>> /\ cancelled = {}
      BY <2>7, FetcherMoves
    <3>2. CASE ThreadCleanup("fetcher")
      BY <3>1, <3>2 DEF ThreadCleanup, Cancelled
    <3>3. CASE FetcherTest \/ Sleep("fetcher")
      <4>1. /\ pc["fetcher"] \in {"test", "sleep"}
            /\ \/ pc'["fetcher"] = "lock" /\ fi' = 1
               \/ pc'["fetcher"] = "test" /\ fi' = fi
            /\ UNCHANGED <<psPacket, m_tPacketQueueMutex, m_tQueuedPackets>>
        BY <2>1, <3>3 DEF FetcherTest, Sleep, FetcherStages, mutexes, packets, fetchVars, At
      <4>2. fi' \in 1..Len(FetchOrder)
        BY <2>3, <3>1, <4>1 DEF QueueInv
      <4>3. LastQueued' = psPacket /\ LastQueued = psPacket
        BY <4>1 DEF LastQueued, At
      <4>4. QED
        BY <3>1, <4>1, <4>2, <4>3 DEF QueueInv, Moving, At
    <3>4. CASE FetcherLocks
      <4>1. /\ pc["fetcher"] = "lock" /\ pc'["fetcher"] = "address"
            /\ UNCHANGED <<fi, psPacket, m_tPacketQueueMutex, m_tQueuedPackets>>
        BY <2>1, <3>4 DEF FetcherLocks, LockBus, FetcherStages, packets, fetchVars, At
      <4>2. QED
        BY <2>4, <3>1, <4>1
    <3>5. CASE FetcherWritesAddress
      <4>1. /\ pc["fetcher"] = "address" /\ (pc' = pc \/ pc'["fetcher"] = "value")
            /\ UNCHANGED <<fi, psPacket, m_tPacketQueueMutex, m_tQueuedPackets>>
        BY <2>1, <3>5 DEF FetcherWritesAddress, FetcherStages, packets, At
      <4>2. QED
        BY <2>4, <3>1, <4>1
    <3>6. CASE FetcherReads
      <4>1. /\ pc["fetcher"] = "value" /\ (pc' = pc \/ pc'["fetcher"] = "unlock")
            /\ UNCHANGED <<fi, psPacket, m_tPacketQueueMutex, m_tQueuedPackets>>
        BY <2>1, <3>6 DEF FetcherReads, FetcherStages, packets, At
      <4>2. QED
        BY <2>4, <3>1, <4>1
    <3>7. CASE FetcherUnlocks
      <4>1. /\ pc["fetcher"] = "unlock" /\ UNCHANGED <<m_tPacketQueueMutex, m_tQueuedPackets>>
            /\ \/ fi = 1 /\ fi' = fi /\ psPacket' = psPacket /\ pc'["fetcher"] = "sleep"
               \/ fi = 1 /\ fi' = 2 /\ psPacket' = psPacket + 1 /\ pc'["fetcher"] = "lock"
               \/ fi \in 2..Len(FetchOrder) - 1 /\ fi' = fi + 1 /\ psPacket' = psPacket /\ pc'["fetcher"] = "lock"
               \/ fi = Len(FetchOrder) /\ fi' = fi /\ psPacket' = psPacket /\ pc'["fetcher"] = "queue"
        BY <2>1, <3>7 DEF FetcherUnlocks, FetcherStages, packets, At
      <4>2. fi \in 1..Len(FetchOrder) /\ psPacket \in Nat /\ (fi > 1 => psPacket > 0)
        BY <3>1, <4>1 DEF QueueInv, At
      <4>3. fi' \in 1..Len(FetchOrder) /\ psPacket' \in Nat
            /\ (fi' > 1 => psPacket' > 0)
        BY <2>3, <4>1, <4>2
      <4>4. LastQueued' = LastQueued
        BY <2>3, <4>1, <4>2 DEF LastQueued, At
      <4>5. QED
        BY <3>1, <4>1, <4>3, <4>4 DEF QueueInv, Moving, At
    <3>8. CASE FetcherLocksQueue
      <4>1. /\ pc["fetcher"] = "queue" /\ pc'["fetcher"] = "push" /\ m_tPacketQueueMutex = "free"
            /\ m_tPacketQueueMutex' = "fetcher" /\ UNCHANGED <<fi, psPacket, m_tQueuedPackets>>
        BY <2>1, <3>8 DEF FetcherLocksQueue, FetcherStages, packets, fetchVars, At
      <4>2. LastQueued' = LastQueued
        BY <4>1 DEF LastQueued, At
      <4>3. QED
        BY <3>1, <4>1, <4>2 DEF QueueInv, Moving, At
    <3>9. CASE FetcherPushes
      <4>1. /\ pc["fetcher"] = "push" /\ pc'["fetcher"] = "sleep" /\ UNCHANGED <<fi, psPacket>>
            /\ m_tQueuedPackets' = Append(m_tQueuedPackets, psPacket)
        BY <2>1, <3>9 DEF FetcherPushes, Queued, FetcherStages, fetchVars, At
      <4>2. /\ fi = Len(FetchOrder) /\ psPacket \in Nat /\ psPacket > 0 /\ m_tPacketQueueMutex = "fetcher"
            /\ m_tQueuedPackets \in Seq(Nat) /\ m_tPackets \in Seq(Nat)
            /\ \A k \in 1..Len(m_tQueuedPackets) : m_tQueuedPackets[k] = Len(m_tPackets) - Moving + k
            /\ Len(m_tPackets) - Moving + Len(m_tQueuedPackets) = LastQueued
        BY <2>3, <3>1, <4>1 DEF QueueInv, At
      <4>3. pc["main"] \notin {"move", "pop"} /\ Moving = 0 /\ Moving' = 0
        BY <3>1, <4>2 DEF QueueInv, Moving
      <4>4. LastQueued = psPacket - 1 /\ LastQueued' = psPacket
        <5>1. fi # 1
          BY <2>3, <4>2
        <5>2. LastQueued = psPacket - 1
          BY <4>1, <5>1 DEF LastQueued, At
        <5>3. LastQueued' = psPacket
          BY <4>1 DEF LastQueued, At
        <5>4. QED
          BY <5>2, <5>3
      <4>5. /\ m_tQueuedPackets' \in Seq(Nat) /\ Len(m_tQueuedPackets') = Len(m_tQueuedPackets) + 1
            /\ \A k \in 1..Len(m_tQueuedPackets) : m_tQueuedPackets'[k] = m_tQueuedPackets[k]
            /\ m_tQueuedPackets'[Len(m_tQueuedPackets) + 1] = psPacket
            /\ Len(m_tQueuedPackets) \in Nat /\ Len(m_tPackets) \in Nat
        BY <4>1, <4>2, Lists
      <4>6. Len(m_tPackets) + Len(m_tQueuedPackets') = psPacket
        BY <4>2, <4>3, <4>4, <4>5
      <4>7. \A k \in 1..Len(m_tQueuedPackets') : m_tQueuedPackets'[k] = Len(m_tPackets) + k
        <5>1. \A k \in 1..Len(m_tQueuedPackets') : k \in 1..Len(m_tQueuedPackets) \/ k = Len(m_tQueuedPackets) + 1
          BY <4>5
        <5>2. Len(m_tPackets) + (Len(m_tQueuedPackets) + 1) = psPacket
          BY <4>5, <4>6
        <5>3. \A k \in 1..Len(m_tQueuedPackets) : m_tQueuedPackets[k] = Len(m_tPackets) + k
          BY <4>2, <4>3, <4>5
        <5>4. QED
          BY <4>5, <5>1, <5>2, <5>3
      <4>8. /\ Len(m_tPackets) - 0 + Len(m_tQueuedPackets') = psPacket
            /\ \A k \in 1..Len(m_tQueuedPackets') : m_tQueuedPackets'[k] = Len(m_tPackets) - 0 + k
        BY <4>5, <4>6, <4>7
      <4>9. QED
        BY <2>3, <3>1, <4>1, <4>2, <4>3, <4>4, <4>5, <4>8 DEF QueueInv, At
    <3>10. QED
      BY <2>7, <3>2, <3>3, <3>4, <3>5, <3>6, <3>7, <3>8, <3>9 DEF Fetcher
  <2>8. CASE Main
    <3>1. pc'["fetcher"] = pc["fetcher"] /\ UNCHANGED <<fi, psPacket>>
      BY <2>8, MainMoves DEF fetchVars
    <3>2. LastQueued' = LastQueued
      BY <3>1 DEF LastQueued, At
    <3>3. CASE DestroyActuator \/ DestroySensor
      BY <3>3 DEF DestroyActuator, DestroySensor
    <3>4. CASE CloseDevice \/ ErasesPackets \/ Destroyed
      <4>1. "sender" \in cancelled /\ UNCHANGED cancelled
        BY <3>4 DEF CloseDevice, ErasesPackets, Destroyed, StageInv, At
      <4>2. QED
        BY <4>1
    <3>5. CASE ControlStep \/ SendData \/ CopiesHeader \/ CopiesBody
      <4>1. /\ pc["main"] \notin {"move", "pop"} /\ pc'["main"] \notin {"move", "pop"}
            /\ UNCHANGED <<cancelled, m_tPacketQueueMutex, m_tPackets, m_tQueuedPackets>>
        BY <2>2, <3>5 DEF ControlStep, SendData, CopiesHeader, CopiesBody, MainStages, mutexes, packets, At
      <4>2. QED
        BY <3>1, <3>2, <4>1 DEF QueueInv, Moving, At
    <3>6. CASE ReceiveData
      <4>1. /\ pc["main"] = "receive" /\ pc'["main"] = "move"
            /\ m_tPacketQueueMutex = "free" /\ m_tPacketQueueMutex' = "main"
            /\ UNCHANGED <<cancelled, m_tPackets, m_tQueuedPackets>>
        BY <2>2, <3>6 DEF ReceiveData, MainStages, packets, At
      <4>2. QED
        BY <3>1, <3>2, <4>1 DEF QueueInv, Moving, At
    <3>7. CASE Received
      <4>1. /\ pc["main"] = "move" /\ pc'["main"] = "control" /\ m_tPacketQueueMutex' = "free"
            /\ UNCHANGED <<cancelled, m_tPackets, m_tQueuedPackets>>
        BY <2>2, <3>7 DEF Received, MainStages, packets, At
      <4>2. pc["fetcher"] # "push"
        BY <4>1 DEF QueueInv
      <4>3. QED
        BY <3>1, <3>2, <4>1, <4>2 DEF QueueInv, Moving, At
    <3>8. CASE MovesPacket
      <4>1. /\ pc["main"] = "move" /\ pc'["main"] = "pop" /\ m_tQueuedPackets # <<>>
            /\ m_tPackets' = Append(m_tPackets, Head(m_tQueuedPackets))
            /\ UNCHANGED <<cancelled, m_tPacketQueueMutex, m_tQueuedPackets>>
        BY <2>2, <3>8 DEF MovesPacket, MainStages, mutexes, At
      <4>2. /\ m_tQueuedPackets \in Seq(Nat) /\ m_tPackets \in Seq(Nat)
            /\ \A k \in 1..Len(m_tPackets) : m_tPackets[k] = k
            /\ \A k \in 1..Len(m_tQueuedPackets) : m_tQueuedPackets[k] = Len(m_tPackets) - 0 + k
            /\ Len(m_tPackets) - 0 + Len(m_tQueuedPackets) = LastQueued
        BY <4>1 DEF QueueInv, Moving
      <4>3. /\ Len(m_tPackets) \in Nat /\ Len(m_tQueuedPackets) \in Nat /\ Len(m_tQueuedPackets) > 0
            /\ Head(m_tQueuedPackets) = m_tQueuedPackets[1] /\ Head(m_tQueuedPackets) \in Nat
        BY <4>1, <4>2, Lists
      <4>4. Head(m_tQueuedPackets) = Len(m_tPackets) + 1
        <5>1. 1 \in 1..Len(m_tQueuedPackets)
          BY <4>3
        <5>2. QED
          BY <4>2, <4>3, <5>1
      <4>5. /\ m_tPackets' \in Seq(Nat) /\ Len(m_tPackets') = Len(m_tPackets) + 1 /\ m_tPackets' # <<>>
            /\ \A k \in 1..Len(m_tPackets) : m_tPackets'[k] = m_tPackets[k]
            /\ m_tPackets'[Len(m_tPackets) + 1] = Len(m_tPackets) + 1
        BY <4>1, <4>2, <4>3, <4>4, Lists
      <4>6. \A k \in 1..Len(m_tPackets') : m_tPackets'[k] = k
        <5>1. \A k \in 1..Len(m_tPackets') : k \in 1..Len(m_tPackets) \/ k = Len(m_tPackets) + 1
          BY <4>3, <4>5
        <5>2. QED
          BY <4>2, <4>5, <5>1
      <4>7. Moving' = 1 /\ Len(m_tPackets') - 1 = Len(m_tPackets) - 0
        BY <4>1, <4>3, <4>5 DEF Moving
      <4>8. /\ \A k \in 1..Len(m_tQueuedPackets') : m_tQueuedPackets'[k] = Len(m_tPackets') - 1 + k
            /\ Len(m_tPackets') - 1 + Len(m_tQueuedPackets') = LastQueued
        BY <4>1, <4>2, <4>7
      <4>9. QED
        BY <3>1, <3>2, <4>1, <4>2, <4>5, <4>6, <4>7, <4>8 DEF QueueInv, At
    <3>9. CASE PopsPacket
      <4>1. /\ pc["main"] = "pop" /\ pc'["main"] = "move" /\ m_tQueuedPackets' = Tail(m_tQueuedPackets)
            /\ UNCHANGED <<cancelled, m_tPacketQueueMutex, m_tPackets>>
        BY <2>2, <3>9 DEF PopsPacket, MainStages, mutexes, At
      <4>2. /\ m_tQueuedPackets \in Seq(Nat) /\ m_tPackets \in Seq(Nat) /\ m_tQueuedPackets # <<>>
            /\ \A k \in 1..Len(m_tQueuedPackets) : m_tQueuedPackets[k] = Len(m_tPackets) - 1 + k
            /\ Len(m_tPackets) - 1 + Len(m_tQueuedPackets) = LastQueued
        BY <4>1 DEF QueueInv, Moving
      <4>3. /\ Len(m_tPackets) \in Nat /\ Len(m_tQueuedPackets) \in Nat /\ Len(m_tQueuedPackets) > 0
            /\ m_tQueuedPackets' \in Seq(Nat) /\ Len(m_tQueuedPackets') = Len(m_tQueuedPackets) - 1
            /\ \A k \in 1..(Len(m_tQueuedPackets) - 1) : m_tQueuedPackets'[k] = m_tQueuedPackets[k + 1]
        BY <4>1, <4>2, Lists
      <4>4. \A k \in 1..Len(m_tQueuedPackets') : m_tQueuedPackets'[k] = Len(m_tPackets') - 0 + k
        <5>1. \A k \in 1..Len(m_tQueuedPackets') :
                 /\ k \in 1..(Len(m_tQueuedPackets) - 1) /\ k + 1 \in 1..Len(m_tQueuedPackets)
                 /\ Len(m_tPackets) - 1 + (k + 1) = Len(m_tPackets) - 0 + k
          BY <4>3
        <5>2. QED
          BY <4>1, <4>2, <4>3, <5>1
      <4>5. Moving' = 0 /\ Len(m_tPackets') - 0 + Len(m_tQueuedPackets') = LastQueued
        BY <4>1, <4>2, <4>3 DEF Moving
      <4>6. QED
        BY <3>1, <3>2, <4>1, <4>2, <4>3, <4>4, <4>5 DEF QueueInv, At
    <3>10. QED
      BY <2>8, <3>3, <3>4, <3>5, <3>6, <3>7, <3>8, <3>9 DEF Main
  <2>9. QED
    BY <2>5, <2>6, <2>7, <2>8 DEF Next
<1>3. QED
  BY <1>1, <1>2, StageAlways, PTL DEF Spec

(* Until the first thread is cancelled the robot gets every message that   *)
(* was fetched, once and in the order of fetching: the fetcher appends to  *)
(* the queue and main takes from it under one mutex, and between           *)
(* push_back and pop_front the message is in both lists.                   *)
THEOREM OnceInOrderHolds == Spec => []OnceInOrder
<1>1. QueueInv => OnceInOrder
  <2> SUFFICES ASSUME QueueInv, cancelled = {}
               PROVE  OnceInOrder
    BY DEF OnceInOrder
  <2>1. PICK rest \in Seq(Nat) :
           /\ rest = IF At("main", "pop") THEN Tail(m_tQueuedPackets) ELSE m_tQueuedPackets
           /\ Len(m_tPackets) + Len(rest) = LastQueued
           /\ \A k \in 1..Len(rest) : rest[k] = Len(m_tPackets) + k
    <3>1. CASE pc["main"] = "pop"
      <4>1. /\ m_tQueuedPackets \in Seq(Nat) /\ m_tPackets \in Seq(Nat) /\ m_tQueuedPackets # <<>>
            /\ \A k \in 1..Len(m_tQueuedPackets) : m_tQueuedPackets[k] = Len(m_tPackets) - 1 + k
            /\ Len(m_tPackets) - 1 + Len(m_tQueuedPackets) = LastQueued
        BY <3>1 DEF QueueInv, Moving
      <4>2. PICK rest \in Seq(Nat) : rest = Tail(m_tQueuedPackets)
        BY <4>1, Lists
      <4>3. /\ Len(m_tPackets) \in Nat /\ Len(m_tQueuedPackets) \in Nat /\ Len(m_tQueuedPackets) > 0
            /\ Len(rest) = Len(m_tQueuedPackets) - 1
            /\ \A k \in 1..(Len(m_tQueuedPackets) - 1) : rest[k] = m_tQueuedPackets[k + 1]
        BY <4>1, <4>2, Lists
      <4>4. \A k \in 1..Len(rest) : rest[k] = Len(m_tPackets) + k
        <5>1. \A k \in 1..Len(rest) :
                 /\ k \in 1..(Len(m_tQueuedPackets) - 1) /\ k + 1 \in 1..Len(m_tQueuedPackets)
                 /\ Len(m_tPackets) - 1 + (k + 1) = Len(m_tPackets) + k
          BY <4>3
        <5>2. QED
          BY <4>1, <4>3, <5>1
      <4>5. Len(m_tPackets) + Len(rest) = LastQueued
        BY <4>1, <4>3
      <4>6. QED
        BY <3>1, <4>2, <4>4, <4>5 DEF At
    <3>2. CASE pc["main"] # "pop"
      <4>1. /\ m_tQueuedPackets \in Seq(Nat) /\ m_tPackets \in Seq(Nat)
            /\ \A k \in 1..Len(m_tQueuedPackets) : m_tQueuedPackets[k] = Len(m_tPackets) - 0 + k
            /\ Len(m_tPackets) - 0 + Len(m_tQueuedPackets) = LastQueued
        BY <3>2 DEF QueueInv, Moving
      <4>2. Len(m_tPackets) - 0 = Len(m_tPackets)
        BY <4>1
      <4>3. QED
        BY <3>2, <4>1, <4>2 DEF At
    <3>3. QED
      BY <3>1, <3>2
  <2>2. m_tPackets \in Seq(Nat) /\ \A k \in 1..Len(m_tPackets) : m_tPackets[k] = k
    BY DEF QueueInv
  <2>3. ASSUME NEW a \in Seq(Nat), NEW b \in Seq(Nat),
               \A k \in 1..Len(a) : a[k] = k, \A k \in 1..Len(b) : b[k] = Len(a) + k
        PROVE  Len(a \o b) = Len(a) + Len(b) /\ \A k \in 1..Len(a \o b) : (a \o b)[k] = k
    <3>1. Len(a \o b) = Len(a) + Len(b) /\ Len(a) \in Nat /\ Len(b) \in Nat
      OBVIOUS
    <3>2. \A k \in 1..Len(a) + Len(b) : (a \o b)[k] = IF k <= Len(a) THEN a[k] ELSE b[k - Len(a)]
      OBVIOUS
    <3>3. \A k \in 1..Len(a) + Len(b) :
             IF k <= Len(a) THEN k \in 1..Len(a) ELSE k - Len(a) \in 1..Len(b) /\ Len(a) + (k - Len(a)) = k
      BY <3>1
    <3>4. QED
      BY <2>3, <3>1, <3>2, <3>3
  <2>4. Len(m_tPackets \o rest) = LastQueued /\ \A k \in 1..Len(m_tPackets \o rest) : (m_tPackets \o rest)[k] = k
    BY <2>1, <2>2, <2>3
  <2>5. QED
    BY <2>1, <2>4 DEF OnceInOrder, LastQueued
<1>2. QED
  BY <1>1, QueueAlways, PTL
=============================================================================
