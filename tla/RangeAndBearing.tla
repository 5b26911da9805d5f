-------------------------- MODULE RangeAndBearing --------------------------
(***************************************************************************)
(* The range-and-bearing board of a real e-puck: a thread that fetches the *)
(* messages it receives, a thread that writes the messages to send, and    *)
(* the main thread, which exchanges data with both once per control step   *)
(* and destroys them at the end (real_epuck_range_and_bearing_sensor.cpp,  *)
(* real_epuck_range_and_bearing_actuator.cpp, real_epuck_i2c_device.cpp).  *)
(*                                                                         *)
(* The mutexes are of the default kind: whoever unlocks one frees it. A    *)
(* register's value is the register's number, so that a value read tells   *)
(* where it came from; a message is its number, a command likewise, and    *)
(* commands are counted modulo Commands.                                   *)
(***************************************************************************)
EXTENDS Naturals, Sequences

CONSTANTS DataSize,    \* m_uDataSize
          Emitters,    \* 12 on the robot
          maxRetries, Messages, Commands,
          Failures,    \* of the bus: none, few (a retry helps), many
          Closes       \* whether the controller is destroyed

ASSUME BearingAssumption ==
  /\ DataSize \in 1..4 /\ Emitters \in Nat \ {0} /\ maxRetries \in Nat \ {0}
  /\ Messages \in Nat /\ Commands \in Nat \ {0}
  /\ Failures \in {"none", "few", "many"} /\ Closes \in BOOLEAN

VARIABLES
  m_tIOMutex, m_tPacketQueueMutex, m_tDataMutex,   \* the thread that locked it, or free
  pc,                          \* where each thread is
  cancelled,                   \* threads asked to end
  register,                    \* the register the board was last addressed at
  fi, tries, fields,           \* fetcher: register it reads, failed calls, values read
  psPacket,                    \* the message being fetched
  m_tQueuedPackets, m_tPackets,
  m_sDesiredData, m_sSentData,
  todo, unRetries, frame       \* sender: registers to write, failed calls, commands written

mutexes == <<m_tIOMutex, m_tPacketQueueMutex, m_tDataMutex>>
fetchVars == <<fi, tries, fields, psPacket>>
packets == <<m_tQueuedPackets, m_tPackets>>
sendVars == <<todo, unRetries, frame>>
vars == <<mutexes, pc, cancelled, register, fetchVars, packets, m_sDesiredData, m_sSentData, sendVars>>

Go(t, l) == pc' = [pc EXCEPT ![t] = l]
At(t, l) == pc[t] = l

States == {"STATE_ALL_EMITTERS_DISABLED", "STATE_ALL_EMITTERS_SAME_DATA", "STATE_EMITTERS_DIFFERENT"}

(* The registers that hold the bytes of a message, the last byte first. *)
DataReceived(n) == SubSeq(<<10, 11, 1, 2>>, 5 - n, 4)
DataToSend(n) == SubSeq(<<13, 19, 20, 14>>, 5 - n, 4)

FetchOrder == <<0>> \o DataReceived(DataSize) \o <<3, 4, 5, 6>>

(* Emitter i has its own register for the first byte; register 15 sends.   *)
EmitterNumbers == 0..Emitters - 1
Loops == Emitters
ForEmitters ==
  [k \in 1..Loops * (DataSize + 1) |->
     LET i == (k - 1) \div (DataSize + 1)
         j == (k - 1) % (DataSize + 1)
     IN  [emitter |-> i,
          reg     |-> IF j = DataSize THEN 15
                      ELSE IF j = DataSize - 1 THEN i ELSE DataToSend(DataSize)[j + 1]]]

Frame(data) ==
  CASE data.state = "STATE_ALL_EMITTERS_SAME_DATA" ->
         [k \in 1..DataSize |-> [emitter |-> 0, reg |-> DataToSend(DataSize)[k]]]
    [] data.state = "STATE_EMITTERS_DIFFERENT" ->
         LET Written(w) == w.reg = 15 \/ w.emitter \in data.Enabled
         IN  SelectSeq(ForEmitters, Written)
    [] OTHER -> <<>>

-----------------------------------------------------------------------------
(* Cancellation: write, read, usleep and pthread_testcancel look at it;    *)
(* pthread_mutex_lock does not. The cleanup unlocks both mutexes, whoever  *)
(* holds them.                                                             *)
\* faulty variant: the threads disable their cancellation
NoPoints == {}
Points == {"test", "address", "value", "write", "sleep"}
Cancelled(t) == t \in cancelled /\ pc[t] \in Points

ThreadCleanup(t) ==
  /\ Cancelled(t)
  /\ Go(t, "ended")
  /\ m_tIOMutex' = "free"
  /\ m_tPacketQueueMutex' = IF t = "fetcher" THEN "free" ELSE m_tPacketQueueMutex
  /\ m_tDataMutex' = IF t = "sender" THEN "free" ELSE m_tDataMutex
  /\ UNCHANGED <<cancelled, register, fetchVars, packets, m_sDesiredData, m_sSentData, sendVars>>

LockBus(t, l) ==
  /\ m_tIOMutex = "free"
  /\ m_tIOMutex' = t
  /\ Go(t, l)

-----------------------------------------------------------------------------
(* The fetcher: ReadRegister for every register in turn *)
MayFail(n) == Failures = "many" \/ (Failures = "few" /\ n + 1 < maxRetries)

FetcherTest ==
  /\ At("fetcher", "test") /\ ~Cancelled("fetcher")
  /\ Go("fetcher", "lock")
  /\ fi' = 1 /\ tries' = 0 /\ fields' = <<>>
  /\ UNCHANGED <<mutexes, cancelled, register, psPacket, packets, m_sDesiredData, m_sSentData, sendVars>>

FetcherLocks ==
  /\ At("fetcher", "lock")
  /\ LockBus("fetcher", "address")
  /\ UNCHANGED <<m_tPacketQueueMutex, m_tDataMutex, cancelled, register, fetchVars, packets,
                 m_sDesiredData, m_sSentData, sendVars>>

\* faulty variant: the bus is free between the write and the read
FreeBetween == "free"
Between == m_tIOMutex

FetcherWritesAddress ==
  /\ At("fetcher", "address") /\ ~Cancelled("fetcher")
  /\ \/ /\ register' = FetchOrder[fi]
        /\ tries' = 0 /\ Go("fetcher", "value")
        /\ m_tIOMutex' = Between
     \/ /\ MayFail(tries)
        /\ IF tries + 1 < maxRetries
           THEN tries' = tries + 1 /\ UNCHANGED <<m_tIOMutex, pc>>
           ELSE tries' = 0 /\ m_tIOMutex' = "free" /\ Go("fetcher", "value")
        /\ UNCHANGED register
  /\ UNCHANGED <<m_tPacketQueueMutex, m_tDataMutex, cancelled, fi, fields, psPacket, packets,
                 m_sDesiredData, m_sSentData, sendVars>>

(* When the retries are used up the value is the 0 it was set to, which no *)
(* register gave.                                                          *)
None == 255

FetcherReads ==
  /\ At("fetcher", "value") /\ ~Cancelled("fetcher")
  /\ \/ /\ fields' = Append(fields, register)
        /\ tries' = 0 /\ Go("fetcher", "unlock")
        /\ UNCHANGED m_tIOMutex
     \/ /\ MayFail(tries)
        /\ IF tries + 1 < maxRetries
           THEN tries' = tries + 1 /\ UNCHANGED <<m_tIOMutex, pc, fields>>
           ELSE /\ tries' = 0 /\ m_tIOMutex' = "free" /\ Go("fetcher", "unlock")
                /\ fields' = Append(fields, None)
  /\ UNCHANGED <<m_tPacketQueueMutex, m_tDataMutex, cancelled, register, fi, psPacket, packets,
                 m_sDesiredData, m_sSentData, sendVars>>

(* After the first register the board may have nothing to say; after the   *)
(* last one the packet is queued.                                          *)
FetcherUnlocks ==
  /\ At("fetcher", "unlock")
  /\ m_tIOMutex' = "free"
  /\ \/ fi = 1 /\ Go("fetcher", "sleep") /\ UNCHANGED <<fi, psPacket>>
     \/ fi = 1 /\ psPacket < Messages /\ fields # <<None>> /\ "fetcher" \notin cancelled
        /\ psPacket' = psPacket + 1 /\ fi' = 2 /\ Go("fetcher", "lock")
     \/ fi \in 2..Len(FetchOrder) - 1 /\ fi' = fi + 1 /\ Go("fetcher", "lock") /\ UNCHANGED psPacket
     \/ fi = Len(FetchOrder) /\ Go("fetcher", "queue") /\ UNCHANGED <<fi, psPacket>>
  /\ UNCHANGED <<m_tPacketQueueMutex, m_tDataMutex, cancelled, register, tries, fields, packets,
                 m_sDesiredData, m_sSentData, sendVars>>

FetcherLocksQueue ==
  /\ At("fetcher", "queue")
  /\ m_tPacketQueueMutex = "free"
  /\ m_tPacketQueueMutex' = "fetcher"
  /\ Go("fetcher", "push")
  /\ UNCHANGED <<m_tIOMutex, m_tDataMutex, cancelled, register, fetchVars, packets,
                 m_sDesiredData, m_sSentData, sendVars>>

\* faulty variant: only the last message is kept
Latest == <<psPacket>>
Queued == Append(m_tQueuedPackets, psPacket)

FetcherPushes ==
  /\ At("fetcher", "push")
  /\ m_tQueuedPackets' = Queued
  /\ m_tPacketQueueMutex' = "free"
  /\ Go("fetcher", "sleep")
  /\ UNCHANGED <<m_tIOMutex, m_tDataMutex, cancelled, register, fetchVars, m_tPackets,
                 m_sDesiredData, m_sSentData, sendVars>>

Sleep(t) ==
  /\ At(t, "sleep") /\ ~Cancelled(t)
  /\ Go(t, "test")
  /\ UNCHANGED <<mutexes, cancelled, register, fetchVars, packets, m_sDesiredData, m_sSentData, sendVars>>
-----------------------------------------------------------------------------
(* The sender: one frame, with the data locked throughout *)
SenderTest ==
  /\ At("sender", "test") /\ ~Cancelled("sender")
  /\ Go("sender", "data")
  /\ UNCHANGED <<mutexes, cancelled, register, fetchVars, packets, m_sDesiredData, m_sSentData, sendVars>>

\* faulty variant: the data are unlocked while the frame is written
UnlockedFrame == "free"
DataHolder == "sender"

SenderLocksData ==
  /\ At("sender", "data")
  /\ m_tDataMutex = "free"
  /\ m_tDataMutex' = DataHolder
  /\ todo' = Frame(m_sSentData)
  /\ frame' = {m_sSentData.header}
  /\ Go("sender", "next")
  /\ UNCHANGED <<m_tIOMutex, m_tPacketQueueMutex, cancelled, register, fetchVars, packets,
                 m_sDesiredData, m_sSentData, unRetries>>

SenderLocksBus ==
  /\ At("sender", "next") /\ todo # <<>>
  /\ LockBus("sender", "write")
  /\ unRetries' = 0
  /\ UNCHANGED <<m_tPacketQueueMutex, m_tDataMutex, cancelled, register, fetchVars, packets,
                 m_sDesiredData, m_sSentData, todo, frame>>

(* WriteData unlocks the bus again at each failure after its last retry,   *)
(* and goes on.                                                            *)
SenderWrites ==
  /\ At("sender", "write") /\ ~Cancelled("sender")
  /\ \/ /\ register' = Head(todo).reg
        /\ frame' = frame \cup {m_sSentData.body}
        /\ todo' = Tail(todo)
        /\ m_tIOMutex' = "free"
        /\ Go("sender", "next")
        /\ UNCHANGED unRetries
     \/ /\ MayFail(unRetries)
        /\ IF unRetries > maxRetries
           THEN m_tIOMutex' = "free" /\ UNCHANGED unRetries
           ELSE unRetries' = unRetries + 1 /\ UNCHANGED m_tIOMutex
        /\ UNCHANGED <<register, frame, todo, pc>>
  /\ UNCHANGED <<m_tPacketQueueMutex, m_tDataMutex, cancelled, fetchVars, packets,
                 m_sDesiredData, m_sSentData>>

SenderUnlocksData ==
  /\ At("sender", "next") /\ todo = <<>>
  /\ m_tDataMutex' = "free"
  /\ Go("sender", "sleep")
  /\ UNCHANGED <<m_tIOMutex, m_tPacketQueueMutex, cancelled, register, fetchVars, packets,
                 m_sDesiredData, m_sSentData, sendVars>>

-----------------------------------------------------------------------------
(* The main thread: ReceiveData, the control step, SendData, in turn *)
ReceiveData ==
  /\ At("main", "receive")
  /\ m_tPacketQueueMutex = "free"
  /\ m_tPacketQueueMutex' = "main"
  /\ Go("main", "move")
  /\ UNCHANGED <<m_tIOMutex, m_tDataMutex, cancelled, register, fetchVars, packets,
                 m_sDesiredData, m_sSentData, sendVars>>

(* push_back, then pop_front. *)
MovesPacket ==
  /\ At("main", "move") /\ m_tQueuedPackets # <<>>
  /\ m_tPackets' = Append(m_tPackets, Head(m_tQueuedPackets))
  /\ Go("main", "pop")
  /\ UNCHANGED <<mutexes, cancelled, register, fetchVars, m_tQueuedPackets,
                 m_sDesiredData, m_sSentData, sendVars>>

PopsPacket ==
  /\ At("main", "pop")
  /\ m_tQueuedPackets' = Tail(m_tQueuedPackets)
  /\ Go("main", "move")
  /\ UNCHANGED <<mutexes, cancelled, register, fetchVars, m_tPackets,
                 m_sDesiredData, m_sSentData, sendVars>>

Received ==
  /\ At("main", "move") /\ m_tQueuedPackets = <<>>
  /\ m_tPacketQueueMutex' = "free"
  /\ Go("main", "control")
  /\ UNCHANGED <<m_tIOMutex, m_tDataMutex, cancelled, register, fetchVars, packets,
                 m_sDesiredData, m_sSentData, sendVars>>

(* The controller changes the data it wants, which are then one version    *)
(* further, or leaves them.                                                *)
Desired(state, enabled) ==
  m_sDesiredData' = [state |-> state, Enabled |-> enabled, n |-> (m_sDesiredData.n + 1) % Commands]
SetData == Desired("STATE_ALL_EMITTERS_SAME_DATA", EmitterNumbers)
SetDataForEmitter(i) == Desired("STATE_EMITTERS_DIFFERENT", m_sDesiredData.Enabled \cup {i})
DisableEmitter(i) == Desired("STATE_EMITTERS_DIFFERENT", m_sDesiredData.Enabled \ {i})
Disable == Desired("STATE_ALL_EMITTERS_DISABLED", {})

ControlStep ==
  /\ At("main", "control")
  /\ \/ SetData \/ Disable \/ UNCHANGED m_sDesiredData
     \/ \E i \in EmitterNumbers : SetDataForEmitter(i) \/ DisableEmitter(i)
  /\ Go("main", "send")
  /\ UNCHANGED <<mutexes, cancelled, register, fetchVars, packets, m_sSentData, sendVars>>

SendData ==
  /\ At("main", "send")
  /\ m_tDataMutex = "free"
  /\ m_tDataMutex' = "main"
  /\ Go("main", "copy")
  /\ UNCHANGED <<m_tIOMutex, m_tPacketQueueMutex, cancelled, register, fetchVars, packets,
                 m_sDesiredData, m_sSentData, sendVars>>

(* The assignment of the structure takes more than one step. *)
CopiesHeader ==
  /\ At("main", "copy")
  /\ m_sSentData' = [m_sSentData EXCEPT !.state = m_sDesiredData.state,
                                        !.Enabled = m_sDesiredData.Enabled,
                                        !.header = m_sDesiredData.n]
  /\ Go("main", "body")
  /\ UNCHANGED <<mutexes, cancelled, register, fetchVars, packets, m_sDesiredData, sendVars>>

CopiesBody ==
  /\ At("main", "body")
  /\ m_sSentData' = [m_sSentData EXCEPT !.body = m_sDesiredData.n]
  /\ m_tDataMutex' = "free"
  /\ Go("main", IF "sender" \in cancelled THEN "close actuator" ELSE "receive")
  /\ UNCHANGED <<m_tIOMutex, m_tPacketQueueMutex, cancelled, register, fetchVars, packets,
                 m_sDesiredData, sendVars>>

-----------------------------------------------------------------------------
(* The destructors: the actuator's first, then the sensor's. Neither waits *)
(* for its thread.                                                         *)
DestroyActuator ==
  /\ Closes /\ At("main", "receive")
  /\ cancelled' = cancelled \cup {"sender"}
  /\ Disable
  /\ Go("main", "send")
  /\ UNCHANGED <<mutexes, register, fetchVars, packets, m_sSentData, sendVars>>

CloseDevice ==
  /\ \/ At("main", "close actuator") /\ LockBus("main", "closing actuator")
     \/ At("main", "close sensor") /\ LockBus("main", "closing sensor")
  /\ UNCHANGED <<m_tPacketQueueMutex, m_tDataMutex, cancelled, register, fetchVars, packets,
                 m_sDesiredData, m_sSentData, sendVars>>

DestroySensor ==
  /\ At("main", "closing actuator")
  /\ m_tIOMutex' = "free"
  /\ cancelled' = cancelled \cup {"fetcher"}
  /\ Go("main", "erase")
  /\ UNCHANGED <<m_tPacketQueueMutex, m_tDataMutex, register, fetchVars, packets,
                 m_sDesiredData, m_sSentData, sendVars>>

ErasesPackets ==
  /\ At("main", "erase")
  /\ IF m_tQueuedPackets # <<>>
     THEN m_tQueuedPackets' = SubSeq(m_tQueuedPackets, 1, Len(m_tQueuedPackets) - 1)
          /\ UNCHANGED <<pc, m_tPackets>>
     ELSE m_tPackets' = <<>> /\ Go("main", "close sensor") /\ UNCHANGED m_tQueuedPackets
  /\ UNCHANGED <<mutexes, cancelled, register, fetchVars, m_sDesiredData, m_sSentData, sendVars>>

Destroyed ==
  /\ At("main", "closing sensor")
  /\ m_tIOMutex' = "free"
  /\ Go("main", "gone")
  /\ UNCHANGED <<m_tPacketQueueMutex, m_tDataMutex, cancelled, register, fetchVars, packets,
                 m_sDesiredData, m_sSentData, sendVars>>

-----------------------------------------------------------------------------
Init ==
  /\ m_tIOMutex = "free" /\ m_tPacketQueueMutex = "free" /\ m_tDataMutex = "free"
  /\ pc = [fetcher |-> "test", sender |-> "test", main |-> "receive"]
  /\ cancelled = {}
  /\ register = 0
  /\ fi = 1 /\ tries = 0 /\ fields = <<>> /\ psPacket = 0
  /\ m_tQueuedPackets = <<>> /\ m_tPackets = <<>>
  /\ m_sDesiredData = [state |-> "STATE_ALL_EMITTERS_DISABLED", Enabled |-> {}, n |-> 0]
  /\ m_sSentData = [state |-> "STATE_ALL_EMITTERS_DISABLED", Enabled |-> {}, header |-> 0, body |-> 0]
  /\ todo = <<>> /\ unRetries = 0 /\ frame = {}

Fetcher ==
  \/ FetcherTest \/ FetcherLocks \/ FetcherWritesAddress \/ FetcherReads \/ FetcherUnlocks
  \/ FetcherLocksQueue \/ FetcherPushes \/ Sleep("fetcher") \/ ThreadCleanup("fetcher")
Sender ==
  \/ SenderTest \/ SenderLocksData \/ SenderLocksBus \/ SenderWrites \/ SenderUnlocksData
  \/ Sleep("sender") \/ ThreadCleanup("sender")
Main ==
  \/ ReceiveData \/ MovesPacket \/ PopsPacket \/ Received \/ ControlStep
  \/ SendData \/ CopiesHeader \/ CopiesBody
  \/ DestroyActuator \/ CloseDevice \/ DestroySensor \/ ErasesPackets \/ Destroyed

Ended == pc = [fetcher |-> "ended", sender |-> "ended", main |-> "gone"]

Next == Fetcher \/ Sender \/ Main \/ (Ended /\ UNCHANGED vars)

Spec == Init /\ [][Next]_vars

(* The threads sleep between two rounds, 20 ms by default, and leave every *)
(* mutex free then: none waits for one for ever.                           *)
FairSpec == Spec /\ WF_vars(Fetcher) /\ SF_vars(Sender) /\ SF_vars(Main)

-----------------------------------------------------------------------------
Holders == {"free", "main", "fetcher", "sender"}
Versions == 0..Commands - 1

(* Every variable has the values the code gives it. *)
TypeOK ==
  /\ m_tIOMutex \in Holders /\ m_tPacketQueueMutex \in Holders /\ m_tDataMutex \in Holders
  /\ pc \in [{"main", "fetcher", "sender"} -> STRING]
  /\ cancelled \subseteq {"fetcher", "sender"}
  /\ register \in 0..20 \cup EmitterNumbers
  /\ fi \in 1..Len(FetchOrder) /\ tries \in 0..maxRetries
  /\ fields \in Seq(0..255) /\ Len(fields) <= Len(FetchOrder)
  /\ psPacket \in 0..Messages
  /\ m_tQueuedPackets \in Seq(1..Messages) /\ m_tPackets \in Seq(1..Messages)
  /\ m_sDesiredData \in [state : States, Enabled : SUBSET EmitterNumbers, n : Versions]
  /\ m_sSentData \in [state : States, Enabled : SUBSET EmitterNumbers, header : Versions, body : Versions]
  /\ todo \in Seq([emitter : EmitterNumbers, reg : 0..20 \cup EmitterNumbers])
  /\ unRetries \in 0..maxRetries + 1 /\ frame \subseteq Versions

(* A field of a packet is the value of the register it was asked from,     *)
(* although the sender addresses other registers of the same board between *)
(* any two calls, and although its cancellation frees the bus while the    *)
(* fetcher has it.                                                         *)
OwnRegister == \A k \in 1..Len(fields) : fields[k] \in {FetchOrder[k], None}

(* What goes out in one frame is one version of the data to send.          *)
WholeFrames == \A v, w \in frame : v = w

(* The robot sees every message that was fetched once and in order:        *)
(* between two steps of the move the two lists hold all of them.           *)
OnceInOrder ==
  LET all == m_tPackets \o (IF At("main", "pop") THEN Tail(m_tQueuedPackets) ELSE m_tQueuedPackets)
      last == IF At("fetcher", "sleep") \/ At("fetcher", "test") \/ fi = 1 THEN psPacket ELSE psPacket - 1
  IN  cancelled = {} =>
        /\ \A k \in 1..Len(all) : all[k] = k
        /\ Len(all) = last

(* Once the destructors have begun they end, and so do both threads.       *)
Closing == "sender" \in cancelled
Ends == Closing ~> Ended
=============================================================================
