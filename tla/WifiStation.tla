------------------------------ MODULE WifiStation ------------------------------
(***************************************************************************)
(* The Wi-Fi station of the firmware (wifi.c): app_main waits in           *)
(* wifi_init_sta for an event group that event_handler sets in the task of *)
(* the event loop, then takes the handlers off and deletes the group.      *)
(***************************************************************************)
EXTENDS Naturals, Sequences

CONSTANT EXAMPLE_ESP_MAXIMUM_RETRY

ASSUME RetryAssumption == EXAMPLE_ESP_MAXIMUM_RETRY \in Nat

VARIABLES
  phase,       \* where app_main is; "off" before wifi_init_sta, "done" after it
  handlers,    \* the event bases event_handler is registered for
  group,       \* s_wifi_event_group: the bits set, or "deleted"
  s_retry_num,
  link,        \* the radio: "down", "connecting", "associated" with the
               \* access point, or "up", with an address from it
  events       \* events the loop has still to deliver

wifiVars == <<phase, handlers, group, s_retry_num, link, events>>

NoGroup == {"deleted"}

WifiInit ==
  /\ phase = "off"
  /\ handlers = {}
  /\ group = NoGroup
  /\ s_retry_num = 0
  /\ link = "down"
  /\ events = <<>>

(* A restart: the static s_retry_num is initialised again. *)
WifiReset ==
  /\ phase' = "off" /\ handlers' = {} /\ group' = NoGroup
  /\ s_retry_num' = 0 /\ link' = "down" /\ events' = <<>>

wifi_init_sta ==
  /\ phase = "off"
  /\ phase' = "wait"
  /\ handlers' = {"WIFI", "IP"}
  /\ group' = {}
  /\ events' = <<"START">>
  /\ UNCHANGED <<s_retry_num, link>>

-----------------------------------------------------------------------------
(* The radio and the access point; the driver posts what happens.  What    *)
(* happens once no handler is left reaches nobody and is left out, and so  *)
(* is STA_CONNECTED, on which event_handler does nothing: an association   *)
(* sets no bit, only the address does that may follow.                     *)
RadioAssociates ==
  /\ link = "connecting" /\ handlers # {}
  /\ link' = "associated"
  /\ UNCHANGED <<phase, handlers, group, s_retry_num, events>>

RadioGetsAddress ==
  /\ link = "associated" /\ handlers # {}
  /\ link' = "up"
  /\ events' = Append(events, "GOT_IP")
  /\ UNCHANGED <<phase, handlers, group, s_retry_num>>

RadioFails ==
  /\ link \in {"connecting", "associated", "up"} /\ handlers # {}
  /\ link' = "down"
  /\ events' = Append(events, "DISCONNECTED")
  /\ UNCHANGED <<phase, handlers, group, s_retry_num>>

(* event_handler, run by the loop when it is registered for the event.     *)
Base(e) == IF e = "GOT_IP" THEN "IP" ELSE "WIFI"
MayRetry == s_retry_num < EXAMPLE_ESP_MAXIMUM_RETRY
\* faulty variant: giving up is not reported
NoBit == {}
WIFI_FAIL_BIT == {"FAIL"}

event_handler(e) ==
  \/ /\ e = "START"
     /\ link' = "connecting"
     /\ UNCHANGED <<group, s_retry_num>>
  \/ /\ e = "DISCONNECTED" /\ MayRetry
     /\ link' = "connecting"
     /\ s_retry_num' = s_retry_num + 1
     /\ UNCHANGED group
  \/ /\ e = "DISCONNECTED" /\ ~MayRetry
     /\ group' = group \cup WIFI_FAIL_BIT
     /\ UNCHANGED <<link, s_retry_num>>
  \/ /\ e = "GOT_IP"
     /\ s_retry_num' = 0
     /\ group' = group \cup {"CONNECTED"}
     /\ UNCHANGED link

Deliver ==
  /\ events # <<>>
  /\ events' = Tail(events)
  /\ IF Base(Head(events)) \in handlers THEN event_handler(Head(events))
     ELSE UNCHANGED <<group, s_retry_num, link>>
  /\ UNCHANGED <<phase, handlers>>

-----------------------------------------------------------------------------
(* The end of wifi_init_sta: the wait, then three calls in a row. *)
BitsSeen ==
  /\ phase = "wait"
  /\ group # {}
  /\ phase' = "ip"
  /\ UNCHANGED <<handlers, group, s_retry_num, link, events>>

AfterCall == [ip |-> "wifi", wifi |-> "group", group |-> "done"]

TearDown ==
  /\ phase \in {"ip", "wifi", "group"}
  /\ phase' = AfterCall[phase]
  /\ handlers' = CASE phase = "ip" -> handlers \ {"IP"}
                   [] phase = "wifi" -> handlers \ {"WIFI"}
                   [] OTHER -> handlers
  /\ IF phase = "group"
     THEN group' = NoGroup /\ link' = "down" /\ events' = <<>>   \* of no use any more
     ELSE UNCHANGED <<group, link, events>>
  /\ UNCHANGED s_retry_num

WifiStep == \/ Deliver \/ RadioAssociates \/ RadioGetsAddress \/ RadioFails
            \/ BitsSeen \/ TearDown

(* The event loop, the radio (a try to associate ends one way or the       *)
(* other) and app_main all get to run.  Nothing makes an access point that *)
(* has the station give it an address, or drop it.                         *)
WifiFairness == /\ WF_wifiVars(Deliver)
                /\ WF_wifiVars(link = "connecting" /\ (RadioAssociates \/ RadioFails))
                /\ WF_wifiVars(BitsSeen) /\ WF_wifiVars(TearDown)

-----------------------------------------------------------------------------
WifiTypeOK ==
  /\ phase \in {"off", "wait", "ip", "wifi", "group", "done"}
  /\ handlers \subseteq {"WIFI", "IP"}
  /\ group \in (SUBSET {"CONNECTED", "FAIL"}) \cup {NoGroup}
  /\ s_retry_num \in 0..EXAMPLE_ESP_MAXIMUM_RETRY
  /\ link \in {"down", "connecting", "associated", "up"}
  /\ events \in Seq({"START", "GOT_IP", "DISCONNECTED"})

(* Whatever the radio reports and however late its events are delivered,   *)
(* the handler never sets a bit of a group that is gone: as long as it is  *)
(* registered for anything the group exists.                               *)
HandlerHasGroup == handlers # {} => group # NoGroup

(* wifi_init_sta returns, connected or not, and only then are commands     *)
(* served: whatever the access point does, and however its refusals, the   *)
(* addresses that reset s_retry_num and the delivery of both interleave.   *)
(* The one way to wait for ever is an access point that associates the     *)
(* station and then neither gives it an address nor drops it.              *)
WifiReturns == (phase # "off") ~> (phase \in {"done", "off"} \/ [](link = "associated"))
=============================================================================
