------------------------------ MODULE CloudLink ------------------------------
(***************************************************************************)
(* aws_iot_task: the loop that boots the cloud connection, reports the     *)
(* state of the device, subscribes to the device's topics one per turn     *)
(* (the ladder of checkUpgrade), connects again by itself when reports     *)
(* keep failing, and yields to the MQTT client.  The task is the only      *)
(* caller of MqttClient; the two reconnection mechanisms, the client's and *)
(* the task's own, meet here.                                              *)
(*                                                                         *)
(* The WiFi flag and the OTA step are read, never written, by this loop:   *)
(* each read may find either value.                                        *)
(***************************************************************************)
EXTENDS MqttClient

CONSTANTS
  Ladder,       \* the topics subscribed, in order
  GetAccepted,  \* the topic whose handler ends the busy display
  SendLimit,    \* failed reports tolerated before connecting again (10)
  SubPeriod     \* turns of the loop between two tries of a rung (100)

ASSUME LinkAssumption ==
  /\ Ladder \in Seq(Topics)
  /\ GetAccepted \in Topics
  /\ SendLimit \in Nat
  /\ SubPeriod \in Nat \ {0}

VARIABLES
  at,             \* where the task's loop is
  isCallbackFlag, \* the ladder is complete
  Callback_count, \* rungs of the ladder done
  sub_time,       \* turns since the last try
  sendcount,      \* reports failed in a row
  shown           \* what the display is told of the connection

rungs == <<isCallbackFlag, Callback_count, sub_time>>
linkVars == <<at, isCallbackFlag, Callback_count, sub_time, sendcount, shown>>
cloudVars == <<mqttVars, linkVars>>

\* The task runs on: no call is in progress.
At(place) == at = place /\ api = "none"

\* Everything the display may be told, as a set of flags that are 1.
Flag == {"isConnectAWS", "isCOnnectAWSShadow", "isErrorConnectAWS", "isErrorSubscribeShadow",
         "device_busy", "showdow_callback"}

-----------------------------------------------------------------------------
(* Plausible mistakes in the operators below, for the mutation runs.        *)

\* The rung counter moves on whatever the subscription returned.
RungAnyway ==
  /\ At("subscribed")
  /\ at' = "yield"
  /\ Callback_count' = Callback_count + 1
  /\ UNCHANGED <<mqttVars, isCallbackFlag, sub_time, sendcount, shown>>

\* The ladder is not climbed again after the task's own reconnection.
ReconnectedLadderKept ==
  /\ At("reconnected")
  /\ at' = "check"
  /\ sendcount' = 0
  /\ \/ ret.rc # "SUCCESS" /\ UNCHANGED shown
     \/ ret.rc = "SUCCESS" /\ shown' = shown \ {"isErrorConnectAWS"}
  /\ UNCHANGED <<mqttVars, rungs>>

\* Failed reports leave the display as it was.
GiveUpSilently ==
  /\ sendcount' = SendLimit
  /\ UNCHANGED shown

\* The counter of failed reports is set back before it is compared.
ToleratedForever == SendLimit + 1

-----------------------------------------------------------------------------
(* Boot: connect until it works.                                           *)

Boot ==
  /\ At("boot")
  /\ Connect
  /\ at' = "booting"
  /\ UNCHANGED <<rungs, sendcount, shown>>

Booted ==
  /\ At("booting")
  /\ \/ /\ ret.rc # "SUCCESS"
        /\ at' = "boot"
        /\ shown' = shown \cup {"isErrorConnectAWS"}
     \/ /\ ret.rc = "SUCCESS"
        /\ at' = "control"
        /\ shown' = (shown \ {"isErrorConnectAWS"}) \cup {"isConnectAWS"}
  /\ UNCHANGED <<mqttVars, rungs, sendcount>>

-----------------------------------------------------------------------------
(* controlMethon and setAwsData: the periodic report.                       *)

\* Not time for a report, no WiFi, or an upgrade in progress.
NoReport ==
  /\ At("control")
  /\ at' = "check"
  /\ UNCHANGED <<mqttVars, rungs, sendcount, shown>>

Report ==
  /\ At("control")
  /\ Publish
  /\ at' = "reported"
  /\ UNCHANGED <<rungs, sendcount, shown>>

ReportSent ==
  /\ At("reported")
  /\ ret.rc = "SUCCESS"
  /\ at' = "check"
  /\ sendcount' = 0
  /\ shown' = {"isConnectAWS", "isCOnnectAWSShadow", "showdow_callback"}
  /\ UNCHANGED <<mqttVars, rungs>>

\* The counter a failed report must exceed before the connection is given up.
Tolerated == SendLimit

ReportFailed ==
  /\ At("reported")
  /\ ret.rc # "SUCCESS"
  /\ sendcount + 1 <= Tolerated
  /\ at' = "check"
  /\ sendcount' = sendcount + 1
  /\ UNCHANGED <<mqttVars, rungs, shown>>

\* One failure too many: the display is told.
GiveUp ==
  /\ sendcount' = SendLimit
  /\ shown' = {"isErrorConnectAWS", "isErrorSubscribeShadow"}

\* With WiFi, the task connects by itself.
ConnectionGivenUp ==
  /\ At("reported")
  /\ ret.rc # "SUCCESS"
  /\ sendcount + 1 > Tolerated
  /\ GiveUp
  /\ \/ at' = "check" /\ UNCHANGED mqttVars
     \/ at' = "reconnected" /\ Connect
  /\ UNCHANGED rungs

\* aws_iot_mqtt_autoreconnect_set_status always succeeds, so the counter is
\* reset whether or not the connection was made.
Reconnected ==
  /\ At("reconnected")
  /\ at' = "check"
  /\ sendcount' = 0
  /\ \/ /\ ret.rc # "SUCCESS"
        /\ UNCHANGED <<isCallbackFlag, Callback_count, shown>>
     \/ /\ ret.rc = "SUCCESS"
        /\ shown' = shown \ {"isErrorConnectAWS"}
        /\ isCallbackFlag' = FALSE
        /\ Callback_count' = 0
  /\ UNCHANGED <<mqttVars, sub_time>>

-----------------------------------------------------------------------------
(* checkUpgrade: the ladder.                                               *)

\* No WiFi, or nothing left to subscribe.
NoRung ==
  /\ At("check")
  /\ at' = "yield"
  /\ UNCHANGED <<mqttVars, rungs, sendcount, shown>>

RungNotDue ==
  /\ At("check")
  /\ ~isCallbackFlag
  /\ sub_time + 1 < SubPeriod
  /\ sub_time' = sub_time + 1
  /\ at' = "yield"
  /\ UNCHANGED <<mqttVars, isCallbackFlag, Callback_count, sendcount, shown>>

RungDue ==
  /\ At("check")
  /\ ~isCallbackFlag
  /\ sub_time + 1 >= SubPeriod
  /\ sub_time' = 0
  /\ shown' = shown \cup {"device_busy"}

Rung ==
  /\ RungDue
  /\ Callback_count < Len(Ladder)
  /\ Subscribe(Ladder[Callback_count + 1])
  /\ at' = "subscribed"
  /\ UNCHANGED <<isCallbackFlag, Callback_count, sendcount>>

\* The last rung waits for the end of an upgrade.
LastRungWaits ==
  /\ RungDue
  /\ Callback_count + 1 = Len(Ladder)
  /\ at' = "yield"
  /\ UNCHANGED <<mqttVars, isCallbackFlag, Callback_count, sendcount>>

Subscribed ==
  /\ At("subscribed")
  /\ at' = "yield"
  /\ \/ /\ ret.rc = "SUCCESS"
        /\ sub_time' = SubPeriod
        /\ Callback_count' = Callback_count + 1
        /\ UNCHANGED shown
     \/ /\ ret.rc # "SUCCESS"
        /\ shown' = shown \cup {"isErrorSubscribeShadow"}
        /\ UNCHANGED <<sub_time, Callback_count>>
  /\ UNCHANGED <<mqttVars, isCallbackFlag, sendcount>>

LadderComplete ==
  /\ At("check")
  /\ ~isCallbackFlag
  /\ sub_time + 1 >= SubPeriod
  /\ Callback_count = Len(Ladder)
  /\ sub_time' = 0
  /\ shown' = shown \cup {"device_busy", "isCOnnectAWSShadow"}
  /\ isCallbackFlag' = TRUE
  /\ Callback_count' = 0
  /\ at' = "yield"
  /\ UNCHANGED <<mqttVars, sendcount>>

-----------------------------------------------------------------------------

YieldTurn ==
  /\ At("yield")
  /\ Yield
  /\ at' = "control"
  /\ UNCHANGED <<rungs, sendcount, shown>>

\* iot_get_accept_handler runs if its topic is in the handler table.
Deliver ==
  /\ ReadPublish
  /\ LET t == Head(inbox).topic IN
       \/ t = GetAccepted /\ (\E i \in Slots : handlers[i] = t)
          /\ shown' = (shown \ {"device_busy"}) \cup {"showdow_callback"}
       \/ ~(t = GetAccepted /\ \E i \in Slots : handlers[i] = t) /\ UNCHANGED shown
  /\ UNCHANGED <<at, rungs, sendcount>>

\* What the client does inside a call.
InsideCall ==
  /\ \/ ConnectOk \/ ConnectFail
     \/ ResubscribeNext \/ ResubscribeDone \/ AckLost
     \/ YieldReturn \/ SendPing \/ HandleDisconnect
     \/ ReadSuback \/ ReadPingresp \/ CallbackReturn
  /\ UNCHANGED linkVars

CloudNetwork == NetworkStep /\ UNCHANGED linkVars

CloudInit ==
  /\ MqttInit
  /\ at = "boot"
  /\ isCallbackFlag = FALSE
  /\ Callback_count = 0
  /\ sub_time = SubPeriod
  /\ sendcount = 0
  /\ shown = {}

TaskStep ==
  \/ Boot \/ Booted
  \/ NoReport \/ Report \/ ReportSent \/ ReportFailed \/ ConnectionGivenUp \/ Reconnected
  \/ NoRung \/ RungNotDue \/ Rung \/ LastRungWaits \/ Subscribed \/ LadderComplete
  \/ YieldTurn

CloudNext == TaskStep \/ Deliver \/ InsideCall \/ CloudNetwork

CloudSpec == CloudInit /\ [][CloudNext]_cloudVars

\* The task never stops, the timers of its calls run out, packets arrive, and
\* reports become due again and again.
CloudFairSpec ==
  /\ CloudSpec
  /\ WF_cloudVars(TaskStep)
  /\ WF_cloudVars(InsideCall)
  /\ WF_cloudVars(Deliver)
  /\ WF_cloudVars(BrokerReads /\ UNCHANGED linkVars)
  /\ SF_cloudVars(Report)
  /\ SF_cloudVars((YieldReturn \/ AckLost) /\ UNCHANGED linkVars)
  /\ SF_cloudVars(YieldTurn /\ api' # "none")
  /\ SF_cloudVars(HandleDisconnect /\ UNCHANGED linkVars)

-----------------------------------------------------------------------------
(* Properties.                                                             *)

LinkTypeOK ==
  /\ at \in {"boot", "booting", "control", "reported", "reconnected", "check", "subscribed", "yield"}
  /\ isCallbackFlag \in BOOLEAN
  /\ Callback_count \in 0..Len(Ladder)
  /\ sub_time \in 0..SubPeriod
  /\ sendcount \in 0..SendLimit
  /\ shown \subseteq Flag

\* The broker has the topic, or is about to read the request for it.
Served(t) ==
  t \in broker \/ \E n \in DOMAIN outbox : outbox[n] = Pkt("SUBSCRIBE", t)

\* The rungs the task takes for done.
Done == IF isCallbackFlag THEN DOMAIN Ladder ELSE 1..Callback_count

\* Through losses of the session, automatic reconnections, resubscriptions and
\* late acknowledgements: whenever the client is done reconnecting, the broker
\* serves every topic the task believes it subscribed to.  (The task learns of
\* its own reconnection when the call returns.)
LadderServed ==
  link = "up" /\ at # "reconnected" /\ Underneath \in {"IDLE", "YIELD", "SUBSCRIBE"}
    => \A n \in Done : Served(Ladder[n])

\* A loss of the session reaches the display, if the session is not restored
\* first: reports passed to a dead session do not hide it for ever.
LossIsShown == link # "up" ~> link = "up" \/ "isConnectAWS" \notin shown

\* The busy display ends: by a report, by the shadow, or by giving up.
BusyEnds == "device_busy" \in shown ~> "device_busy" \notin shown

\* A dead session is replaced, unless a resubscription was in progress on it
\* when the reconnection attempts were used up.
DeadSessionClosedOrStuck ==
  link = "broken" ~> link # "broken" \/ (state = "RESUBSCRIBE" /\ interval > MaxWait)

\* yield.c: "SSL read and write errors are terminal, connection must be closed
\* and retried".
DeadSessionClosed == link = "broken" ~> link # "broken"

=============================================================================
