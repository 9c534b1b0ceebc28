------------------------------ MODULE MqttClient ------------------------------
(***************************************************************************)
(* The MQTT client of the device's AWS IoT SDK, as the one task that owns  *)
(* it drives it (aws_iot_task): client state machine, handler table,       *)
(* keep-alive, automatic reconnection and resubscription, over a TLS       *)
(* session that may break at any moment.                                   *)
(*                                                                         *)
(* A call that blocks on the network is split where it blocks: `api` is    *)
(* the API function in progress, `wait` what it is waiting for.  A call    *)
(* that does not block is one step.  No step of the client is hidden from  *)
(* the network: it may break, answer late or deliver a message between any *)
(* two steps.                                                              *)
(*                                                                         *)
(* A message that is read runs callbacks inside the call that reads it,    *)
(* and a callback may call the client again: `below` holds the calls that  *)
(* wait for such a callback, as the stack of the task does.                *)
(***************************************************************************)
EXTENDS Integers, Sequences

CONSTANTS
  Topics,       \* topic filters the application may subscribe to
  NoTopic,      \* a NULL topicName
  NumHandlers,  \* AWS_IOT_MQTT_NUM_SUBSCRIBE_HANDLERS
  MaxWait,      \* longest reconnect interval, in units of the shortest
  MaxNested,    \* bound: calls suspended in callbacks
  InFlight,     \* bound: messages of the broker waiting to be read
  MaxFaults     \* bound: sessions lost, connections refused, answers too late

ASSUME ClientAssumption ==
  /\ NoTopic \notin Topics
  /\ NumHandlers \in Nat \ {0}
  /\ MaxWait \in Nat \ {0}
  /\ MaxNested \in Nat
  /\ InFlight \in Nat
  /\ MaxFaults \in Nat

VARIABLES
  state,        \* clientStatus.clientState
  handlers,     \* messageHandlers[i].topicName
  resubscribed, \* messageHandlers[i].resubscribed
  interval,     \* currentReconnectWaitInterval, in units of the shortest
  ping,         \* isPingOutstanding
  link,         \* the TLS session: none (destroyed), up, broken (peer lost)
  api,          \* the API call in progress
  wait,         \* what that call is blocked on
  slot,         \* handler slot the pending SUBSCRIBE is for
  count,        \* handlers a resubscription goes through (existingSubCount)
  topic,        \* topic the pending SUBSCRIBE or UNSUBSCRIBE is for
  cb,           \* client state saved by deliver_message while callbacks run
  below,        \* calls suspended in a callback that called again, the last first
  nested,       \* the last subscription was made by a callback of a pending one
  ret,          \* what the last call returned, if none blocked since: function, code
  outbox,       \* packets on their way to the broker, in order
  inbox,        \* packets of the broker not read yet, in order
  broker,       \* topic filters of the broker's session
  faults        \* network faults so far

client == <<state, handlers, resubscribed, interval, ping>>
call == <<api, wait, slot, count, topic, cb, below, nested>>
caller == <<call, ret>>
network == <<link, outbox, inbox, broker, faults>>
mqttVars == <<client, caller, network>>

Slots == 1..NumHandlers

Connected == {"IDLE", "YIELD", "SUBSCRIBE", "UNSUBSCRIBE", "RESUBSCRIBE", "WAIT_FOR_CB"}
ValidForConnect == {"INITIALIZED", "DISCONNECTED_ERROR", "DISCONNECTED_MANUALLY", "PENDING_RECONNECT"}
ClientState == Connected \cup ValidForConnect \cup {"CONNECTING"}

Request == [type : {"SUBSCRIBE", "UNSUBSCRIBE"}, topic : Topics] \cup [type : {"PINGREQ"}, topic : {NoTopic}]
Response == [type : {"SUBACK", "UNSUBACK", "PINGRESP", "PUBLISH"}, topic : Topics \cup {NoTopic}]
Pkt(ty, t) == [type |-> ty, topic |-> t]

\* The API functions, what they wait for, and what they return.
Blocking == {"connect", "reconnect", "subscribe", "unsubscribe", "resubscribe", "yield"}
Waits == {"CONNACK", "SUBACK", "UNSUBACK", "resubscribe", "packet"}
Function == Blocking \cup {"disconnect", "publish"}
Code == {"SUCCESS", "FAILURE", "DISCONNECTED", "NOT_IDLE", "ALREADY_CONNECTED", "MANUALLY_DISCONNECTED",
         "MAX_SUBSCRIPTIONS_REACHED", "ATTEMPTING_RECONNECT", "RECONNECTED", "RECONNECT_TIMED_OUT"}
Result == [fn : Function \cup {"none"}, rc : Code \cup {"none"}]

\* No call has returned since the last one blocked.
NoReturn == [fn |-> "none", rc |-> "none"]

\* The locals of a call, suspended while a callback calls again.
Frame == [api : Blocking, wait : Waits, slot : 0..NumHandlers, count : 0..NumHandlers,
          topic : Topics \cup {NoTopic}, cb : Connected]
InProgress == [api |-> api, wait |-> wait, slot |-> slot, count |-> count, topic |-> topic, cb |-> cb]
NoCall == [api |-> "none", wait |-> "none", slot |-> 0, count |-> 0, topic |-> NoTopic, cb |-> "none"]

-----------------------------------------------------------------------------
(* What calls have in common.                                              *)

\* Callbacks run: the call in progress has read a message.
InCallback == cb # "none"

\* The application calls from its own code or from a callback.
MayCall == api = "none" \/ InCallback

\* The API functions on the stack.
Pending == {api} \cup {below[n].api : n \in DOMAIN below}

\* The client state that aws_iot_mqtt_subscribe and unsubscribe save on entry
\* and set back: a call from a callback has another one below it.
Saved == IF below = <<>> THEN "IDLE" ELSE "WAIT_FOR_CB"

Resume(f) ==
  /\ api' = f.api
  /\ wait' = f.wait
  /\ slot' = f.slot
  /\ count' = f.count
  /\ topic' = f.topic
  /\ cb' = f.cb

\* A call returns to the application, or to the callback that made it.
Return(fn, rc) ==
  /\ ret' = [fn |-> fn, rc |-> rc]
  /\ \/ below = <<>> /\ Resume(NoCall) /\ UNCHANGED below
     \/ below # <<>> /\ Resume(Head(below)) /\ below' = Tail(below)
  /\ UNCHANGED nested

\* A call that leaves the client and the network as they are.
Refuse(fn, rc) ==
  /\ ret' = [fn |-> fn, rc |-> rc]
  /\ UNCHANGED <<client, network, call>>

\* A call blocks.
Block(fn, what, i, t) ==
  /\ api' = fn
  /\ wait' = what
  /\ slot' = i
  /\ topic' = t
  /\ ret' = NoReturn
  /\ UNCHANGED <<count, cb, below, nested>>

\* A call that may be made from a callback blocks.
CallAndBlock(fn, what, i, t) ==
  /\ \/ api = "none" /\ UNCHANGED below
     \/ InCallback /\ Len(below) < MaxNested /\ below' = <<InProgress>> \o below
  /\ Resume([NoCall EXCEPT !.api = fn, !.wait = what, !.slot = i, !.topic = t])
  /\ ret' = NoReturn

\* aws_iot_mqtt_internal_send_packet: the result of the unlock replaces the
\* result of the write, so the sender continues whether or not the bytes left.
Send(p) == outbox' = IF link = "up" THEN Append(outbox, p) ELSE outbox

\* A fault of a session that is still up counts against MaxFaults; one that is
\* already broken may fail again at no cost.
Fault == IF link = "broken" THEN UNCHANGED faults
         ELSE faults < MaxFaults /\ faults' = faults + 1

-----------------------------------------------------------------------------
(* Plausible mistakes in the operators below, for the mutation runs.        *)

\* The session is dropped but its TLS context is not destroyed.
DestroyForgotten ==
  /\ outbox' = <<>>
  /\ inbox' = <<>>
  /\ broker' = {}
  /\ UNCHANGED link

\* A new session inherits the outstanding ping of the old one.
PingKept ==
  /\ link' = "up"
  /\ outbox' = <<>>
  /\ inbox' = <<>>
  /\ broker' = {}
  /\ ping' = ping

\* The scan for a free slot does not look at the slot itself.
FirstAfterUsed(i) == \A j \in Slots : j < i => handlers[j] # NoTopic

\* The resubscription loop does not skip what it has already resubscribed.
AlwaysFromFirst(i) == i = 1 /\ handlers[i] # NoTopic

\* A yield does not look at the interval before it reconnects.
NeverExhausted == FALSE

\* Callbacks are assumed to be run by a yield only.
BackToYield ==
  /\ cb # "none"
  /\ state' = "YIELD"
  /\ cb' = "none"
  /\ UNCHANGED <<handlers, resubscribed, interval, ping, api, wait, slot, count, topic, below, nested, ret, network>>

\* networkStack.disconnect and destroy.
DestroyLink ==
  /\ link' = "none"
  /\ outbox' = <<>>
  /\ inbox' = <<>>
  /\ broker' = {}

IsFirstFree(i) ==
  /\ handlers[i] = NoTopic
  /\ \A j \in Slots : j < i => handlers[j] # NoTopic

\* The handlers before the first free slot when a resubscription starts.
Registered(n) ==
  /\ \A i \in Slots : i <= n => handlers[i] # NoTopic
  /\ \A i \in Slots : i = n + 1 => handlers[i] = NoTopic

StartResubscription(fn) ==
  /\ \E n \in 0..NumHandlers :
       Registered(n) /\ Resume([NoCall EXCEPT !.api = fn, !.wait = "resubscribe", !.count = n])
  /\ ret' = NoReturn
  /\ UNCHANGED <<below, nested>>

\* The loop goes on behind the slot it has done, and skips those that are free
\* by now and those resubscribed before.
ToResubscribe(i) == i <= count /\ handlers[i] # NoTopic /\ ~resubscribed[i]
IsNextToResubscribe(i) ==
  /\ i > slot
  /\ ToResubscribe(i)
  /\ \A j \in Slots : j > slot /\ j < i => ~ToResubscribe(j)

-----------------------------------------------------------------------------
(* Connecting.                                                             *)

Connect ==
  /\ MayCall
  /\ \/ /\ state \notin ValidForConnect
        /\ Refuse("connect", "ALREADY_CONNECTED")
     \/ /\ state \in ValidForConnect
        /\ state' = "CONNECTING"
        /\ Block("connect", "CONNACK", 0, NoTopic)
        /\ UNCHANGED <<handlers, resubscribed, interval, ping, network>>

\* CONNACK accepted.  The session is clean: the broker knows no subscription.
FreshSession ==
  /\ link' = "up"
  /\ outbox' = <<>>
  /\ inbox' = <<>>
  /\ broker' = {}
  /\ ping' = FALSE

ConnectOk ==
  /\ wait = "CONNACK"
  /\ FreshSession
  /\ \/ /\ api = "connect"
        /\ state' = "IDLE"
        /\ Return("connect", "SUCCESS")
     \/ /\ api \in {"reconnect", "yield"}
        /\ state' = "RESUBSCRIBE"
        /\ StartResubscription(api)
  /\ UNCHANGED <<handlers, resubscribed, interval, faults>>

\* _aws_iot_mqtt_handle_reconnect after an attempt that failed.
BackOff ==
  /\ interval' = 2 * interval
  /\ Return("yield", IF 2 * interval > MaxWait THEN "RECONNECT_TIMED_OUT" ELSE "ATTEMPTING_RECONNECT")

ConnectFail ==
  /\ wait = "CONNACK"
  /\ Fault
  /\ DestroyLink
  /\ \/ /\ api = "connect"
        /\ state' = "DISCONNECTED_ERROR"
        /\ Return("connect", "FAILURE")
        /\ UNCHANGED interval
     \/ /\ api = "reconnect"
        /\ state' = "PENDING_RECONNECT"
        /\ Return("reconnect", "ATTEMPTING_RECONNECT")
        /\ UNCHANGED interval
     \/ /\ api = "yield"
        /\ state' = "PENDING_RECONNECT"
        /\ BackOff
  /\ UNCHANGED <<handlers, resubscribed, ping>>

\* Not called from a callback: the call below would go on with what it frees.
Disconnect ==
  /\ api = "none"
  /\ \/ /\ state \notin Connected
        /\ Refuse("disconnect", "DISCONNECTED")
     \/ /\ state \in Connected
        /\ state' = "DISCONNECTED_MANUALLY"
        /\ DestroyLink
        /\ Return("disconnect", "SUCCESS")
        /\ UNCHANGED <<handlers, resubscribed, interval, ping, faults>>

\* aws_iot_mqtt_attempt_reconnect called by the application.
AttemptReconnect ==
  /\ MayCall
  /\ \/ /\ state \in Connected \ {"RESUBSCRIBE"}
        /\ Refuse("reconnect", "ALREADY_CONNECTED")
     \/ /\ state = "RESUBSCRIBE"
        /\ StartResubscription("reconnect")
        /\ UNCHANGED <<client, network>>
     \/ /\ state \in ValidForConnect
        /\ state' = "CONNECTING"
        /\ Block("reconnect", "CONNACK", 0, NoTopic)
        /\ UNCHANGED <<handlers, resubscribed, interval, ping, network>>

-----------------------------------------------------------------------------
(* Subscriptions.                                                          *)

\* The states in which both may start: between calls and in a callback.
MaySubscribe == {"IDLE", "WAIT_FOR_CB"}

Subscribe(t) ==
  /\ MayCall
  /\ \/ /\ state \notin Connected
        /\ Refuse("subscribe", "DISCONNECTED")
     \/ /\ state \in Connected \ MaySubscribe
        /\ Refuse("subscribe", "NOT_IDLE")
     \/ /\ state \in MaySubscribe
        /\ \A i \in Slots : handlers[i] # NoTopic
        /\ Refuse("subscribe", "MAX_SUBSCRIPTIONS_REACHED")
     \/ /\ state \in MaySubscribe
        /\ state' = "SUBSCRIBE"
        /\ \E i \in Slots : IsFirstFree(i) /\ CallAndBlock("subscribe", "SUBACK", i, t)
        /\ nested' = ("subscribe" \in Pending)
        /\ Send(Pkt("SUBSCRIBE", t))
        /\ UNCHANGED <<handlers, resubscribed, interval, ping, link, inbox, broker, faults>>

Unsubscribe(t) ==
  /\ MayCall
  /\ \/ /\ state \notin Connected
        /\ Refuse("unsubscribe", "DISCONNECTED")
     \/ /\ state \in Connected \ MaySubscribe
        /\ Refuse("unsubscribe", "NOT_IDLE")
     \/ /\ state \in MaySubscribe
        /\ \A i \in Slots : handlers[i] # t
        /\ Refuse("unsubscribe", "FAILURE")
     \/ /\ state \in MaySubscribe
        /\ \E i \in Slots : handlers[i] = t
        /\ state' = "UNSUBSCRIBE"
        /\ CallAndBlock("unsubscribe", "UNSUBACK", 0, t)
        /\ Send(Pkt("UNSUBSCRIBE", t))
        /\ UNCHANGED <<handlers, resubscribed, interval, ping, nested, link, inbox, broker, faults>>

\* aws_iot_mqtt_resubscribe called by the application.
Resubscribe ==
  /\ MayCall
  /\ \/ /\ state \notin Connected
        /\ Refuse("resubscribe", "DISCONNECTED")
     \/ /\ state \in Connected \ {"IDLE", "RESUBSCRIBE"}
        /\ Refuse("resubscribe", "FAILURE")
     \/ /\ state \in {"IDLE", "RESUBSCRIBE"}
        /\ state' = "RESUBSCRIBE"
        /\ StartResubscription("resubscribe")
        /\ UNCHANGED <<handlers, resubscribed, interval, ping, network>>

\* One turn of the resubscription loop.
ResubscribeNext ==
  /\ wait = "resubscribe"
  /\ \E i \in Slots :
       /\ IsNextToResubscribe(i)
       /\ Send(Pkt("SUBSCRIBE", handlers[i]))
       /\ Block(api, "SUBACK", i, handlers[i])
  /\ UNCHANGED <<client, link, inbox, broker, faults>>

\* Nothing left to resubscribe.  Inside a yield, reading goes on.
ResubscribeDone ==
  /\ wait = "resubscribe"
  /\ \A i \in Slots : ~IsNextToResubscribe(i)
  /\ \/ /\ api = "yield"
        /\ state' = "YIELD"
        /\ Block("yield", "packet", 0, NoTopic)
     \/ /\ api = "reconnect"
        /\ state' = "IDLE"
        /\ Return("reconnect", "RECONNECTED")
     \/ /\ api = "resubscribe"
        /\ state' = "IDLE"
        /\ Return("resubscribe", "SUCCESS")
  /\ UNCHANGED <<handlers, resubscribed, interval, ping, network>>

\* Nothing is on its way: the call a callback made has read the acknowledgement
\* of the one below.
NothingComes == link = "up" /\ outbox = <<>> /\ inbox = <<>> /\ UNCHANGED faults

\* The wait for an acknowledgement ends without it: the timer ran out or the
\* read failed.  A failed resubscription keeps its state, to be tried again.
AckLost ==
  /\ wait \in {"SUBACK", "UNSUBACK"}
  /\ cb = "none"
  /\ Fault \/ NothingComes
  /\ \/ /\ api \in {"subscribe", "unsubscribe"}
        /\ state' = Saved
        /\ Return(api, "FAILURE")
        /\ UNCHANGED interval
     \/ /\ api = "resubscribe"
        /\ Return("resubscribe", "FAILURE")
        /\ UNCHANGED <<state, interval>>
     \/ /\ api = "reconnect"
        /\ Return("reconnect", "ATTEMPTING_RECONNECT")
        /\ UNCHANGED <<state, interval>>
     \/ /\ api = "yield"
        /\ BackOff
        /\ UNCHANGED state
  /\ UNCHANGED <<handlers, resubscribed, ping, link, outbox, inbox, broker>>

-----------------------------------------------------------------------------
(* Publishing at QoS 0, the only level the application uses: by the task,  *)
(* or by a callback while a read is in progress.                           *)

\* The code is SUCCESS whatever the write returned, also over a broken session.
Publish ==
  /\ MayCall
  /\ \E rc \in {"SUCCESS", "NOT_IDLE", "DISCONNECTED"} :
       /\ rc = "DISCONNECTED" <=> state \notin Connected
       /\ rc = "SUCCESS" <=> state \in {"IDLE", "WAIT_FOR_CB"}
       /\ ret' = [fn |-> "publish", rc |-> rc]
  /\ UNCHANGED <<client, network, call>>

-----------------------------------------------------------------------------
(* Yielding: reading, keep-alive and reconnection.                         *)

\* The reconnection attempts are used up.
Exhausted == interval > MaxWait

\* While the client reconnects, a yield may find its delay timer still running.
Yield ==
  /\ MayCall
  /\ \/ /\ state = "DISCONNECTED_MANUALLY"
        /\ Refuse("yield", "MANUALLY_DISCONNECTED")
     \/ /\ state \in {"INITIALIZED", "DISCONNECTED_ERROR"}
        /\ Refuse("yield", "DISCONNECTED")
     \/ /\ state \in Connected \ {"IDLE", "RESUBSCRIBE"}
        /\ Refuse("yield", "NOT_IDLE")
     \/ /\ state \in {"PENDING_RECONNECT", "RESUBSCRIBE"}
        /\ Exhausted
        /\ Refuse("yield", "RECONNECT_TIMED_OUT")
     \/ /\ state \in {"PENDING_RECONNECT", "RESUBSCRIBE"}
        /\ ~Exhausted
        /\ Refuse("yield", "ATTEMPTING_RECONNECT")
     \/ /\ state = "PENDING_RECONNECT"
        /\ ~Exhausted
        /\ state' = "CONNECTING"
        /\ Block("yield", "CONNACK", 0, NoTopic)
        /\ UNCHANGED <<handlers, resubscribed, interval, ping, network>>
     \/ /\ state = "RESUBSCRIBE"
        /\ ~Exhausted
        /\ StartResubscription("yield")
        /\ UNCHANGED <<client, network>>
     \/ /\ state = "IDLE"
        /\ state' = "YIELD"
        /\ Block("yield", "packet", 0, NoTopic)
        /\ UNCHANGED <<handlers, resubscribed, interval, ping, network>>

YieldReturn ==
  /\ wait = "packet"
  /\ cb = "none"
  /\ state' = "IDLE"
  /\ Return("yield", "SUCCESS")
  /\ UNCHANGED <<handlers, resubscribed, interval, ping, network>>

SendPing ==
  /\ wait = "packet"
  /\ cb = "none"
  /\ ~ping
  /\ ping' = TRUE
  /\ Send(Pkt("PINGREQ", NoTopic))
  /\ UNCHANGED <<state, handlers, resubscribed, interval, caller, link, inbox, broker, faults>>

\* A yield finds the session lost: a read failed, or the PINGRESP is overdue.
HandleDisconnect ==
  /\ wait = "packet"
  /\ cb = "none"
  /\ link = "broken" \/ ping
  /\ Fault
  /\ DestroyLink
  /\ state' = "PENDING_RECONNECT"
  /\ interval' = 1
  /\ resubscribed' = [i \in Slots |-> FALSE]
  /\ Return("yield", "ATTEMPTING_RECONNECT")
  /\ UNCHANGED <<handlers, ping>>

-----------------------------------------------------------------------------
(* aws_iot_mqtt_internal_cycle_read: any call that waits reads packets.     *)

Reading(type) ==
  /\ wait \in {"SUBACK", "UNSUBACK", "packet"}
  /\ cb = "none"
  /\ inbox # <<>>
  /\ Head(inbox).type = type
  /\ inbox' = Tail(inbox)
  /\ UNCHANGED <<link, outbox, broker, faults>>

\* Any SUBACK ends the wait: its packet identifier is not compared.
ReadSuback ==
  /\ Reading("SUBACK")
  /\ \/ /\ wait = "SUBACK"
        /\ api = "subscribe"
        /\ handlers' = [handlers EXCEPT ![slot] = topic]
        /\ state' = Saved
        /\ Return("subscribe", "SUCCESS")
        /\ UNCHANGED resubscribed
     \/ /\ wait = "SUBACK"
        /\ api # "subscribe"
        /\ resubscribed' = [resubscribed EXCEPT ![slot] = TRUE]
        /\ Block(api, "resubscribe", slot, NoTopic)
        /\ UNCHANGED <<state, handlers>>
     \/ /\ wait # "SUBACK"
        /\ UNCHANGED <<state, handlers, resubscribed, caller>>
  /\ UNCHANGED <<interval, ping>>

ReadUnsuback ==
  /\ Reading("UNSUBACK")
  /\ \/ /\ wait = "UNSUBACK"
        /\ handlers' = [i \in Slots |-> IF handlers[i] = topic THEN NoTopic ELSE handlers[i]]
        /\ state' = Saved
        /\ Return("unsubscribe", "SUCCESS")
     \/ /\ wait # "UNSUBACK"
        /\ UNCHANGED <<state, handlers, caller>>
  /\ UNCHANGED <<resubscribed, interval, ping>>

ReadPingresp ==
  /\ Reading("PINGRESP")
  /\ ping' = FALSE
  /\ UNCHANGED <<state, handlers, resubscribed, interval, caller>>

\* deliver_message: the state is saved while the matching callbacks run.
ReadPublish ==
  /\ Reading("PUBLISH")
  /\ cb' = state
  /\ state' = "WAIT_FOR_CB"
  /\ UNCHANGED <<handlers, resubscribed, interval, ping, api, wait, slot, count, topic, below, nested, ret>>

CallbackReturn ==
  /\ InCallback
  /\ state' = cb
  /\ cb' = "none"
  /\ UNCHANGED <<handlers, resubscribed, interval, ping, api, wait, slot, count, topic, below, nested, ret, network>>

-----------------------------------------------------------------------------
(* The broker and the network.                                             *)

\* What the broker answers to each request.
Answer == [SUBSCRIBE |-> "SUBACK", UNSUBSCRIBE |-> "UNSUBACK", PINGREQ |-> "PINGRESP"]

BrokerReads ==
  /\ link = "up"
  /\ outbox # <<>>
  /\ LET p == Head(outbox) IN
       /\ inbox' = Append(inbox, Pkt(Answer[p.type], p.topic))
       /\ \/ p.type = "SUBSCRIBE" /\ broker' = broker \cup {p.topic}
          \/ p.type = "UNSUBSCRIBE" /\ broker' = broker \ {p.topic}
          \/ p.type = "PINGREQ" /\ broker' = broker
  /\ outbox' = Tail(outbox)
  /\ UNCHANGED <<client, caller, link, faults>>

BrokerPublishes(t) ==
  /\ link = "up"
  /\ t \in broker
  /\ Len(inbox) < InFlight
  /\ inbox' = Append(inbox, Pkt("PUBLISH", t))
  /\ UNCHANGED <<client, caller, link, outbox, broker, faults>>

\* What already arrived may still be readable, or be gone with the session.
Break ==
  /\ link = "up"
  /\ faults < MaxFaults
  /\ faults' = faults + 1
  /\ link' = "broken"
  /\ outbox' = <<>>
  /\ broker' = {}
  /\ inbox' = inbox \/ inbox' = <<>>
  /\ UNCHANGED <<client, caller>>

-----------------------------------------------------------------------------

MqttInit ==
  /\ state = "INITIALIZED"
  /\ handlers = [i \in Slots |-> NoTopic]
  /\ resubscribed = [i \in Slots |-> FALSE]
  /\ interval = 0
  /\ ping = FALSE
  /\ link = "none"
  /\ api = "none"
  /\ wait = "none"
  /\ slot = 0
  /\ count = 0
  /\ topic = NoTopic
  /\ cb = "none"
  /\ below = <<>>
  /\ nested = FALSE
  /\ ret = NoReturn
  /\ outbox = <<>>
  /\ inbox = <<>>
  /\ broker = {}
  /\ faults = 0

\* The client's own progress inside a call.
ClientStep ==
  \/ ConnectOk \/ ConnectFail
  \/ ResubscribeNext \/ ResubscribeDone \/ AckLost
  \/ YieldReturn \/ SendPing \/ HandleDisconnect
  \/ ReadSuback \/ ReadUnsuback \/ ReadPingresp \/ ReadPublish \/ CallbackReturn

\* The calls of an application.
ApiCall ==
  \/ Connect \/ Disconnect \/ AttemptReconnect
  \/ Resubscribe \/ Publish \/ Yield
  \/ \E t \in Topics : Subscribe(t) \/ Unsubscribe(t)

NetworkStep ==
  \/ BrokerReads \/ Break
  \/ \E t \in Topics : BrokerPublishes(t)

MqttNext == ClientStep \/ ApiCall \/ NetworkStep

MqttSpec == MqttInit /\ [][MqttNext]_mqttVars

-----------------------------------------------------------------------------
(* Properties.                                                             *)

ClientTypeOK ==
  /\ state \in ClientState
  /\ handlers \in [Slots -> Topics \cup {NoTopic}]
  /\ resubscribed \in [Slots -> BOOLEAN]
  /\ interval \in 0..(2 * MaxWait)
  /\ ping \in BOOLEAN

CallerTypeOK ==
  /\ api \in Blocking \cup {"none"}
  /\ wait \in Waits \cup {"none"}
  /\ slot \in 0..NumHandlers
  /\ count \in 0..NumHandlers
  /\ topic \in Topics \cup {NoTopic}
  /\ cb \in Connected \cup {"none"}
  /\ below \in Seq(Frame)
  /\ Len(below) <= MaxNested
  /\ nested \in BOOLEAN
  /\ ret \in Result

NetworkTypeOK ==
  /\ link \in {"none", "up", "broken"}
  /\ outbox \in Seq(Request)
  /\ inbox \in Seq(Response)
  /\ broker \subseteq Topics
  /\ faults \in 0..MaxFaults

\* Every variable keeps its type; the wait interval never passes twice the
\* longest (_aws_iot_mqtt_handle_reconnect stops doubling it there).
TypeOK == ClientTypeOK /\ CallerTypeOK /\ NetworkTypeOK

\* The state under the callbacks, if any run.
Underneath == IF InCallback THEN cb ELSE state

\* The calls and what each may wait for.
Calls ==
  {<<"none", "none">>, <<"unsubscribe", "UNSUBACK">>, <<"yield", "packet">>}
  \cup ({"connect", "reconnect", "yield"} \X {"CONNACK"})
  \cup ({"subscribe", "resubscribe", "reconnect", "yield"} \X {"SUBACK"})
  \cup ({"resubscribe", "reconnect", "yield"} \X {"resubscribe"})

\* The waits in which packets are read.
Reads == {"SUBACK", "UNSUBACK", "packet"}

\* The client states a call may be found in, by what it waits for.
FoundBy(fn, what, s) ==
  /\ what = "none" => s \in ValidForConnect \cup {"IDLE", "RESUBSCRIBE"}
  /\ what = "CONNACK" => s = "CONNECTING"
  /\ what = "SUBACK" => s = IF fn = "subscribe" THEN "SUBSCRIBE" ELSE "RESUBSCRIBE"
  /\ what = "UNSUBACK" => s = "UNSUBSCRIBE"
  /\ what = "resubscribe" => s = "RESUBSCRIBE"
  /\ what = "packet" => s = "YIELD"

\* Whatever is read while a call waits, callbacks and the calls they make
\* included, the call finds the client in the state it left it in: every
\* compare-and-set of aws_iot_mqtt_set_client_state succeeds, at every depth,
\* and no call ends with the client in the middle of another (only a failed
\* resubscription stays in progress).
StateMatchesCall ==
  /\ <<api, wait>> \in Calls
  /\ InCallback <=> state = "WAIT_FOR_CB"
  /\ InCallback => wait \in Reads
  /\ FoundBy(api, wait, Underneath)
  /\ \A n \in DOMAIN below :
       /\ <<below[n].api, below[n].wait>> \in Calls
       /\ below[n].wait \in Reads
       /\ FoundBy(below[n].api, below[n].wait, below[n].cb)

\* The client counts as connected exactly while a TLS session exists: no call
\* that passes aws_iot_mqtt_is_client_connected writes to or reads from a
\* destroyed TLS context, and no context is abandoned by a new connection.
ConnectedMeansSession == link # "none" <=> state \in Connected

\* One exchange in a sequence of packets.
Pings(q) == {n \in DOMAIN q : q[n].type \in {"PINGREQ", "PINGRESP"}}

\* While the session is up, a ping is outstanding exactly when one PINGREQ or
\* its PINGRESP is on the wire: the keep-alive neither waits for an answer
\* that cannot come (and drops a good session) nor has two pings in flight.
PingOnTheWire ==
  link = "up" =>
    \/ ping /\ \E n \in DOMAIN outbox : Pings(outbox) = {n} /\ Pings(inbox) = {}
    \/ ping /\ \E n \in DOMAIN inbox : Pings(inbox) = {n} /\ Pings(outbox) = {}
    \/ ~ping /\ Pings(outbox) = {} /\ Pings(inbox) = {}

\* A subscription's slot is chosen before the SUBACK is awaited and filled
\* after it, with callbacks in between that may subscribe and unsubscribe.  It
\* is still free then, so that no handler replaces another and only an
\* unsubscription frees slots, except in one case: a callback has subscribed
\* while the subscription was pending, and took the slot.
HandlerKept ==
  [][\A i \in Slots :
       handlers[i] # NoTopic /\ handlers'[i] # handlers[i]
         => \/ api = "unsubscribe" /\ handlers'[i] = NoTopic
            \/ api = "subscribe" /\ nested]_mqttVars

\* Every call that blocks returns: no read, callback, reconnection or
\* resubscription keeps the task inside the client for ever.
CallsReturn == api # "none" ~> api = "none"

=============================================================================
