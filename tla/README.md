# A verification project for the grill controller firmware

The repository is the firmware of a WiFi grill controller on an ESP32: a cloud
task over the AWS IoT SDK for embedded C, an over-the-air upgrade state machine,
the settings and their shadow in the cloud, a store of settings in flash, a
temperature control task, and board drivers.  This directory holds TLA+ models
of it, the TLC runs that check them, and TLAPS proofs about them.  `SDK` stands
for `src/source/components/atl_IoT_aws/aws-iot-device-sdk-embedded-C`, `aws_iot.c`
for `src/source/components/atl_IoT_aws/aws_iot.c`.

## Inventory

| Component | State it keeps | Operations | What makes it hard | What makes it correct |
|---|---|---|---|---|
| MQTT client (`SDK/src/aws_iot_mqtt_client*.c`) | client state, handler table with `resubscribed` flags, reconnect interval, outstanding ping | connect, disconnect, attempt_reconnect, subscribe, unsubscribe, resubscribe, publish, yield; callbacks from inside any call that reads | a call blocks in the middle of its work while packets, callbacks and failures arrive; errors that are masked | every call finds its own state again, also under calls that callbacks make; a TLS session exists exactly while connected; no handler is replaced by another, but by a subscription inside which a callback made it; every call returns; the broker knows what the table says |
| MQTT packets and their stream (`SDK/src`: serializers, `aws_iot_mqtt_client_common_internal.c`) | read buffer with an index that survives a call, write buffer | serialize, deserialize, read_packet, send_packet, topic match | reads that return in the middle of a packet; packets longer than the buffer; lengths computed twice | the client sees the packets that were sent, whole and in order, inside its buffer; what it writes reads back |
| TLS and timer port (`atl_IoT_aws/port`) | eight contexts of a session, timers | connect in steps, read, write, destroy | any step may fail; the timer may expire between two tests of it | nothing leaks; a packet goes out without a gap; a write ends unless TLS never returns |
| Cloud task (`aws_iot_task` and what it calls, `aws_iot.c`) | ladder of subscriptions, failed-report counter, flags for the display | boot, report, connect again, climb the ladder, yield | two reconnection mechanisms on one client; results that come back masked | believed subscriptions are served; a loss is shown; the busy display ends |
| Settings and device shadow (`dealAwsData`, `setAwsData`, `controlMethon`, `aws_iot.c`) | power, unit, targets, probes, countdown; the counters of the report loop | apply a delta, report, ask for the shadow | reports that erase what is asked for; lost messages; two units with different rounding | what the app asked is set, or known to be lost; the shadow catches up |
| OTA upgrade (`checkUpgrade`, job callbacks, `aws_iot.c`) | `awsUpgradeStep`, job and version chosen, url, completion flag | one step per tick, two callbacks, the upgrade thread's completion, the shadow's trigger | callbacks change what a step is using; answers late or lost; reboot in between | the image installed is newer and is the one reported; a check ends |
| Thing shadow of the SDK (`SDK/src/aws_iot_shadow*.c`) | list of requests that wait, list of subscribed topics with use counts | get, update, delete, yield, answers, expiry | calls that read answers to each other; shared topics; full lists; callbacks that call actions | a request is told one outcome, once; who waits is subscribed; nothing stays subscribed |
| Jobs of the SDK, JSON utilities | none | build topics and queries, parse | - | - |
| Settings store (`nvs_fuc.c`) | version stamp and settings in flash | read, write, erase | power loss between writes; errors overwritten, of reads too; an upgrade between a save and a load | a boot that can read finds what was saved; an upgrade keeps the network's settings |
| Temperature control (`atl_RPID_task.c`, `atl_FPID.c`) | two PID controllers, set point, last temperature | one turn: read, compute, clamp by band, write the fan | overlapping bands; NaN; outputs that outlive a change of set point | the fan settles where set point and temperature say |
| Drivers: encoder, buzzer, timer interrupt, XSH28 front end, MAX6675, CS1238, motor, serial line | counters, flags, a frame buffer | interrupts, callbacks, reads | interrupt against task; stale bytes in a buffer | no edge, beep or flag is lost; only checked frames count |
| Factory menu (`atl_LLTA_task.c`), start-up (`app_main.c`) | menu choice | one peripheral at a time | none beyond the drivers | - |

How they meet: the cloud task is the only caller of the MQTT client; the client
calls the application back from inside its own calls, and reads and writes
through the TLS port; the OTA steps, the deltas and the reports run in the same
task and share the handler table with the ladder; a delta may change a setting
that the store saves; the upgrade thread, the timer interrupt and the display
share plain global variables with all of them.  The shadow client of the SDK is
linked, and the application does by hand what it offers.  `app_main` has the
creation of the temperature control task commented out (`app_main.c:42`).

## Modules

| Module | What it models | Uses |
|---|---|---|
| `MqttClient`, `MCMqttClient` | the client, its network and its caller | |
| `CloudLink`, `MCCloudLink` | the cloud task as the client's only caller | extends `MqttClient` |
| `MqttPackets` | the bytes of every packet, the topic match: operators only | |
| `PacketStream`, `MCPacketStream` | how the client cuts the TLS stream into packets | extends `MqttPackets` |
| `TlsPort`, `MCTlsPort` | set-up and clean-up of a session, the write loop | extends `MqttPackets` |
| `DeviceShadow` | deltas, reports and the settings, with the service and the app around them | |
| `OtaUpgrade` | the upgrade state machine with the jobs service and the upgrade thread | |
| `ShadowPromise` | what the shadow client promises of a request: abstract | |
| `ShadowActions`, `MCShadowActions` | the shadow client's lists, answers, expiries | `INSTANCE ShadowPromise` |
| `SettingsStore`, `MCSettingsStore` | saving and loading of settings in flash | |
| `GrillControl` | the temperature control loop | |

A module named `...Proofs` holds the theorems about the modules it extends:
`MqttClientProofs` about `MqttClient` and `CloudLink`, `WireProofs` about `TlsPort` and
`PacketStream`.  Each module defines next to its operators the plausible mistakes its properties were
tried against; no specification uses them.

### MqttClient

`state`, `handlers`, `resubscribed`, `interval` and `ping` are the fields of
`AWS_IoT_Client` of the same meaning.  A call that blocks is split where it
blocks: `api` is the API function in progress, `wait` what it waits for, `slot`
and `topic` its locals that survive the wait, `cb` the local in which
`deliver_message` saves the state while callbacks run, `ret` the result of the
last call.  A callback may call the client again: `aws_iot_mqtt_subscribe` and
`aws_iot_mqtt_unsubscribe` are accepted in `CONNECTED_WAIT_FOR_CB_RETURN`
(`subscribe.c:292`, `unsubscribe.c:212`), block and read in turn.  `below` holds the
locals of the calls that wait for such a callback, as the task's stack does, at most
`MaxNested` of them; each call goes back to the state it found (`Saved`).  A nested
call may read the acknowledgement the call below it waits for, which then waits in
vain (`NothingComes`).  `link`, `outbox`, `inbox` and `broker` are the network: the TLS
context (none, up, or broken while the client does not know), packets each way,
and the filters the broker's session holds.

Where the code has something to say about it, the model follows the code and not
the documents:

* `aws_iot_mqtt_internal_send_packet` overwrites the result of the write with the
  result of the mutex unlock (`common_internal.c:347`; the port's configuration
  defines `_ENABLE_THREAD_SUPPORT_`), so `Send` never fails to its caller.
* A subscription chooses its slot before it waits (`subscribe.c:232`) and fills it
  after (263-271).  A callback that subscribes meanwhile, as 292 allows, chooses the
  same one: it returns success and has its handler until the outer call is done,
  which replaces it, although `aws_iot_mqtt_client_interface.h:172-174` says that a
  subscription "will cause the provided callback function to be invoked".  The model
  does this too, and `HandlerKept` names it as the one case in which a handler is
  replaced.  `nested`, which is not in the code, remembers that the last subscription
  was begun while another was pending; a subscription that is not interrupted by
  another, whatever else callbacks do, keeps the property's promise.
* A SUBACK ends any wait for a SUBACK (the check of its packet identifier is
  commented out), so a late one acknowledges the next subscription.
* The resubscription loop stops at the first free slot and skips slots whose
  `resubscribed` flag is set; only the disconnect found by a yield resets the flags.
* `force_disconnect` is reached only if `aws_iot_mqtt_disconnect` fails, which it
  cannot; that branch is left out.

Abstractions: only QoS 0 is published (the application uses no other); a callback may
make every call but `aws_iot_mqtt_disconnect`, behind which the call below would go on
with a destroyed session; the callbacks of one message are one, without a place in the
handler table and without the message's contents, which a nested read overwrites in
`readBuf`.  The callbacks of `aws_iot.c` only publish or set flags, those of the SDK's
shadow client subscribe and unsubscribe.  Automatic reconnection is on, as `aws_iot_task` sets
it before its first yield; sessions are clean (`aws_iot.c:218`), so a new one
knows no subscription; a yield makes at most one reconnection attempt; the delay
timer of the reconnection may or may not have expired when a yield looks; partial
packets and malformed ones are part of the waits that end without a result - how
the bytes become packets is `PacketStream`.

### CloudLink

`at` is the place in the loop of `aws_iot_task`; the other variables are the
globals of the same names, and `shown` the set of display flags that are 1.  The
six topics of the ladder are a constant sequence, the ten failed reports and the
hundred turns between tries are `SendLimit` and `SubPeriod`.  The WiFi flag and
the upgrade step are written elsewhere, so each read of them is a free choice.
`sendRequestGet` publishes and ignores the result, so it changes nothing here.

### OtaUpgrade

The variables are the globals of `aws_iot.c` of the same names; `version` is
`UpgradeVersion` of the firmware that runs.  A job is the number its identifier
ends with, the number `dealJobID` compares; an empty buffer is `NoJob`, 0.  One
period of `checkUpgrade` is one action, chosen by `awsUpgradeStep`; `delayCount`
only says when a period is due, so it is the guard `Due`.  Callbacks (`ReadList`,
`ReadDetails`, `ReadTrigger`) run between two periods and also in the middle of
the one period that blocks: `subscribeRequestJobDetails` waits for its SUBACK
(`WaitListResponse` until `SubscribeReturns`, `subscribing` in between).  The
publishes of the other steps do not read from the network, so nothing runs inside
them.  `verdict` records what the details callback decided when it stored the
url; no action reads it.  The decision itself is free: it compares version
strings of the payload and two flags of other tasks (`close_blue_ok`,
`check_self_ing`).

The jobs service, the upgrade thread, the power and the boot loader are external:
answers are a set, so they come late, in any order or never; a report at QoS 0 may
be lost; the image is the job's, a download ends or fails, and a boot starts the
image that was installed.  `upgrde_init` is a setting that survives a boot or
not, so a boot chooses it.  Payloads that do not parse and the length of the
image are left out.

### DeviceShadow

The settings are the globals of `aws_iot.c` of the same names, targets kept in
Fahrenheit in 16 bits.  A document of the shadow is a function on some of `Keys`.
`dealAwsData` takes a delta key by key in the order of the code, so the unit a
delta brings is the one its targets are read in.  `ToFahrenheit` rounds
(`myRound`) and `ToCelsius` truncates, as C's integer division does.  A report
(`sendTestData`, `setAwsData`) sends every setting and `"desired": null` with it,
which empties what the app asked for.  `controlMethon` is one action, `Yield`
delivers one message.  Both queues may lose what is in them, WiFi may go, an
upgrade suspends the reports, and somebody may turn the knob.

`asked` and `missed` are not in the code: what the app last wanted of a key and
the device has neither refused nor overruled, and the keys whose last delta was
lost or never sent.  A key leaves `missed` only when a later delta brings it.
`RequestNotForgotten` is what the device owes: everything else is set or on its
way.  The model says so because the code cannot do better: it asks for the shadow
now and then and does not read the answer (`iot_get_accept_handler`), and its
reports delete the request.

Left out: keys that are read and ignored; values that are only reported
(temperatures, errors); what `set_temp_ok` starts in files that are not here.

### PacketStream

`wire` is what the session has sent and nobody has read, `readBuf` the bytes below
`readBufIndex`.  One action is one call of the network, and a call that finds
nothing returns from `read_packet` and loses the locals; the next call reads again
from the index.  The packets of the broker are bytes, written by `MqttPackets`, so
that a payload can be mistaken for a header.  The model shows four ways in which
the stream and the packets come apart, and `torn` names the first that happened:

* `timeout`: a read whose timer expires with some bytes returns without their
  number (`network_mbedtls_wrapper.c:418`): they are lost.
* `overread`: a packet that does not fit is read and dropped in chunks, the first
  of which is a whole buffer even if less is left, so it takes the beginning of
  the next packet.  The comment at `common_internal.c:450`, `aws_iot_config.h:41`
  of the port and `Kconfig:46` say that such a message is just dropped.
* `interrupted`: a drop in several chunks that stops between two of them starts
  over as if nothing had been read.
* `connect`: `aws_iot_mqtt_connect` sets the index back before it looks at the
  client's state, also when the call is then refused.

`PacketsInOrder` is about the streams none of this has happened to; `WithinBuffer`
is about all of them.

### TlsPort

`tls` goes through the steps of `iot_tls_connect`; `held` are the contexts that own
memory or a socket, `lost` those initialised again while they did.  A failing step
may or may not have set its context up.  The callers clean up after a failure
(`aws_iot_mqtt_connect`) and after a disconnect.  `iot_tls_write` is its two nested
loops and the call of `mbedtls_ssl_write` between their tests (`SslWrite`).  The socket
is blocking (`network_mbedtls_wrapper.c:241`) and `mbedtls_net_send` has no timeout
(292), so that call may return late or never, and the timer, which is looked at in the
two tests only, may expire during it or between one test and the other; the
increment of the outer loop then adds whatever the last write returned, an error
code included, and `written` may fall below zero where the code's count wraps
around - either way the loop's test ends it.  The packets sent are those the
serializers of `MqttPackets` write, and the pure properties of the serializers are
stated about the packet in `writeBuf`.  mbedTLS is external.

### ShadowActions and ShadowPromise

`AckWaitList` and `SubscriptionList` are the static arrays of
`aws_iot_shadow_records.c`.  Every subscribe and unsubscribe waits and reads
meanwhile, so an answer may be handled inside it: `stack` holds the calls in
progress, an action, an answer or an expiry, with their locals.  A slot for the
answer is chosen before the topics are subscribed and filled after; a callback runs
before its slot is freed.  A slot's topic outlives its use, and a lookup may find
a slot by its old topic before the new one is written.

`aws_iot_shadow_connect` empties both lists (`initializeRecords`), but neither it nor
`aws_iot_mqtt_connect` touches the handlers of the MQTT client, which only
`aws_iot_mqtt_init` clears.  `handlers` are those registered on this connection,
`leftovers` those the client keeps from earlier ones; both point at the topic strings
of `SubscriptionList`, which a new use of the slot overwrites, so both may match a
message and both go when a topic is unsubscribed.  A message that matches two handlers
is handed over twice; the second time `AckStatusCallback` finds nobody who waits for
its token, so one step stands for both.  A topic that stays subscribed leaves a handler
behind with every connection; the client's table, which they fill, is not counted
here: a subscription into a full table is one of the calls that fail.

`ShadowPromise` is what an application may rely on: a request is refused, or its
callback is told one outcome, once - the answer the service gave or that none came
- unless a new connection dropped it.  `Phase` maps the lists to it, with two
values the promise does not have, "told twice" and "lost".  `ShadowActions`
implements the promise (`KeepsPromise`) when no callback calls an action;
`shadow_told_twice` shows that this hypothesis is needed.

Left out: registered deltas and their version number, the builder of JSON
documents (`aws_iot_shadow_json.c`).

### SettingsStore

`write_nvc` sets the keys in `Order`, some before the stamp, some after, and
commits at the end; `done` counts those it has passed.  A power failure may come
between any two calls, and each key that is set and not committed may reach the
flash or not.  A failing `nvs_set` is not noticed, nor is a failing `nvs_get`: its
variable stays as it is.  An `nvs_open` that fails in `read_nvc` (`nvs_fuc.c:64-68`)
is a boot in which every `nvs_get` fails; in `write_nvc` and `erase_handlenvs` it
changes nothing.  `Boot(failed)` is a boot that cannot read the keys in `failed`: it
goes on with the compiled-in values, and the next `write_nvc` saves them over what is
still in flash.  The stamp is two numbers, and
each can be written without the other.  `Boot` also starts the next image of
`Firmware`: its own stamp makes it load all settings, an older one those of the
network, anything else none.  `since`, `during`, `whole` and `savedBy` are not in
the code; they remember which values a boot may find: those set, and those a save
began with, since the last save that was whole.  The defaults of a boot that read
nothing are among them once a save of them has begun, not before.  One setting stands
for each kind.  Both properties speak of boots that can read the stamp, and of the
settings these can read (`Readable`); a boot that cannot read the stamp loads nothing.
Apart from that, `HalfStamped` is the one way to lose the network's settings that the
model shows: the stamp of a new version whose revision is lower than its predecessor's,
half written, reads as a newer revision than the image's own.

### GrillControl

One turn of `atl_RPID_task` is three actions: the set point from the serial line,
the temperature from the front end, and the two controllers with their bands and
the write to the fan.  Degrees and percent are counted in `Fine` parts; the gains
are whole numbers, so no sum loses anything, and the last bits of a float are not
modelled.  NaN is: the code's test against it is compiled out (`atl_FPID.c` asks
for `ROBBUST_PID_FEATURE_VALID_FLT`, `atl_FPID.h:41` defines
`ROBUST_PID_FEATURE_VALID_FLT`), so it goes through every sum and stays, and its
conversion to an integer is either end of the range.  The dead bands are 0, so
their tests always hold.  The bands overlap and each sums the same controller
again, in the order of the code.

`held` and `poisoned` are not in the code: how many turns the probe has shown the
same, and whether it has ever shown NaN.  `Settled` gives the duty as a function of
set point and temperature alone; `FanSettles` says that the controllers come to it
in three turns whatever their history, except after NaN and within a degree of the
set point, where the sum moves a little every turn.

## Runs

| Run | Expected | What it shows |
|---|---|---|
| `mqtt_client` | pass | the client under any order of calls of one task and of callbacks that subscribe, inside a subscription too, unsubscribe and publish: `TypeOK`, `StateMatchesCall`, `ConnectedMeansSession`, `PingOnTheWire`, `HandlerKept` |
| `cloud_link` | pass | the task over the client: `LadderServed`, `LossIsShown`, `BusyEnds`, `DeadSessionClosedOrStuck`, `CallsReturn`, `LinkTypeOK` |
| `packet_stream` | pass | packets below, at and above the size of the buffer, read in pieces: `WithinBuffer`, `PacketsInOrder`, `PacketsArrive` |
| `tls_port` | pass | failed and ended sessions, every kind of packet against the write's timer and a network that may never return: `NothingLeaks`, `NoGapInPacket`, `WriteEnds`, `PortTypeOK`; the serializers and the topic match against reference definitions: `LengthsAnnounced`, `PublishRoundTrip`, `ConnectReadsBack`, `TopicMatchMeans` |
| `device_shadow` | pass | deltas, reports, losses, the knob, both units: `RequestNotForgotten`, `EchoWithinOneDegree`, `ReportCatchesUp`, `ShadowTypeOK` |
| `ota` | pass | the upgrade under late, lost and reordered answers, triggers and reboots: `NoDowngrade`, `RefusedNotUpgraded`, `SuccessAfterInstall`, `CheckEnds`, `OtaTypeOK` |
| `shadow_actions` | pass | requests that share topics and slots, with answers inside blocking calls, failures and a new connection: `KeepsPromise`, `EveryOneTold`, `WaitingIsHeard`, `NothingLeftOver`, `ShadowTypeOK` |
| `settings` | pass | three images, power failures between any two calls, writes in any order, a call that fails, of a save or of a boot: `SavedIsLoaded`, `NetworkKept` |
| `grill_control` | pass | every order of set points and readings: `FanSettles` |
| `cloud_dead_session` | violation | `yield.c:236` says errors are terminal and the connection must be closed; a session that dies during resubscription is never closed |
| `ota_wrong_job` | violation | `aws_iot.c:542` names the job whose success is to be told; a newer list replaces it before the report is sent |
| `shadow_told_twice` | violation | `aws_iot_shadow_interface.h:131` and `198` say that an expired request is cleared and that its callback gets a timeout or a response; a callback that calls another action from its timeout may be told the late answer as well |

The three violations are the findings of `PROJECT.json`; a subscription inside
another, the ways a stream is torn and a half-written stamp are described with their
modules above.

Bounds.

* `mqtt_client`: two topics and two slots (a full table, a hole before a used slot,
  a duplicate), a longest interval of one doubling, one fault, one unread message, and
  one call suspended under a callback, so that a subscription and one inside it meet
  an unsubscription, a lost session and a late answer.  The two topics may be exchanged
  for one another, as nothing in the client tells them apart.  A second fault, in the
  recovery from the first, is in `cloud_link`; any depth and number are in the theorems.
* `cloud_link`: two topics and four slots, so that the ladder is climbed twice, once
  per session; one interval; two faults.  A fault is a session lost, a connection
  refused or an acknowledgement too late; once a session is broken, further
  failures on it are free.  No bound hides a repetition: after the last fault the
  runs go on for ever without one.
* `packet_stream`: a buffer of 9 bytes and packets of 2, 8, 9, 10 and 23: one that
  just fits, one that fills the buffer, one that is dropped in one chunk, one in
  three; three packets per session, so that a torn stream goes on into garbage; one
  read cut short; reconnections without bound.
* `tls_port`: packets with lengths of one and two bytes, a buffer of 512 that some of
  them do not fit, writes of 64 bytes, two packets per session cut short.  Topic names
  of up to three levels against filters with each wildcard in each place.
* `device_shadow`: one probe, the targets 40 and 104 (each the other's value in the
  other unit), the countdowns none and 90, two requests, one loss or change at the
  device, one message to the cloud before the task sends more.  The theorems are about
  any number of each.
* `ota`: firmware 5 and jobs 5, 6 and 7 (one as old as the firmware, two that compete
  for the buffer), a wait of one period more than none, one handler slot for details
  (the second subscription finds the table full), and two events, each a trigger or a
  reboot, so that a check may be restarted while the answers of the one before it are
  still on their way.
* `shadow_actions`: two requests that share topics and a third that stays subscribed,
  two slots for answers (the third request may find none) and four for topics, two
  calls in progress, one failing call, one new connection.  `shadow_told_twice` needs
  three calls in progress.
* `settings`: one setting before the stamp and one, of the network, after it; images
  with a higher revision and then a higher version with a lower one; one change, one
  failing call; power failures without bound.
* `grill_control`: half degrees; seven readings and five set points in and at the
  edge of every band, whole and half degrees from one another, and NaN at any time.

Deadlock is not checked in `ota`, `ota_wrong_job`, `shadow_actions` and
`shadow_told_twice`: the device rests when no check is wanted and the server has
nothing to say, and the application when all its requests are made and told.

Fairness (`CloudFairSpec`).  The task is never stopped and its calls go on (weak
fairness).  A read loop ends by its own timer however many packets arrive, which
is strong fairness of the ends of a wait; the same holds for the delay timer of a
reconnection and for a read error on a dead session, which TLS reports sooner or
later.  Reports become due again and again (`controlMethon` counts turns), which
assumes that WiFi comes back and that upgrades end.  Nothing is assumed of the
broker except that it reads what arrives; a connection may be refused until the
faults are used up.

`OtaFairSpec` assumes only that the task keeps taking its periods, the return of
the blocking subscription included (its wait ends by its own timer).  `CheckEnds`
owes nothing to the server: a check ends by its count of periods, or is no longer
wanted because the trigger was withdrawn.

`StreamFairSpec`: the task yields again and again, and TCP delivers what was sent, so
a read that can be completed again and again is completed (strong fairness of the
reads), and a complete packet is delivered.  `PortFairSpec`: the task goes on from one
test of the write's loops to the next and the timer expires.  Nothing is assumed of
`mbedtls_ssl_write`, which a stalled peer may hold for ever: `WriteEnds` says that a
write ends if each of its calls of `mbedtls_ssl_write` does, whatever they return.
`CallsReturn` and the other liveness of `CloudLink` take sending as one step, and so
assume that the writes return.  `ShadowFairSpec` of
`DeviceShadow`: the task's loop never stops, the service takes what arrives, WiFi
comes back and an upgrade ends.  `ShadowFairSpec` of `ShadowActions`: a blocked call
ends by its own timer, and since the application yields again and again and a
request's time runs out, an expiry that is possible again and again happens.
`SettingsStore` and `GrillControl` have safety properties only.

Liveness worth a comment.  `LossIsShown` allows the display to be late, because
reports to a dead session are counted as sent until the loss is noticed;
`DeadSessionClosedOrStuck` states the one case in which the session is not
replaced, and `cloud_dead_session` shows that case.  `ReportCatchesUp` holds because
of the periodic report: the one after a delta counts as done whatever became of it.

## Proofs

Every theorem is about all values of the constants that the module's named
assumption admits; where a module's run bounds faults or requests, the theorem has
any number of them.

`MqttClientProofs`, about the client from `ClientAssumption`:

* `TypeCorrect`: `MqttSpec => []TypeOK`
* `CallsKeepState`: `MqttSpec => []StateMatchesCall`
* `SessionWhenConnected`: `MqttSpec => []ConnectedMeansSession`
* `KeepAliveAgrees`: `MqttSpec => []PingOnTheWire`
* `HandlersKept`: `MqttSpec => HandlerKept`

All five follow from one inductive invariant `IInv` (theorem `Invariant`): the
invariants above need each other - the state a call finds depends on the state saved
under the callbacks, the session on the state - and three facts more.  `InTime`: a
yield inside a reconnection started it within the longest interval, without which the
interval's bound is not inductive.  `Stack`: at every depth a call waits for packets
with its own state saved above it, so that what returns to it finds the state it left.
`SlotStaysFree`: the slot a pending SUBSCRIBE has chosen is still free and no second
one is pending, unless the last subscription was begun inside another; without it a
SUBACK might replace a handler.  `IInv` is preserved action by action; types are split
in three lemmas because the client's, the caller's and the network's variables change
together only in a few actions.

And about the cloud task over it, from `LinkAssumption` as well:

* `TaskDrivesClient`: `CloudSpec => MqttSpec`: whatever the task does to the client is a
  step of the client, so the theorems above hold of it
* `LinkTyped`: `CloudSpec => []LinkTypeOK`
* `LadderIsServed`: `CloudSpec => []LadderServed`

The ladder's invariant `LinkInv` (theorem `LinkInvariant`) adds to `IInv` from where the
task makes which of its calls (`TaskCalls`), which rung it waits a SUBACK for or has
just got (`RungInHand`), that the table fills from its start, holds every rung done and
loses none (`TableOfRungs`), that a mark `resubscribed` or a pending SUBACK means that
the broker serves the topic in this session (`MarksOfSession`), that the resubscription
loop has marked every handler it is past (`LoopMarks`), and that the rungs done
are served unless the task is about to learn that it connected anew (`RungsServed`).

`OtaUpgradeProofs`, from `OtaAssumption`:

* `OtaTypeCorrect`: `OtaSpec => []OtaTypeOK`
* `NeverDowngraded`: `OtaSpec => []NoDowngrade`
* `RefusedUrlNeverUsed`: `OtaSpec => RefusedNotUpgraded`
* `SuccessOnlyAfterInstall`: `OtaSpec => SuccessAfterInstall`

The inductive invariant is `OtaInv`.  `AllNewer` follows a job from the list to the
image: it is newer than the firmware in every buffer it passes, also in the one
the details handlers match their topic against, without which a late answer might
bring an old url.  `UrlDecided`: while an answer is waited for and until the url is
used, no refusal is in place, because a refusal ends the check and a new check
clears the url.  `ReportOwed`: a report is owed only after an installation and with
a job in the buffer.

`DeviceShadowProofs`, from `ShadowAssumption`:

* `RequestsKept`: `ShadowSpec => []RequestNotForgotten`
* `EchoBounded`: `ShadowSpec => []EchoWithinOneDegree`
* `ShadowTyped`: `ShadowSpec => []ShadowTypeOK`

`RequestNotForgotten` alone is not inductive: of several deltas under way the last
one wins, and an older one may bring a value that was asked before.  `IInv` adds
`QueueOK` (a delta holds wishes the app may have), `DesiredIsAsked` (what is desired
is what was asked last) and `OnItsWay` (the last delta with a key brings what was
asked, and with none under way it is set).  The echo needs the arithmetic of both conversions over the
range of 16 bits, which is a lemma of its own.

`MqttPacketsProofs`, about the operators of `MqttPackets`:

* `LengthIsRead`: a length below `MaxLength` (2^28) is read back from its bytes, and
  takes as many as `LengthSize` says
* `ClientWraps`: every packet the client writes is a header byte, the length of the
  rest, and the rest

The serializers and the length are recursive functions, and of a recursive function
the provers know only that it equals its definition if any function does.  So
`Recursion` shows once that a function of numbers may be defined from its values at
smaller ones, and `Induction` is stated of sets, as the library's induction theorems
take a predicate as a parameter; the bytes of a length, its size and the decoder's loop
are instances.  `Holds(buf, at, s)` says that the bytes of `s` are in the buffer from a
place on: what is written one after the other is held one after the other, and what is
held is what is read.

`WireProofs`, about `TlsPort` from `PortAssumption` (among it that the device's buffer
is shorter than `MaxLength`) and `RequestsAssumption` (the packets sent are those of
`ClientPackets`: identifiers of 16 bits, strings with a length of 16 bits):

* `PortLeaksNothing`: `PortSpec => []NothingLeaks`
* `PacketHasNoGap`: `PortSpec => []NoGapInPacket`
* `PortTyped`: `PortSpec => []PortTypeOK`
* `PacketsAnnounceLength`: `PortSpec => []LengthsAnnounced`
* `PublishReadsBack`: `PortSpec => []PublishRoundTrip`
* `ConnectFieldsFound`: `PortSpec => []ConnectReadsBack`
* `FilterIsMeant`: `PortSpec => []TopicMatchMeans`

A closed port holds nothing (`NothingLeft`).  For the write, `PortInv` (theorem
`PortInvariant`) adds to the types that the count is what TLS has taken, also at the
outer test (`CountAgrees`), and that what is in `writeBuf` is the request, serialized,
and that it fitted (`PacketInHand`).  `PacketsAnnounceLength`, `PublishReadsBack` and
`ConnectFieldsFound` are then lemmas about `Serialize`, for every packet of
`ClientPackets`.

For the topic match, `TopicsAssumption` says what a filter and a name are: levels that
are not empty and hold no separator, wildcards as levels of their own, a `#` last.
`JoinedSpread` says where each level is among the bytes of a topic.  The loop that
stands at the start of two levels passes both (`LevelPasses`), ends before the end of
one of the two (`LevelFails`), or takes the rest (`AllTaken`), and behind two levels
finds the next ones or the end (`BehindLevels`); so from the first bytes it gets to the
first level that the filter does not mean, or to the last of the shorter one
(`MatchIsMeant`).

And about `PacketStream`, from `StreamAssumption` (a buffer of 6 bytes or more) and
`PacketsAssumption` (the broker sends messages and the acknowledgements of
`BrokerPackets`):

* `BufferHolds`: `StreamSpec => []WithinBuffer`
* `PacketsAreRead`: `StreamSpec => []PacketsInOrder`

`IInv`: what stays in the buffer between two calls is a header and a length at most, and
a length is compared with the buffer before the rest is read, whatever bytes the stream
has, so garbage after a loss cannot take a read beyond it.  For the order, `InOrder`:
while the stream is not torn, some number `k` of the packets sent has been read, what is
delivered are those among them that fit, and the bytes are those of packet `k + 1` with
those of the others behind it (`Place`).  `Reading` says how they are divided between
the buffer and the wire, and what `len`, `rem_len` and `total` say of the packet, at
each stage; it is what a call that returns leaves to the next.  The invariant quantifies
over the course of a whole session, so TLC cannot evaluate it; what it is for,
`PacketsInOrder`, TLC checks.

`SettingsStoreProofs`, from `StoreAssumption` (which says that versions do not go
back):

* `SavedSettingsLoaded`: `StoreSpec => SavedIsLoaded`
* `NetworkSettingsKept`: `StoreSpec => NetworkKept`

Both are about every boot, whichever of its reads fail: a boot is read as one of a flash
that lacks what failed (`Without`).  `IInv` (theorem `StoreInvariant`): the stamp in flash is made of stamps written by
images up to the one that runs; what is pending is what this save read; once an image
has saved, every setting in flash is one of the values since then, and those of the
network also under any later image.

`ShadowActionsProofs`, from `ShadowAssumption`, `FreeAssumption` and `StickyAssumption`
(the values a request and a free slot are told by), each where no callback calls an
action (`~CallbacksCall`):

* `PromiseKept`: `ShadowSpec => KeepsPromise`
* `ShadowTyped`: `ShadowSpec => []ShadowTypeOK`
* `WaitersHeard`: `ShadowSpec => []WaitingIsHeard`
* `NoneLeftOver`: `ShadowSpec => []NothingLeftOver`

`IInv`: only the first call on the stack is an action and only the last is in a
callback; a request that was told and is still in the list is held by a call in
progress, which will free it.  Every step is shown to be a step of `ShadowPromise`
under the mapping `phases`, or to leave it unchanged.

The last two need `ListsInv`, whose core is `AllAgree`: the topics subscribed are those
of the slots with a handler registered on this connection (what the client keeps from
earlier ones may come on top); each use of a topic - a request that waits, or a call that
has counted it and not yet listed it, or freed it and not yet counted it - has such a
slot, the slot's count is the number of its users (or more, if it is kept subscribed),
and no two are for one topic (`RecordsAgree`); the two topics of a thing and action come
and go together (`PairsAgree`); and each call in progress finds what it left
(`CallsAgree`).  It holds until a call of the client fails (`faults = 0`); the two
properties claim nothing after that.  They assume further that there are finitely many
requests, as `ShadowTyped` does, and that the table has room for the topics of every
thing and action, `2 * Cardinality(Keys) <= MaxTopics`: without room a subscription
fails half way, which leaves the lists as a failed call does.

`GrillControlProofs`, from `GrillAssumption`:

* `FanAlwaysSettles`: `GrillSpec => []FanSettles`

`IInv`: until NaN is shown the controllers remember numbers between 0 and 100
percent, both the same two temperatures; after two same readings the terms are the
error times one gain: nothing at the set point, and more than any limit a degree or
more away, so that each sum ends at a limit.  The bands are then evaluated one by one,
for any fineness of the degree.

Model-checked only: all liveness (`CheckEnds`, `LossIsShown`, `BusyEnds`,
`CallsReturn`, `DeadSessionClosedOrStuck`, `ReportCatchesUp`, `PacketsArrive`,
`WriteEnds`, `EveryOneTold`), which is out of the prover's reach.  Every safety property
of a run that passes is a theorem.

## Plan

What is left, in order of importance:

1. Two threads on one client: the compare-and-set of the state against the callbacks
   (`common_internal.c:545-549`).  The application has one.
2. An abstract specification of the upgrade (choose, install, report) that
   `OtaUpgrade` implements except for the reports of `ota_wrong_job`.
3. The registered deltas of the shadow client with their version number.
4. The drivers where an interrupt or a callback meets a task, once the code on the
   other side is there.

## Not modelled

* Without source here: the CS1238 library, the display, WiFi, Bluetooth, and the code
  that downloads an image.  What they do to the modelled globals is a free choice.
* Timer interrupt and encoder: the tasks that share the timer's flag bytes, and the
  behaviour of the contacts, are not in the repository, so no claim could be checked
  against code.
* Buzzer, MAX6675, registers of the fan's PWM unit, factory menu: devices of the factory
  test, one at a time, without state beyond their pins.
* Serial line and XSH28 front end: their results are inputs of `GrillControl`.  The text
  and the search for a frame in 50 bytes are left out, as the protocol the frame
  follows is nowhere stated.
* The wait of a QoS 1 publish for its PUBACK (never used), and use of the client by
  several threads.
* Formatting and parsing: JSON, topics and queries of the jobs SDK, the shadow client's
  documents.
* Start-up: initialisations in order before anything is concurrent.  The SDK's tests and
  samples.

`PROJECT.json` lists every component with its status, and the hazards no property
covers with the reason.
