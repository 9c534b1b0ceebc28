---------------------------- MODULE DeviceShadow ----------------------------
(***************************************************************************)
(* The settings of the grill as the cloud asks for them and is told of     *)
(* them: dealAwsData applies a delta of the thing's shadow, sendTestData   *)
(* and setAwsData report the settings, controlMethon decides when.         *)
(*                                                                         *)
(* The app writes what it wants into the shadow's desired section; the     *)
(* shadow sends the device what differs from the reported section; every   *)
(* report of the device also sets "desired" to null.  Messages are QoS 0:  *)
(* both directions are queues, and what is in them may be lost.  The       *)
(* device's own knob (not in this repository) changes settings as well.    *)
(*                                                                         *)
(* Temperatures are kept in Fahrenheit and exchanged in the unit chosen.   *)
(***************************************************************************)
EXTENDS Integers, Sequences, SequencesExt

CONSTANTS
  Probes,       \* the meat probes (four in the code)
  Temperatures, \* the targets the app asks for, in either unit
  Minutes,      \* the countdowns the app asks for
  NoValue,      \* JSON null, or a key the document does not have
  XLimit,       \* turns of the loop between two looks (10)
  ReportEvery,  \* looks between two reports (3)
  GetPeriod,    \* looks between two requests for the shadow (600)
  MaxAsks,      \* requests of the app (bound of the model)
  MaxFaults,    \* losses and changes at the device (bound of the model)
  InFlight      \* messages to the cloud when the task sends more (bound of the model)

ASSUME ShadowAssumption ==
  /\ Probes \cap {"pwrOn", "fah", "grill", "timer"} = {}
  /\ NoValue \notin BOOLEAN \cup Nat
  /\ Temperatures \subseteq 1..1000
  /\ Minutes \subseteq 0..1440
  /\ XLimit \in Nat
  /\ ReportEvery \in Nat \ {0}
  /\ GetPeriod \in Nat
  /\ MaxAsks \in Nat
  /\ MaxFaults \in Nat
  /\ InFlight \in Nat \ {0}

VARIABLES
  b_power_on,       \* the device is on
  f_c_f,            \* temperatures are shown in Celsius
  set_temp_grill,   \* target of the grill, in Fahrenheit
  set_temp_ok,      \* the grill heats
  set_temp_meat,    \* target of each probe, in Fahrenheit
  setmeat_probe_ok, \* the probes whose target is set
  meat_probe_err,   \* the probes not plugged in
  timer_all,        \* countdown asked, in minutes
  timer_alarm,      \* the countdown runs
  b_desired,        \* a delta waits to be answered by a report
  xcount, controlTimeCount,
  at,               \* the call of aws_iot_task's loop that comes next
  wifi_connect, upgrading,
  desired, reported,  \* the two sections of the shadow
  toDevice, toCloud,  \* messages under way
  asked,              \* what the app last wanted and the device has not refused
  missed,             \* keys whose last delta was lost
  asks, faults

temps == <<f_c_f, set_temp_grill, set_temp_ok, set_temp_meat, setmeat_probe_ok>>
settings == <<b_power_on, temps, timer_all, timer_alarm>>
loop == <<b_desired, xcount, controlTimeCount, at>>
cloud == <<desired, reported, asked, missed, asks>>
shadowVars == <<settings, meat_probe_err, loop, wifi_connect, upgrading, cloud,
                toDevice, toCloud, faults>>

Keys == {"pwrOn", "fah", "grill", "timer"} \cup Probes

\* The values the app may ask of a key.
Wishes(k) == CASE k \in {"pwrOn", "fah"} -> BOOLEAN
               [] k = "timer"            -> Minutes
               [] OTHER                  -> Temperatures

Nothing == [k \in Keys |-> NoValue]

-----------------------------------------------------------------------------
(* Degrees.                                                                *)

\* C's division of integers rounds towards zero.
DivC(a, b) == IF a >= 0 THEN a \div b ELSE -((-a) \div b)

\* myRound((c * 9) / 5 + 32), computed in floating point and kept in 16 bits.
ToFahrenheit(c) == (((18 * c + 325) \div 10)) % 65536

\* (f - 32) * 5 / 9, computed in integers.
ToCelsius(f) == DivC((f - 32) * 5, 9)

\* A plausible mistake: the conversion takes 30 degrees instead of 32.
TargetOff(celsius, n) == IF celsius THEN ToFahrenheit(n) - 2 ELSE n

\* The target a number stands for, in the unit chosen.
Target(celsius, n) == IF celsius THEN ToFahrenheit(n) ELSE n

\* The number that stands for a target.
Number(t) == IF f_c_f THEN ToCelsius(t) ELSE t

-----------------------------------------------------------------------------
(* Plausible mistakes in the operators below, for the mutation runs.        *)

\* The counter of looks is not set back.
NextLookForever == controlTimeCount + 1

\* A delta for a probe is dropped once the probe has a target.
ProbesSetOnce(doc) ==
  LET heard == {p \in Probes \cap DOMAIN doc : p \notin meat_probe_err \cup setmeat_probe_ok}
  IN /\ set_temp_meat' =
          [p \in Probes |-> IF p \in heard THEN Target(f_c_f', doc[p]) ELSE set_temp_meat[p]]
     /\ setmeat_probe_ok' = setmeat_probe_ok \cup heard

\* Reports stop for good when the counter has gone round once.
NextLookStuck == IF controlTimeCount + 1 > GetPeriod THEN 1 ELSE controlTimeCount + 1

-----------------------------------------------------------------------------
(* dealAwsData: a delta is applied, key by key, in this order.  It runs in  *)
(* a callback of the yield.                                                *)

ApplyPower(doc) ==
  b_power_on' = IF "pwrOn" \in DOMAIN doc THEN doc["pwrOn"] ELSE b_power_on

ApplyUnit(doc) == f_c_f' = IF "fah" \in DOMAIN doc THEN ~doc["fah"] ELSE f_c_f

\* turn_off is not in this repository: it may end the heating.
TurnedOff(doc) == "pwrOn" \in DOMAIN doc /\ ~doc["pwrOn"]

\* A target for the grill starts the heating, whatever the power.
ApplyGrill(doc) ==
  \/ /\ "grill" \in DOMAIN doc
     /\ set_temp_grill' = Target(f_c_f', doc["grill"])
     /\ set_temp_ok' = TRUE
  \/ /\ "grill" \notin DOMAIN doc
     /\ set_temp_ok' \in {set_temp_ok} \cup (IF TurnedOff(doc) THEN {FALSE} ELSE {})
     /\ UNCHANGED set_temp_grill

\* The probes that are asked for and plugged in.
Heard(doc) == {p \in Probes \cap DOMAIN doc : p \notin meat_probe_err}

ApplyProbes(doc) ==
  /\ set_temp_meat' = [p \in Probes |->
       IF p \in Heard(doc) THEN Target(f_c_f', doc[p]) ELSE set_temp_meat[p]]
  /\ setmeat_probe_ok' = setmeat_probe_ok \cup Heard(doc)

\* hours = minutes / 60 and minutes % 60; both zero stops the countdown.
ApplyTimer(doc) ==
  IF "timer" \in DOMAIN doc
  THEN timer_all' = doc["timer"] /\ timer_alarm' = (doc["timer"] # 0)
  ELSE UNCHANGED <<timer_all, timer_alarm>>

dealAwsData(doc) ==
  /\ ApplyPower(doc)
  /\ ApplyUnit(doc)
  /\ ApplyGrill(doc)
  /\ ApplyProbes(doc)
  /\ ApplyTimer(doc)
  /\ b_desired' = (b_desired \/ DOMAIN doc # {})

-----------------------------------------------------------------------------
(* sendTestData and setAwsData: the report.                                 *)

\* A probe not plugged in is null, one without a target has target 0.
ReportProbe(p) == IF p \in meat_probe_err THEN NoValue
                  ELSE IF p \in setmeat_probe_ok THEN Number(set_temp_meat[p]) ELSE 0

ReportTimer == IF timer_alarm THEN timer_all ELSE NoValue

Report == [k \in Keys |-> CASE k = "pwrOn" -> b_power_on
                            [] k = "fah"   -> ~f_c_f
                            [] k = "grill" -> Number(set_temp_grill)
                            [] k = "timer" -> ReportTimer
                            [] OTHER       -> ReportProbe(k)]

ReportMsg == [kind |-> "report", doc |-> Report]
GetMsg    == [kind |-> "get", doc |-> Nothing]

-----------------------------------------------------------------------------
(* controlMethon: one look out of XLimit turns, or at once after a delta.   *)

Looks == xcount + 1 > XLimit \/ b_desired

ReportDue ==
  /\ controlTimeCount % ReportEvery = 0 \/ b_desired
  /\ ~upgrading
  /\ wifi_connect

\* The shadow is asked for once per period.
GetDue == controlTimeCount = 0 /\ ~upgrading

NextLook == IF controlTimeCount + 1 > GetPeriod THEN 0 ELSE controlTimeCount + 1

\* What a look sends; without WiFi nothing arrives.
Sent == IF wifi_connect
        THEN (IF ReportDue THEN <<ReportMsg>> ELSE <<>>) \o (IF GetDue THEN <<GetMsg>> ELSE <<>>)
        ELSE <<>>

controlMethon ==
  /\ at = "control"
  /\ at' = "yield"
  /\ Len(toCloud) < InFlight
  /\ \/ /\ ~Looks
        /\ xcount' = xcount + 1
        /\ UNCHANGED <<b_desired, controlTimeCount, toCloud>>
     \/ /\ Looks
        /\ xcount' = 0
        /\ toCloud' = toCloud \o Sent
        /\ b_desired' = (b_desired /\ ~ReportDue)
        /\ controlTimeCount' = NextLook
  /\ UNCHANGED <<settings, meat_probe_err, wifi_connect, upgrading, cloud, toDevice, faults>>

\* The keys of the deltas among some messages.
DeltaKeys(msgs) == UNION {DOMAIN msgs[n].doc : n \in {m \in DOMAIN msgs : msgs[m].kind = "delta"}}

\* iot_Update_accept_handler, called for the delta topic.
HandleDelta ==
  /\ Head(toDevice).kind = "delta"
  /\ LET doc == Head(toDevice).doc IN
       /\ dealAwsData(doc)
       /\ missed' = missed \ {k \in DOMAIN doc \ DeltaKeys(Tail(toDevice)) : doc[k] = asked[k]}
       /\ asked' = [k \in Keys |-> IF k \in DOMAIN doc \cap meat_probe_err THEN NoValue ELSE asked[k]]
  /\ UNCHANGED <<desired, reported, asks>>

\* iot_get_accept_handler: the document is not read.
HandleGet ==
  /\ Head(toDevice).kind = "get"
  /\ UNCHANGED <<settings, b_desired, cloud>>

\* aws_iot_mqtt_yield delivers what has arrived.
Yield ==
  /\ at = "yield"
  /\ \/ /\ toDevice = <<>>
        /\ at' = "control"
        /\ UNCHANGED <<settings, b_desired, cloud, toDevice>>
     \/ /\ toDevice # <<>>
        /\ HandleDelta \/ HandleGet
        /\ toDevice' = Tail(toDevice)
        /\ UNCHANGED at
  /\ UNCHANGED <<meat_probe_err, xcount, controlTimeCount, wifi_connect, upgrading, toCloud, faults>>

-----------------------------------------------------------------------------
(* The shadow service, the app and the surroundings of the device.          *)

\* What the desired section asks that is not reported.
Delta(wanted, told) ==
  LET ks == {k \in Keys : wanted[k] # NoValue /\ wanted[k] # told[k]}
  IN [k \in ks |-> wanted[k]]

AppAsks ==
  /\ asks < MaxAsks
  /\ \E k \in Keys : \E v \in Wishes(k) :
       LET wanted == [desired EXCEPT ![k] = v]
           doc == Delta(wanted, reported)
       IN /\ desired' = wanted
          /\ asked' = [asked EXCEPT ![k] = v]
          /\ toDevice' = IF DOMAIN doc # {} /\ wifi_connect
                         THEN Append(toDevice, [kind |-> "delta", doc |-> doc]) ELSE toDevice
          /\ missed' = missed \cup (IF wifi_connect THEN {k} \ DOMAIN doc ELSE {k} \cup DOMAIN doc)
  /\ asks' = asks + 1
  /\ UNCHANGED <<settings, meat_probe_err, loop, wifi_connect, upgrading, reported, toCloud, faults>>

\* A report replaces the reported section and, with "desired": null, empties
\* the other one.
CloudTakesReport ==
  /\ toCloud # <<>>
  /\ Head(toCloud).kind = "report"
  /\ reported' = Head(toCloud).doc
  /\ desired' = Nothing
  /\ toCloud' = Tail(toCloud)
  /\ UNCHANGED <<settings, meat_probe_err, loop, wifi_connect, upgrading, asked, missed, asks,
                 toDevice, faults>>

CloudAnswersGet ==
  /\ toCloud # <<>>
  /\ Head(toCloud).kind = "get"
  /\ toCloud' = Tail(toCloud)
  /\ toDevice' = IF wifi_connect THEN Append(toDevice, GetMsg) ELSE toDevice
  /\ UNCHANGED <<settings, meat_probe_err, loop, wifi_connect, upgrading, cloud, faults>>

Fault == faults < MaxFaults /\ faults' = faults + 1

MessageLost ==
  /\ Fault
  /\ \/ /\ toCloud # <<>>
        /\ toCloud' = Tail(toCloud)
        /\ UNCHANGED <<toDevice, missed>>
     \/ /\ toDevice # <<>>
        /\ toDevice' = Tail(toDevice)
        /\ missed' = missed \cup DeltaKeys(<<Head(toDevice)>>)
        /\ UNCHANGED toCloud
  /\ UNCHANGED <<settings, meat_probe_err, loop, wifi_connect, upgrading, desired, reported,
                 asked, asks>>

WifiLost ==
  /\ Fault
  /\ wifi_connect
  /\ wifi_connect' = FALSE
  /\ missed' = missed \cup DeltaKeys(toDevice)
  /\ toDevice' = <<>>
  /\ toCloud' = <<>>
  /\ UNCHANGED <<settings, meat_probe_err, loop, upgrading, desired, reported, asked, asks>>

WifiBack ==
  /\ ~wifi_connect
  /\ wifi_connect' = TRUE
  /\ UNCHANGED <<settings, meat_probe_err, loop, upgrading, cloud, toDevice, toCloud, faults>>

UpgradeStarts ==
  /\ Fault
  /\ ~upgrading
  /\ upgrading' = TRUE
  /\ UNCHANGED <<settings, meat_probe_err, loop, wifi_connect, cloud, toDevice, toCloud>>

UpgradeEnds ==
  /\ upgrading
  /\ upgrading' = FALSE
  /\ UNCHANGED <<settings, meat_probe_err, loop, wifi_connect, cloud, toDevice, toCloud, faults>>

\* Somebody turns the knob, or unplugs or plugs in a probe: what the app asked
\* for is no longer expected.
Local ==
  /\ Fault
  /\ \/ /\ f_c_f' = ~f_c_f
        /\ asked' = [asked EXCEPT !["fah"] = NoValue]
        /\ UNCHANGED <<b_power_on, set_temp_grill, set_temp_ok, meat_probe_err>>
     \/ /\ \E t \in Temperatures : set_temp_grill' = t /\ set_temp_ok' = TRUE
        /\ asked' = [asked EXCEPT !["grill"] = NoValue]
        /\ UNCHANGED <<b_power_on, f_c_f, meat_probe_err>>
     \/ /\ b_power_on' = ~b_power_on
        /\ asked' = [asked EXCEPT !["pwrOn"] = NoValue]
        /\ UNCHANGED <<f_c_f, set_temp_grill, set_temp_ok, meat_probe_err>>
     \/ /\ \E p \in Probes : meat_probe_err' = SymDiff(meat_probe_err, {p})
        /\ UNCHANGED <<b_power_on, f_c_f, set_temp_grill, set_temp_ok, asked>>
  /\ UNCHANGED <<set_temp_meat, setmeat_probe_ok, timer_all, timer_alarm, loop, wifi_connect,
                 upgrading, desired, reported, missed, asks, toDevice, toCloud>>

-----------------------------------------------------------------------------

ShadowInit ==
  /\ b_power_on = TRUE
  /\ f_c_f \in BOOLEAN
  /\ set_temp_grill = 32
  /\ set_temp_ok = FALSE
  /\ set_temp_meat = [p \in Probes |-> 32]
  /\ setmeat_probe_ok = {}
  /\ meat_probe_err = {}
  /\ timer_all = 0
  /\ timer_alarm = FALSE
  /\ b_desired = FALSE
  /\ xcount = 0
  /\ controlTimeCount = 0
  /\ at = "control"
  /\ wifi_connect = TRUE
  /\ upgrading = FALSE
  /\ desired = Nothing
  /\ reported = Nothing
  /\ toDevice = <<>>
  /\ toCloud = <<>>
  /\ asked = Nothing
  /\ missed = {}
  /\ asks = 0
  /\ faults = 0

\* The loop of aws_iot_task.
TaskStep == controlMethon \/ Yield

CloudStep == CloudTakesReport \/ CloudAnswersGet

ShadowNext ==
  \/ TaskStep \/ CloudStep \/ AppAsks
  \/ MessageLost \/ WifiLost \/ WifiBack \/ UpgradeStarts \/ UpgradeEnds \/ Local

ShadowSpec == ShadowInit /\ [][ShadowNext]_shadowVars

\* The task's loop never stops, the service answers, the WiFi comes back and an
\* upgrade ends.
ShadowFairSpec ==
  /\ ShadowSpec
  /\ WF_shadowVars(TaskStep)
  /\ WF_shadowVars(CloudStep)
  /\ WF_shadowVars(WifiBack)
  /\ WF_shadowVars(UpgradeEnds)

-----------------------------------------------------------------------------
(* Properties.                                                             *)

DegreesF == 0..65535

ShadowTypeOK ==
  /\ b_power_on \in BOOLEAN /\ f_c_f \in BOOLEAN /\ set_temp_ok \in BOOLEAN
  /\ set_temp_grill \in DegreesF
  /\ set_temp_meat \in [Probes -> DegreesF]
  /\ setmeat_probe_ok \subseteq Probes /\ meat_probe_err \subseteq Probes
  /\ timer_all \in Minutes \cup {0} /\ timer_alarm = (timer_all # 0)
  /\ b_desired \in BOOLEAN
  /\ xcount \in 0..XLimit
  /\ controlTimeCount \in 0..GetPeriod
  /\ at \in {"control", "yield"}
  /\ missed \subseteq Keys

\* The device is set to what was asked, read in one unit or the other.
IsSet(k, v) ==
  \/ k = "pwrOn" /\ b_power_on = v
  \/ k = "fah" /\ f_c_f = ~v
  \/ k = "grill" /\ set_temp_grill \in {v, ToFahrenheit(v)}
  \/ k = "timer" /\ timer_all = v
  \/ k \in Probes /\ k \in setmeat_probe_ok /\ set_temp_meat[k] \in {v, ToFahrenheit(v)}

\* Whatever deltas, reports and answers cross on the way, a request of the app
\* that the device did not refuse and nobody overruled is set on the device, or
\* on its way to it, or its delta was lost or never sent.
RequestNotForgotten ==
  \A k \in Keys :
    asked[k] # NoValue
      => \/ IsSet(k, asked[k])
         \/ k \in missed
         \/ \E n \in DOMAIN toDevice : k \in DeltaKeys(<<toDevice[n]>>) /\ toDevice[n].doc[k] = asked[k]

\* An app that writes back the target it was told, in the unit it was told,
\* moves it by a degree Celsius at most, and not at all in Fahrenheit.
EchoWithinOneDegree ==
  \A k \in {"grill"} \cup (setmeat_probe_ok \ meat_probe_err) :
    LET n == Report[k]
        t == Target(f_c_f, n)
    IN IF f_c_f THEN ToCelsius(t) \in (n - 1)..(n + 1) ELSE t = n

\* Once requests, losses and changes at the device end, the shadow comes to
\* report the settings of the device and holds no request any more.
ReportCatchesUp == <>[](reported = Report /\ desired = Nothing)

=============================================================================
