------------------------------ MODULE OtaUpgrade ------------------------------
(***************************************************************************)
(* The over-the-air upgrade of the device: the steps checkUpgrade takes    *)
(* once per period, the two callbacks of the AWS jobs service, the trigger *)
(* of the shadow, the upgrade thread (external) and reboots.               *)
(*                                                                         *)
(* Callbacks run between two steps, and in the middle of the one step that *)
(* blocks: the subscription to the details of a job.  A job is the version *)
(* number its identifier ends with.                                        *)
(***************************************************************************)
EXTENDS Integers, FiniteSets

CONSTANTS
  Jobs,            \* version numbers of the jobs that may be created
  NoJob,           \* an empty identifier, topic or url; the version 0
  FirstVersion,    \* UpgradeVersion of the firmware at the start
  WaitTurns,       \* periods an answer is waited for (10)
  DetailSlots,     \* handler slots left for the details of jobs
  MaxEvents        \* bound: triggers of the shadow and reboots

ASSUME OtaAssumption ==
  /\ Jobs \subseteq Nat \ {0}
  /\ NoJob = 0
  /\ FirstVersion \in Nat \ {0}
  /\ WaitTurns \in Nat
  /\ DetailSlots \in Nat
  /\ MaxEvents \in Nat

VARIABLES
  version,              \* UpgradeVersion of the running firmware
  awsUpgradeStep,
  waitUpgradeTimeCount,
  maxUpgradeVersion,    \* newest version of the last list, NoJob if none is newer
  upgradeJobIdBuf,
  upgradeUrl,           \* the job whose url it holds
  verdict,              \* what the details callback decided when it wrote upgradeUrl
  subscribing,          \* subscribeRequestJobDetails is waiting for its SUBACK
  topicSusbicJobsDetails, \* the job in the buffer every details handler points to
  detailHandlers,       \* handlers that point to it
  upgradeStep,          \* what the display is told
  upgrde_init,          \* no check is wanted without a trigger
  updateTrigger,
  isNeedSetOk,          \* the success of upgradeJobIdBuf is still to be reported
  image,                \* the job the upgrade thread downloads
  installed,            \* the job installed, started by the next boot
  queued,               \* jobs the server has for the device
  succeeded,            \* jobs reported as succeeded
  requests,             \* requests on their way: the list, or details of a job
  answers,              \* answers on their way
  events                \* triggers and reboots so far

choice == <<maxUpgradeVersion, upgradeJobIdBuf>>
details == <<upgradeUrl, verdict>>
subscription == <<subscribing, topicSusbicJobsDetails, detailHandlers>>
upgrader == <<version, image, installed>>
server == <<queued, succeeded, requests, answers>>
steps == <<awsUpgradeStep, waitUpgradeTimeCount>>
shownTo == <<upgradeStep, upgrde_init>>
asked == <<updateTrigger, events>>
otaVars == <<version, awsUpgradeStep, waitUpgradeTimeCount, maxUpgradeVersion, upgradeJobIdBuf,
             upgradeUrl, verdict, subscribing, topicSusbicJobsDetails, detailHandlers, upgradeStep,
             upgrde_init, updateTrigger, isNeedSetOk, image, installed, queued, succeeded,
             requests, answers, events>>

Step == {"CheckTaskList", "WaitListResponse", "CycleTask", "WaitTaskResponse", "UpgradeNow", "Quit"}

\* upgradeStep 0 to 5.
Shown == {"idle", "checking", "available", "downloading", "ok", "failed"}

\* The request for the list is the one for no job.
Request == Jobs \cup {NoJob}
Answer == [kind : {"list"}, jobs : SUBSET Jobs] \cup [kind : {"details"}, job : Jobs]

-----------------------------------------------------------------------------
(* Plausible mistakes in the operators below, for the mutation runs.        *)

NotOlder(j) == j >= version
UpToNext(j) == j <= version + 1
OneTurnMore == waitUpgradeTimeCount > WaitTurns
StillWaiting == awsUpgradeStep
UrlKept == UNCHANGED details

-----------------------------------------------------------------------------
(* The steps of checkUpgrade.                                              *)

\* delayCount runs only while a check is wanted.
Due == (updateTrigger \/ ~upgrde_init) /\ ~subscribing

\* A message published at QoS 0 may be lost; the sender is not told.
Ask(r) == requests' = requests \cup {r} \/ UNCHANGED requests

WaitedTooLong == waitUpgradeTimeCount + 1 > WaitTurns

\* Where a wait without an answer ends.
GivenUp == "Quit"

\* One period of waiting.
Wait == IF WaitedTooLong
        THEN waitUpgradeTimeCount' = 0 /\ awsUpgradeStep' = GivenUp
        ELSE waitUpgradeTimeCount' = waitUpgradeTimeCount + 1 /\ UNCHANGED awsUpgradeStep

IsNewer(j) == j > version
IsInstalled(j) == j <= version

CheckTaskList ==
  /\ Due
  /\ awsUpgradeStep = "CheckTaskList"
  /\ \/ /\ awsUpgradeStep' = "WaitListResponse"
        /\ waitUpgradeTimeCount' = 0
        /\ Ask(NoJob)
        /\ UNCHANGED upgradeStep
     \/ /\ awsUpgradeStep' = "Quit"
        /\ upgradeStep' = "idle"
        /\ UNCHANGED <<waitUpgradeTimeCount, requests>>
  /\ UNCHANGED <<choice, details, subscription, upgrader, upgrde_init, asked, isNeedSetOk,
                 queued, succeeded, answers>>

\* The topic buffer is rewritten before the subscription is tried.
WaitListResponse ==
  /\ Due
  /\ awsUpgradeStep = "WaitListResponse"
  /\ Wait
  /\ \/ /\ maxUpgradeVersion # NoJob
        /\ IsNewer(maxUpgradeVersion)
        /\ subscribing' = TRUE
        /\ topicSusbicJobsDetails' = upgradeJobIdBuf
     \/ /\ maxUpgradeVersion = NoJob \/ ~IsNewer(maxUpgradeVersion)
        /\ UNCHANGED <<subscribing, topicSusbicJobsDetails>>
  /\ UNCHANGED <<choice, details, detailHandlers, upgrader, shownTo, asked, isNeedSetOk, server>>

\* Subscribed to or not, the next step is taken.
SubscribeReturns ==
  /\ subscribing
  /\ subscribing' = FALSE
  /\ \/ detailHandlers < DetailSlots /\ detailHandlers' = detailHandlers + 1
     \/ UNCHANGED detailHandlers
  /\ awsUpgradeStep' = IF awsUpgradeStep = "Quit" THEN "Quit" ELSE "CycleTask"
  /\ UNCHANGED <<waitUpgradeTimeCount, choice, details, topicSusbicJobsDetails, upgrader, shownTo,
                 asked, isNeedSetOk, server>>

ClearUrl == upgradeUrl' = NoJob /\ verdict' = "none"

\* The result of the request is not looked at.
CycleTask ==
  /\ Due
  /\ awsUpgradeStep = "CycleTask"
  /\ ClearUrl
  /\ Ask(upgradeJobIdBuf)
  /\ awsUpgradeStep' = "WaitTaskResponse"
  /\ waitUpgradeTimeCount' = 0
  /\ UNCHANGED <<choice, subscription, upgrader, shownTo, asked, isNeedSetOk, queued, succeeded, answers>>

\* An answer in the last period counts.
WaitTaskResponse ==
  /\ Due
  /\ awsUpgradeStep = "WaitTaskResponse"
  /\ \/ /\ upgradeUrl = NoJob
        /\ Wait
     \/ /\ upgradeUrl # NoJob
        /\ awsUpgradeStep' = "UpgradeNow"
        /\ waitUpgradeTimeCount' = IF WaitedTooLong THEN 0 ELSE waitUpgradeTimeCount + 1
  /\ UNCHANGED <<choice, details, subscription, upgrader, shownTo, asked, isNeedSetOk, server>>

\* setUrlUpgrade.
UpgradeNow ==
  /\ Due
  /\ awsUpgradeStep = "UpgradeNow"
  /\ image' = upgradeUrl
  /\ upgradeStep' = IF upgrde_init THEN upgradeStep ELSE "downloading"
  /\ awsUpgradeStep' = "Quit"
  /\ UNCHANGED <<waitUpgradeTimeCount, choice, details, subscription, version, installed, upgrde_init,
                 asked, isNeedSetOk, server>>

\* sendJobSucceed for the job in the buffer now; lost or not, it is not repeated.
ReportSuccess ==
  /\ isNeedSetOk
  /\ ~subscribing
  /\ isNeedSetOk' = FALSE
  /\ \/ succeeded' = succeeded \cup {upgradeJobIdBuf} /\ queued' = queued \ {upgradeJobIdBuf}
     \/ UNCHANGED <<succeeded, queued>>
  /\ UNCHANGED <<steps, choice, details, subscription, upgrader, shownTo, asked, requests, answers>>

-----------------------------------------------------------------------------
(* The callbacks.                                                          *)

Newer(js) == {j \in js : IsNewer(j)}

\* dealJobID for every job of the list: the newest of the newer ones is chosen,
\* the others of them are ignored, old ones are reported again (at QoS 0).
ListAccepted(js) ==
  /\ \/ /\ Newer(js) = {}
        /\ maxUpgradeVersion' = NoJob
        /\ UNCHANGED upgradeJobIdBuf
     \/ \E newest \in Newer(js) :
          /\ \A j \in Newer(js) : j <= newest
          /\ maxUpgradeVersion' = newest
          /\ upgradeJobIdBuf' = newest
  /\ \E reported \in SUBSET {j \in js : IsInstalled(j)} :
       succeeded' = succeeded \cup reported /\ queued' = queued \ reported
  /\ upgrde_init' = (upgrde_init \/ js = {} \/ \E j \in js : IsInstalled(j))
  /\ upgradeStep' = IF js = {} THEN "idle" ELSE upgradeStep

ReadList ==
  \E a \in answers :
    /\ a.kind = "list"
    /\ answers' = answers \ {a}
    /\ ListAccepted(a.jobs)
    /\ UNCHANGED <<steps, details, subscription, upgrader, asked, isNeedSetOk, requests>>

\* iot_request_jobdetails_callback_handler, if a handler matches the topic: the
\* version is accepted, or refused (not newer than update_ver, or the device
\* tests itself), or not compared (close_blue_ok).
ReadDetails ==
  \E a \in answers :
    /\ a.kind = "details"
    /\ answers' = answers \ {a}
    /\ \/ /\ detailHandlers = 0 \/ topicSusbicJobsDetails # a.job
          /\ UNCHANGED <<details, shownTo, awsUpgradeStep>>
       \/ /\ detailHandlers > 0 /\ topicSusbicJobsDetails = a.job
          /\ upgradeUrl' = a.job
          /\ \/ /\ verdict' = "accepted"
                /\ upgradeStep' = "available"
                /\ UNCHANGED <<upgrde_init, awsUpgradeStep>>
             \/ /\ verdict' = "refused"
                /\ upgradeStep' = "idle"
                /\ upgrde_init' = TRUE
                /\ awsUpgradeStep' = "Quit"
             \/ /\ verdict' = "uncompared"
                /\ UNCHANGED <<shownTo, awsUpgradeStep>>
    /\ UNCHANGED <<waitUpgradeTimeCount, choice, subscription, upgrader, asked, isNeedSetOk,
                   queued, succeeded, requests>>

\* dealAwsData finds the field "trigger": 1, 0 or another number.
ReadTrigger ==
  /\ events < MaxEvents
  /\ events' = events + 1
  /\ \/ /\ updateTrigger' = TRUE
        /\ upgradeStep' = "checking"
        /\ awsUpgradeStep' = "CheckTaskList"
     \/ /\ updateTrigger' \in BOOLEAN
        /\ UNCHANGED <<upgradeStep, awsUpgradeStep>>
  /\ UNCHANGED <<waitUpgradeTimeCount, choice, details, subscription, upgrader, upgrde_init,
                 isNeedSetOk, server>>

-----------------------------------------------------------------------------
(* The upgrade thread, the server and the power.                           *)

\* The thread calls tellServerOTAOk when the image is in place.
Downloaded ==
  /\ image # NoJob
  /\ installed' = image
  /\ image' = NoJob
  /\ upgradeStep' = "ok"
  /\ isNeedSetOk' = (isNeedSetOk \/ upgradeJobIdBuf # NoJob)
  /\ UNCHANGED <<version, steps, choice, details, subscription, upgrde_init, asked, server>>

DownloadFailed ==
  /\ image # NoJob
  /\ image' = NoJob
  /\ upgradeStep' = "failed"
  /\ UNCHANGED <<version, installed, steps, choice, details, subscription, upgrde_init, asked,
                 isNeedSetOk, server>>

ServerAnswers ==
  /\ \E r \in requests :
       /\ requests' = requests \ {r}
       /\ \/ r = NoJob /\ answers' = answers \cup {[kind |-> "list", jobs |-> queued]}
          \/ r # NoJob /\ answers' = answers \cup {[kind |-> "details", job |-> r]}
          \/ UNCHANGED answers
  /\ UNCHANGED <<steps, choice, details, subscription, upgrader, shownTo, asked, isNeedSetOk,
                 queued, succeeded>>

ServerCreates ==
  /\ \E j \in Jobs \ (queued \cup succeeded) : queued' = queued \cup {j}
  /\ UNCHANGED <<steps, choice, details, subscription, upgrader, shownTo, asked, isNeedSetOk,
                 succeeded, requests, answers>>

\* What a boot sets; upgrde_init comes from the settings store, old or new.
Booted ==
  /\ awsUpgradeStep' = "CheckTaskList"
  /\ waitUpgradeTimeCount' = 0
  /\ maxUpgradeVersion' = NoJob
  /\ upgradeJobIdBuf' = NoJob
  /\ upgradeUrl' = NoJob
  /\ verdict' = "none"
  /\ subscribing' = FALSE
  /\ topicSusbicJobsDetails' = NoJob
  /\ detailHandlers' = 0
  /\ upgradeStep' = "idle"
  /\ upgrde_init' \in BOOLEAN
  /\ updateTrigger' = FALSE
  /\ isNeedSetOk' = FALSE
  /\ image' = NoJob
  /\ installed' = NoJob
  /\ requests' = {}
  /\ answers' = {}

Reboot ==
  /\ events < MaxEvents
  /\ events' = events + 1
  /\ Booted
  /\ version' = IF installed = NoJob THEN version ELSE installed
  /\ UNCHANGED <<queued, succeeded>>

-----------------------------------------------------------------------------

OtaInit ==
  /\ version = FirstVersion
  /\ awsUpgradeStep = "CheckTaskList"
  /\ waitUpgradeTimeCount = 0
  /\ maxUpgradeVersion = NoJob
  /\ upgradeJobIdBuf = NoJob
  /\ upgradeUrl = NoJob
  /\ verdict = "none"
  /\ subscribing = FALSE
  /\ topicSusbicJobsDetails = NoJob
  /\ detailHandlers = 0
  /\ upgradeStep = "idle"
  /\ upgrde_init \in BOOLEAN
  /\ updateTrigger = FALSE
  /\ isNeedSetOk = FALSE
  /\ image = NoJob
  /\ installed = NoJob
  /\ queued = {}
  /\ succeeded = {}
  /\ requests = {}
  /\ answers = {}
  /\ events = 0

\* One period of checkUpgrade, or its return from the blocking subscription.
CheckUpgrade ==
  \/ CheckTaskList \/ WaitListResponse \/ SubscribeReturns
  \/ CycleTask \/ WaitTaskResponse \/ UpgradeNow

Callback == ReadList \/ ReadDetails \/ ReadTrigger

OtaNext ==
  \/ CheckUpgrade \/ ReportSuccess \/ Callback
  \/ Downloaded \/ DownloadFailed
  \/ ServerAnswers \/ ServerCreates \/ Reboot

OtaSpec == OtaInit /\ [][OtaNext]_otaVars

\* The task keeps taking its periods.  Nothing is assumed of the server.
OtaFairSpec == OtaSpec /\ WF_otaVars(CheckUpgrade)

-----------------------------------------------------------------------------
(* Properties.                                                             *)

JobOrNone == Jobs \cup {NoJob}

\* Every variable keeps its type; no wait is longer than WaitTurns periods.
OtaTypeOK ==
  /\ version \in Jobs \cup {FirstVersion}
  /\ awsUpgradeStep \in Step
  /\ waitUpgradeTimeCount \in 0..WaitTurns
  /\ {maxUpgradeVersion, upgradeJobIdBuf, upgradeUrl, topicSusbicJobsDetails, image, installed}
       \subseteq JobOrNone
  /\ verdict \in {"none", "accepted", "refused", "uncompared"}
  /\ detailHandlers \in 0..DetailSlots
  /\ upgradeStep \in Shown
  /\ subscribing \in BOOLEAN /\ upgrde_init \in BOOLEAN
  /\ updateTrigger \in BOOLEAN /\ isNeedSetOk \in BOOLEAN
  /\ queued \subseteq Jobs /\ succeeded \subseteq Jobs
  /\ requests \subseteq Request
  /\ answers \subseteq Answer
  /\ events \in 0..MaxEvents

\* No image is downloaded or installed that is not newer than the firmware that
\* runs, whatever lists and details arrive late, however often the device
\* boots, and whether or not the details callback compares versions.
NoDowngrade == \A j \in {image, installed} : j = NoJob \/ j > version

\* A job whose details were refused is not handed to the upgrade thread by the
\* url they left behind: only after its details were asked for again.
RefusedNotUpgraded ==
  [][image' # image /\ image' # NoJob => verdict \in {"accepted", "uncompared"}]_otaVars

\* No job the device does not run already is reported as succeeded before an
\* image has been installed.
SuccessAfterInstall ==
  [][\A j \in succeeded' \ succeeded : j <= version \/ installed # NoJob]_otaVars

\* A check that has begun ends, answered or not, or is no longer wanted.
CheckEnds == awsUpgradeStep # "Quit" ~> awsUpgradeStep = "Quit" \/ ~Due

\* "tell server ota succeed": the job reported is the one that was installed.
SucceededWasInstalled ==
  [][\A j \in succeeded' \ succeeded : j <= version \/ j = installed]_otaVars

=============================================================================
