--------------------------- MODULE OtaUpgradeProofs ---------------------------
(* What holds of OtaUpgrade for every set of job versions, every version of   *)
(* the firmware at the start, wait, number of handlers and bound on events.   *)
EXTENDS OtaUpgrade, TLAPS

\* No variable that leads to an image holds a job that is not newer.
Candidates ==
  {maxUpgradeVersion, upgradeJobIdBuf, upgradeUrl, topicSusbicJobsDetails, image, installed}
AllNewer == \A j \in Candidates : j = NoJob \/ j > version

\* While an answer is waited for and until it is used, the url in place was not
\* refused, and it came with a decision.
UrlDecided ==
  /\ awsUpgradeStep \in {"WaitTaskResponse", "UpgradeNow"} => verdict # "refused"
  /\ awsUpgradeStep = "UpgradeNow" => upgradeUrl # NoJob
  /\ upgradeUrl # NoJob => verdict # "none"

\* A success is still to be reported only after an installation, of a job known.
ReportOwed == isNeedSetOk => installed # NoJob /\ upgradeJobIdBuf # NoJob

\* The inductive invariant.
OtaInv ==
  /\ OtaTypeOK
  /\ AllNewer
  /\ UrlDecided
  /\ ReportOwed

\* The part of OtaTypeOK about the variables that are on or off.
SwitchesTyped ==
  /\ subscribing \in BOOLEAN /\ upgrde_init \in BOOLEAN
  /\ updateTrigger \in BOOLEAN /\ isNeedSetOk \in BOOLEAN

\* The device boots with empty buffers and no check under way.
LEMMA InitOtaInv == OtaInit => OtaInv
<1> SUFFICES ASSUME OtaInit PROVE OtaInv
  OBVIOUS
<1> USE OtaAssumption DEF OtaInit
<1>1. OtaTypeOK
  <2>1. SwitchesTyped  BY DEF SwitchesTyped
  <2>2. QED  BY <2>1 DEF SwitchesTyped, OtaTypeOK, Step, Shown, JobOrNone
<1>2. AllNewer  BY DEF AllNewer, Candidates
<1>3. UrlDecided  BY DEF UrlDecided
<1>4. ReportOwed  BY DEF ReportOwed
<1>5. QED  BY <1>1, <1>2, <1>3, <1>4 DEF OtaInv

\* The newest of the newer jobs of a list is a job, and newer.
LEMMA ListTyped ==
  ASSUME OtaTypeOK, AllNewer, NEW js \in SUBSET Jobs, ListAccepted(js), UNCHANGED version
  PROVE  /\ {maxUpgradeVersion', upgradeJobIdBuf'} \subseteq JobOrNone
         /\ \A j \in {maxUpgradeVersion', upgradeJobIdBuf'} : j = NoJob \/ j > version
         /\ upgradeJobIdBuf # NoJob => upgradeJobIdBuf' # NoJob
         /\ queued' \subseteq Jobs /\ succeeded' \subseteq Jobs
         /\ upgrde_init' \in BOOLEAN /\ upgradeStep' \in Shown
         /\ \A j \in succeeded' \ succeeded : j <= version
BY OtaAssumption DEF ListAccepted, Newer, IsNewer, IsInstalled, OtaTypeOK, AllNewer, Candidates,
   JobOrNone, Shown

\* A request that goes out, or not, leaves the requests typed.
LEMMA AskTyped ==
  ASSUME requests \subseteq Request, NEW r \in Request, Ask(r)
  PROVE  requests' \subseteq Request
BY DEF Ask

\* A period of waiting keeps the count within its limit.
LEMMA WaitTyped ==
  ASSUME OtaTypeOK, Wait
  PROVE  waitUpgradeTimeCount' \in 0..WaitTurns /\ awsUpgradeStep' \in {awsUpgradeStep, "Quit"}
BY OtaAssumption DEF Wait, WaitedTooLong, GivenUp, OtaTypeOK

\* Every step keeps the types.
LEMMA TypeStep == OtaInv /\ [OtaNext]_otaVars => OtaTypeOK'
<1> SUFFICES ASSUME OtaInv, [OtaNext]_otaVars PROVE OtaTypeOK'
  OBVIOUS
<1>a. OtaTypeOK /\ ReportOwed /\ AllNewer  BY DEF OtaInv
<1> USE <1>a, OtaAssumption DEF OtaTypeOK, JobOrNone, Step, Shown,
       choice, details, subscription, upgrader, server, steps, shownTo, asked
<1>1. CASE CheckTaskList
  <2>1. requests' \subseteq Request  BY <1>1, AskTyped DEF CheckTaskList, Request
  <2>2. QED  BY <1>1, <2>1 DEF CheckTaskList
<1>2. CASE WaitListResponse
  <2>1. waitUpgradeTimeCount' \in 0..WaitTurns /\ awsUpgradeStep' \in Step
    BY <1>2, WaitTyped DEF WaitListResponse
  <2>2. QED  BY <1>2, <2>1 DEF WaitListResponse
<1>3. CASE SubscribeReturns
  <2>1. SwitchesTyped'  BY <1>3 DEF SubscribeReturns, SwitchesTyped
  <2>2. detailHandlers' \in 0..DetailSlots /\ awsUpgradeStep' \in Step  BY <1>3 DEF SubscribeReturns
  <2>3. QED  BY <1>3, <2>1, <2>2 DEF SubscribeReturns, SwitchesTyped
<1>4. CASE CycleTask
  <2>1. requests' \subseteq Request  BY <1>4, AskTyped DEF CycleTask, Request
  <2>2. QED  BY <1>4, <2>1 DEF CycleTask, ClearUrl
<1>5. CASE WaitTaskResponse
  <2>1. waitUpgradeTimeCount' \in 0..WaitTurns /\ awsUpgradeStep' \in Step
    BY <1>5, WaitTyped DEF WaitTaskResponse, WaitedTooLong
  <2>2. QED  BY <1>5, <2>1 DEF WaitTaskResponse
<1>6. CASE UpgradeNow  BY <1>6 DEF UpgradeNow
<1>7. CASE ReportSuccess
  <2>1. upgradeJobIdBuf \in Jobs  BY <1>7 DEF ReportSuccess, ReportOwed
  <2>2. QED  BY <1>7, <2>1 DEF ReportSuccess
<1>8. CASE ReadList
  <2>1. PICK a \in answers :
          /\ a.kind = "list"
          /\ answers' = answers \ {a}
          /\ ListAccepted(a.jobs)
          /\ UNCHANGED <<steps, details, subscription, upgrader, asked, isNeedSetOk, requests>>
    BY <1>8 DEF ReadList
  <2>2. a.jobs \in SUBSET Jobs  BY <2>1 DEF Answer
  <2>3. QED  BY <2>1, <2>2, ListTyped
<1>9. CASE ReadDetails
  <2>1. upgradeUrl' \in JobOrNone /\ verdict' \in {"none", "accepted", "refused", "uncompared"}
    BY <1>9 DEF ReadDetails, Answer
  <2>2. awsUpgradeStep' \in Step /\ upgradeStep' \in Shown /\ upgrde_init' \in BOOLEAN
    BY <1>9 DEF ReadDetails
  <2>3. answers' \subseteq Answer  BY <1>9 DEF ReadDetails
  <2>4. UNCHANGED <<waitUpgradeTimeCount, choice, subscription, upgrader, asked, isNeedSetOk,
                    queued, succeeded, requests>>
    BY <1>9 DEF ReadDetails
  <2>5. QED  BY <2>1, <2>2, <2>3, <2>4
<1>10. CASE ReadTrigger
  <2>1. SwitchesTyped'  BY <1>10 DEF ReadTrigger, SwitchesTyped
  <2>2. awsUpgradeStep' \in Step /\ upgradeStep' \in Shown /\ events' \in 0..MaxEvents
    BY <1>10 DEF ReadTrigger
  <2>3. QED  BY <1>10, <2>1, <2>2 DEF ReadTrigger, SwitchesTyped
<1>11. CASE Downloaded  BY <1>11 DEF Downloaded
<1>12. CASE DownloadFailed  BY <1>12 DEF DownloadFailed
<1>13. CASE ServerAnswers
  <2>1. \A r \in requests : r # NoJob => [kind |-> "details", job |-> r] \in Answer
    BY DEF Request, Answer
  <2>2. [kind |-> "list", jobs |-> queued] \in Answer  BY DEF Answer
  <2>3. requests' \subseteq Request /\ answers' \subseteq Answer
    BY <1>13, <2>1, <2>2 DEF ServerAnswers
  <2>4. QED  BY <1>13, <2>3 DEF ServerAnswers
<1>14. CASE ServerCreates
  <2>1. queued' \subseteq Jobs  BY <1>14 DEF ServerCreates
  <2>2. QED  BY <1>14, <2>1 DEF ServerCreates
<1>15. CASE Reboot
  <2>1. SwitchesTyped'  BY <1>15 DEF Reboot, Booted, SwitchesTyped
  <2>2. events' \in 0..MaxEvents /\ version' \in Jobs \cup {FirstVersion}  BY <1>15 DEF Reboot
  <2>3. QED  BY <1>15, <2>1, <2>2 DEF Reboot, Booted, SwitchesTyped
<1>16. CASE UNCHANGED otaVars  BY <1>16 DEF otaVars
<1>17. QED
  BY <1>1, <1>2, <1>3, <1>4, <1>5, <1>6, <1>7, <1>8, <1>9, <1>10, <1>11, <1>12, <1>13, <1>14,
     <1>15, <1>16 DEF OtaNext, CheckUpgrade, Callback

\* Every step keeps the candidates newer than the firmware.
LEMMA NewerStep == OtaInv /\ [OtaNext]_otaVars => AllNewer'
<1> SUFFICES ASSUME OtaInv, [OtaNext]_otaVars PROVE AllNewer'
  OBVIOUS
<1>a. OtaTypeOK /\ AllNewer  BY DEF OtaInv
<1> USE <1>a DEF AllNewer, Candidates, choice, details, subscription, upgrader, server
<1>1. CASE UNCHANGED <<version, maxUpgradeVersion, upgradeJobIdBuf, upgradeUrl,
                       topicSusbicJobsDetails, image, installed>>
  BY <1>1
<1>2. CASE WaitListResponse  BY <1>2 DEF WaitListResponse
<1>3. CASE CycleTask  BY <1>3 DEF CycleTask, ClearUrl
<1>4. CASE UpgradeNow  BY <1>4 DEF UpgradeNow
<1>5. CASE ReadList
  <2>1. PICK a \in answers :
          a.kind = "list" /\ ListAccepted(a.jobs) /\ UNCHANGED <<details, subscription, upgrader>>
    BY <1>5 DEF ReadList
  <2>2. a.jobs \in SUBSET Jobs  BY <2>1 DEF Answer, OtaTypeOK
  <2>3. QED  BY <2>1, <2>2, ListTyped
<1>6. CASE ReadDetails  BY <1>6 DEF ReadDetails
<1>7. CASE Downloaded \/ DownloadFailed  BY <1>7 DEF Downloaded, DownloadFailed
<1>8. CASE Reboot  BY <1>8 DEF Reboot, Booted
<1>9. CASE CheckTaskList \/ SubscribeReturns \/ WaitTaskResponse \/ ReportSuccess \/ ReadTrigger
             \/ ServerAnswers \/ ServerCreates \/ UNCHANGED otaVars
  BY <1>1, <1>9 DEF CheckTaskList, SubscribeReturns, WaitTaskResponse, ReportSuccess, ReadTrigger,
     ServerAnswers, ServerCreates, otaVars
<1>10. QED
  BY <1>2, <1>3, <1>4, <1>5, <1>6, <1>7, <1>8, <1>9 DEF OtaNext, CheckUpgrade, Callback

\* Every step keeps the decision with the url.
LEMMA DecidedStep == OtaInv /\ [OtaNext]_otaVars => UrlDecided'
<1> SUFFICES ASSUME OtaInv, [OtaNext]_otaVars PROVE UrlDecided'
  OBVIOUS
<1>a. OtaTypeOK /\ UrlDecided  BY DEF OtaInv
<1> USE <1>a DEF UrlDecided, details, steps
<1>1. CASE CheckTaskList  BY <1>1 DEF CheckTaskList
<1>2. CASE WaitListResponse  BY <1>2, WaitTyped DEF WaitListResponse
<1>3. CASE SubscribeReturns  BY <1>3 DEF SubscribeReturns
<1>4. CASE CycleTask  BY <1>4 DEF CycleTask, ClearUrl
<1>5. CASE WaitTaskResponse  BY <1>5, WaitTyped DEF WaitTaskResponse
<1>6. CASE UpgradeNow  BY <1>6 DEF UpgradeNow
<1>7. CASE ReadDetails
  <2>1. \A a \in answers : a.kind = "details" => a.job # NoJob
    BY OtaAssumption DEF OtaTypeOK, Answer
  <2>2. QED  BY <1>7, <2>1 DEF ReadDetails
<1>8. CASE ReadTrigger  BY <1>8 DEF ReadTrigger
<1>9. CASE Reboot  BY <1>9 DEF Reboot, Booted
<1>10. CASE ReportSuccess \/ ReadList \/ Downloaded \/ DownloadFailed \/ ServerAnswers
              \/ ServerCreates \/ UNCHANGED otaVars
  BY <1>10 DEF ReportSuccess, ReadList, Downloaded, DownloadFailed, ServerAnswers, ServerCreates,
     otaVars
<1>11. QED
  BY <1>1, <1>2, <1>3, <1>4, <1>5, <1>6, <1>7, <1>8, <1>9, <1>10 DEF OtaNext, CheckUpgrade, Callback

\* Every step keeps what a report that is owed needs.
LEMMA OwedStep == OtaInv /\ [OtaNext]_otaVars => ReportOwed'
<1> SUFFICES ASSUME OtaInv, [OtaNext]_otaVars PROVE ReportOwed'
  OBVIOUS
<1>a. OtaTypeOK /\ AllNewer /\ ReportOwed  BY DEF OtaInv
<1> USE <1>a DEF ReportOwed, choice, upgrader
<1>1. CASE ReportSuccess  BY <1>1 DEF ReportSuccess
<1>2. CASE ReadList
  <2>1. PICK a \in answers :
          a.kind = "list" /\ ListAccepted(a.jobs) /\ UNCHANGED <<upgrader, isNeedSetOk>>
    BY <1>2 DEF ReadList
  <2>2. a.jobs \in SUBSET Jobs  BY <2>1 DEF Answer, OtaTypeOK
  <2>3. QED  BY <2>1, <2>2, ListTyped
<1>3. CASE Downloaded  BY <1>3 DEF Downloaded
<1>4. CASE Reboot  BY <1>4 DEF Reboot, Booted
<1>5. CASE CheckUpgrade \/ ReadDetails \/ ReadTrigger \/ DownloadFailed \/ ServerAnswers
             \/ ServerCreates \/ UNCHANGED otaVars
  BY <1>5 DEF CheckUpgrade, CheckTaskList, WaitListResponse, SubscribeReturns, CycleTask,
     WaitTaskResponse, UpgradeNow, ReadDetails, ReadTrigger, DownloadFailed, ServerAnswers,
     ServerCreates, otaVars
<1>6. QED  BY <1>1, <1>2, <1>3, <1>4, <1>5 DEF OtaNext, Callback

\* Every step keeps the invariant.
LEMMA NextOtaInv == OtaInv /\ [OtaNext]_otaVars => OtaInv'
BY TypeStep, NewerStep, DecidedStep, OwedStep DEF OtaInv

\* The invariant holds in every state.
THEOREM OtaInvariant == OtaSpec => []OtaInv
BY InitOtaInv, NextOtaInv, PTL DEF OtaSpec

\* The variables of the upgrade keep their types, and no wait for an answer of
\* the jobs service lasts longer than its limit, whatever the service does.
THEOREM OtaTypeCorrect == OtaSpec => []OtaTypeOK
BY OtaInvariant, PTL DEF OtaInv

\* The device never downloads or installs an image that is not newer than the
\* firmware it runs, whatever lists and details arrive and however it reboots.
THEOREM NeverDowngraded == OtaSpec => []NoDowngrade
<1>1. OtaInv => NoDowngrade
  BY DEF OtaInv, AllNewer, Candidates, NoDowngrade
<1>2. QED  BY <1>1, OtaInvariant, PTL

\* A url left by details that were refused is never handed to the upgrade thread.
THEOREM RefusedUrlNeverUsed == OtaSpec => RefusedNotUpgraded
<1>1. ASSUME OtaInv, [OtaNext]_otaVars
      PROVE  [image' # image /\ image' # NoJob => verdict \in {"accepted", "uncompared"}]_otaVars
  <2> SUFFICES ASSUME OtaNext, image' # image, image' # NoJob
               PROVE  verdict \in {"accepted", "uncompared"}
    BY <1>1 DEF otaVars
  <2>1. UpgradeNow
    BY DEF OtaNext, CheckUpgrade, Callback, CheckTaskList, WaitListResponse, SubscribeReturns,
       CycleTask, WaitTaskResponse, ReportSuccess, ReadList, ReadDetails, ReadTrigger, Downloaded,
       DownloadFailed, ServerAnswers, ServerCreates, Reboot, Booted, upgrader
  <2>2. QED  BY <1>1, <2>1 DEF UpgradeNow, OtaInv, UrlDecided, OtaTypeOK
<1>2. QED  BY <1>1, OtaInvariant, PTL DEF OtaSpec, RefusedNotUpgraded

\* Nothing but what already runs is reported as succeeded before an image has
\* been installed since the last boot.
THEOREM SuccessOnlyAfterInstall == OtaSpec => SuccessAfterInstall
<1>1. ASSUME OtaInv, [OtaNext]_otaVars
      PROVE  [\A j \in succeeded' \ succeeded : j <= version \/ installed # NoJob]_otaVars
  <2> SUFFICES ASSUME OtaNext, succeeded' # succeeded
               PROVE  \A j \in succeeded' \ succeeded : j <= version \/ installed # NoJob
    BY <1>1 DEF otaVars
  <2>1. ReportSuccess \/ ReadList
    BY DEF OtaNext, CheckUpgrade, Callback, CheckTaskList, WaitListResponse, SubscribeReturns,
       CycleTask, WaitTaskResponse, UpgradeNow, ReadDetails, ReadTrigger, Downloaded,
       DownloadFailed, ServerAnswers, ServerCreates, Reboot, server
  <2>2. CASE ReportSuccess  BY <1>1, <2>2 DEF ReportSuccess, OtaInv, ReportOwed
  <2>3. CASE ReadList
    <3>1. PICK a \in answers : a.kind = "list" /\ ListAccepted(a.jobs) /\ UNCHANGED version
      BY <2>3 DEF ReadList, upgrader
    <3>2. a.jobs \in SUBSET Jobs  BY <1>1, <3>1 DEF OtaInv, OtaTypeOK, Answer
    <3>3. QED  BY <1>1, <3>1, <3>2, ListTyped DEF OtaInv
  <2>4. QED  BY <2>1, <2>2, <2>3
<1>2. QED  BY <1>1, OtaInvariant, PTL DEF OtaSpec, SuccessAfterInstall

=============================================================================
