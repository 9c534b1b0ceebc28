---------------------------- MODULE ShadowActions ----------------------------
(***************************************************************************)
(* The thing shadow client of the SDK: get, update and delete of a shadow  *)
(* with a callback, the list of those that wait for an answer, the list of *)
(* the topics subscribed for them, and the callbacks that tell the         *)
(* outcome.                                                                *)
(*                                                                         *)
(* Everything runs in the application's task.  A subscribe or an           *)
(* unsubscribe waits for its acknowledgement and reads the network         *)
(* meanwhile, so an answer to another request can be handled in the middle *)
(* of it, and its callback may call the next action: the calls in progress *)
(* are a stack.                                                            *)
(***************************************************************************)
EXTENDS Integers, Sequences, FiniteSetsExt, SequencesExt

CONSTANTS
  Requests,        \* a request: a key, which is a thing and an action (get, update,
                   \* delete), a number, which is its client token, and isSticky
  MaxAcks,         \* MAX_ACKS_TO_COMEIN_AT_ANY_GIVEN_TIME
  MaxTopics,       \* MAX_TOPICS_AT_ANY_GIVEN_TIME
  CallbacksCall,   \* whether callbacks call actions
  MaxDepth,        \* calls in progress at once (bound of the model)
  MaxFaults,       \* MQTT calls that fail on a connection (bound of the model)
  MaxConnects      \* connections after the first (bound of the model)

ASSUME ShadowAssumption ==
  /\ MaxAcks \in Nat \ {0} /\ MaxTopics \in Nat \ {0}
  /\ CallbacksCall \in BOOLEAN
  /\ MaxDepth \in Nat \ {0} /\ MaxFaults \in Nat /\ MaxConnects \in Nat

VARIABLES
  AckWaitList,       \* per slot the request that waits, or Free
  SubscriptionList,  \* per slot the topic, the count, isSticky and isFree
  stack,             \* the calls in progress
  rc,                \* what the call of a request returned
  told,              \* what its callback was told
  handlers,          \* slots the MQTT client has a handler for: the name of the
                     \* handler points at the topic in the slot
  leftovers,         \* slots it has one for since an earlier connection
  subscribed,        \* topics, at the broker
  decision,          \* of the shadow service
  inbox,             \* requests whose answer is on its way
  dropped,           \* requests forgotten by a new connection
  persistent,        \* keys to stay subscribed
  faults,
  connects

records == <<AckWaitList, SubscriptionList>>
topics == <<handlers, leftovers, subscribed>>
service == <<decision, inbox>>
ghosts == <<dropped, persistent, faults, connects>>
shadowVars == <<records, stack, rc, told, topics, service, ghosts>>

Keys == {r[1] : r \in Requests}
Answers == {"accepted", "rejected"}
Topic(r, answer) == <<r[1], answer>>
Free == <<"free">>

ASSUME FreeAssumption == Free \notin Requests

ASSUME StickyAssumption == \A r \in Requests : r[3] \in BOOLEAN

-----------------------------------------------------------------------------
(* Plausible mistakes in the operators below, for the mutation runs.        *)

\* A topic is unsubscribed without looking at who else uses it.
SoleUseIgnored(record) == ~record.isSticky

\* The last user is taken for none.
SoleUseOffByOne(record) == ~record.isSticky /\ record.count = 0

\* Every user is taken off the count, the last one as well.
LookTakesOff(list, r, answer) ==
  LET found == {i \in 1..MaxTopics : ~list[i].isFree /\ list[i].topic = <<r[1], answer>>}
      i     == Min(found)
      rest  == IF found = {} THEN list ELSE [list EXCEPT ![i].count = @ - 1]
  IN IF found # {} /\ ~list[i].isSticky /\ list[i].count = 1
     THEN [pc |-> "unsubscribe", on |-> answer, a |-> i, list |-> rest]
     ELSE [pc |-> "done", on |-> answer, a |-> 0, list |-> rest]

\* The first record in use is taken for the one of the request.
WaitingForAny(r) == {i \in 1..MaxAcks : AckWaitList[i] # <<"free">>}

-----------------------------------------------------------------------------
(* The lists.                                                              *)

Waiting == {r \in Requests : \E i \in 1..MaxAcks : AckWaitList[i] = r}

FreeAcks == {i \in 1..MaxAcks : AckWaitList[i] = Free}
FreeTopics == {i \in 1..MaxTopics : SubscriptionList[i].isFree}

\* findIndexOfSubscriptionList: a slot that was taken for a topic not yet written
\* to it is found by its old one.
IndexesOf(topic) ==
  {i \in 1..MaxTopics : ~SubscriptionList[i].isFree /\ SubscriptionList[i].topic = topic}

isSubscriptionPresent(r) == \A answer \in Answers : IndexesOf(Topic(r, answer)) # {}

\* The last request decides whether the subscription stays.
incrementSubscriptionCnt(r) ==
  SubscriptionList' =
    [i \in 1..MaxTopics |->
       IF \E answer \in Answers : i \in IndexesOf(Topic(r, answer))
       THEN [SubscriptionList[i] EXCEPT !.count = @ + 1, !.isSticky = r[3]]
       ELSE SubscriptionList[i]]

\* Slots whose handler takes the messages of a topic.
HandlersOf(topic) == {i \in handlers \cup leftovers : SubscriptionList[i].topic = topic}

\* aws_iot_mqtt_unsubscribe of a topic with a handler, when it is acknowledged: all
\* handlers of that name go.
Forgets(topic) ==
  /\ handlers' = handlers \ HandlersOf(topic)
  /\ leftovers' = leftovers \ HandlersOf(topic)
  /\ subscribed' = subscribed \ {topic}

Frees(S) ==
  SubscriptionList' =
    [i \in 1..MaxTopics |-> [SubscriptionList[i] EXCEPT !.isFree = @ \/ i \in S]]

-----------------------------------------------------------------------------
(* The stack.                                                              *)

Top == Last(stack)
At(pc) == stack # <<>> /\ Top.pc = pc
Goto(pc, answer) == stack' = [stack EXCEPT ![Len(stack)].pc = pc, ![Len(stack)].on = answer]

\* The calls wait for the acknowledgement of an MQTT call.
Blocked == stack # <<>> => Top.pc \in {"subscribe", "unsubscribe", "undo"}

Reads == Blocked /\ Len(stack) < MaxDepth

Fault == faults < MaxFaults /\ faults' = faults + 1

-----------------------------------------------------------------------------
(* An action.                                                              *)

\* publishToShadowAction and addToAckWaitList, on the slot chosen before the topics
\* were subscribed.  The calls below the action go on.
Publish(r, slot, below) ==
  /\ stack' = below
  /\ \/ /\ rc' = [rc EXCEPT ![r] = "SUCCESS"]
        /\ AckWaitList' = [AckWaitList EXCEPT ![slot] = r]
        /\ persistent' = IF r[3] THEN persistent \cup {r[1]} ELSE persistent
        /\ UNCHANGED faults
     \/ /\ rc' = [rc EXCEPT ![r] = "FAILURE"]
        /\ Fault
        /\ UNCHANGED <<AckWaitList, persistent>>

MayCall == stack = <<>> \/ (CallbacksCall /\ At("callback") /\ Len(stack) < MaxDepth)

\* aws_iot_shadow_internal_action, as far as its first subscribe.  With no slot for
\* the answer it fails; with no slots for the topics it goes on without them.
Action(r) ==
  LET slot == Min(FreeAcks)
      a    == Min(FreeTopics)
      b    == Min(FreeTopics \ {a})
      Begin(pc, second) == Append(stack, [kind |-> "action", pc |-> pc, on |-> "accepted", r |-> r,
                                          slot |-> slot, a |-> a, b |-> second])
  IN \/ /\ FreeAcks = {}
        /\ rc' = [rc EXCEPT ![r] = "FAILURE"]
        /\ UNCHANGED <<records, stack, persistent, faults>>
     \/ /\ FreeAcks # {}
        /\ isSubscriptionPresent(r)
        /\ incrementSubscriptionCnt(r)
        /\ Publish(r, slot, stack)
     \/ /\ FreeAcks # {}
        /\ ~isSubscriptionPresent(r)
        /\ Cardinality(FreeTopics) >= 2
        /\ SubscriptionList' = [SubscriptionList EXCEPT ![a].isFree = FALSE,
                                                        ![a].topic = Topic(r, "accepted"),
                                                        ![b].isFree = FALSE]
        /\ stack' = Begin("subscribe", b)
        /\ UNCHANGED <<AckWaitList, rc, persistent, faults>>
     \/ /\ FreeAcks # {}
        /\ ~isSubscriptionPresent(r)
        /\ FreeTopics = {} \/ (Cardinality(FreeTopics) = 1 /\ SubscriptionList[a].count # 1)
        /\ Publish(r, slot, stack)
        /\ UNCHANGED SubscriptionList
     \/ /\ FreeAcks # {}
        /\ ~isSubscriptionPresent(r)
        /\ Cardinality(FreeTopics) = 1 /\ SubscriptionList[a].count = 1
        /\ stack' = Begin("undo", 0)
        /\ UNCHANGED <<records, rc, persistent, faults>>

\* aws_iot_shadow_update, get and delete.
Call ==
  /\ MayCall
  /\ \E r \in Requests : rc[r] = "none" /\ Action(r)
  /\ UNCHANGED <<told, topics, service, dropped, connects>>

\* A topic is subscribed.  The first one leads to the second, and that one to the
\* request.
Subscribe(answer) ==
  /\ At("subscribe") /\ Top.on = answer
  /\ subscribed' = subscribed \cup {Topic(Top.r, answer)}
  /\ handlers' = handlers \cup {IF answer = "accepted" THEN Top.a ELSE Top.b}
  /\ IF answer = "accepted"
     THEN /\ SubscriptionList' = [SubscriptionList EXCEPT ![Top.a].count = 1,
                                                          ![Top.a].isSticky = Top.r[3],
                                                          ![Top.b].topic = Topic(Top.r, "rejected")]
          /\ Goto("subscribe", "rejected")
          /\ UNCHANGED <<AckWaitList, rc, persistent, faults>>
     ELSE /\ SubscriptionList' = [SubscriptionList EXCEPT ![Top.b].count = 1,
                                                          ![Top.b].isSticky = Top.r[3]]
          /\ Publish(Top.r, Top.slot, Front(stack))
  /\ UNCHANGED <<told, leftovers, service, dropped, connects>>

\* The action fails; the slot of the second topic is given back last.
Fails ==
  /\ rc' = [rc EXCEPT ![Top.r] = "FAILURE"]
  /\ stack' = Front(stack)

\* A topic cannot be subscribed.  The first one is unsubscribed when its record
\* counts one use, perhaps an old one.
SubscribeFails ==
  /\ At("subscribe")
  /\ Fault
  /\ IF SubscriptionList[Top.a].count = 1
     THEN Frees({Top.a}) /\ Goto("undo", Top.on) /\ UNCHANGED rc
     ELSE Frees({Top.a, Top.b}) /\ Fails
  /\ UNCHANGED <<AckWaitList, told, topics, service, dropped, persistent, connects>>

\* Whatever the unsubscribe returns, the action goes on: to its failure, or to the
\* request when it only lacked a record.
Undo ==
  /\ At("undo")
  /\ Forgets(SubscriptionList[Top.a].topic) \/ UNCHANGED topics
  /\ IF Top.b = 0
     THEN Publish(Top.r, Top.slot, Front(stack)) /\ UNCHANGED SubscriptionList
     ELSE Fails /\ Frees({Top.b}) /\ UNCHANGED <<AckWaitList, persistent, faults>>
  /\ UNCHANGED <<told, service, dropped, connects>>

-----------------------------------------------------------------------------
(* An outcome.                                                             *)

WaitingFor(r) == {i \in 1..MaxAcks : AckWaitList[i] = r}

CallBack(kind, r, slot, outcome) ==
  /\ told' = [told EXCEPT ![r] = Append(@, outcome)]
  /\ stack' = Append(stack, [kind |-> kind, pc |-> "callback", on |-> "accepted", r |-> r,
                             slot |-> slot, a |-> 0, b |-> 0])

\* An answer is read.  Without a handler for its topic, or a request with its token,
\* it is ignored.
AckStatusCallback ==
  /\ Reads
  /\ \E r \in inbox :
       /\ inbox' = inbox \ {r}
       /\ IF HandlersOf(Topic(r, decision[r])) # {} /\ WaitingFor(r) # {}
          THEN CallBack("ack", AckWaitList[Min(WaitingFor(r))], Min(WaitingFor(r)), decision[r])
          ELSE UNCHANGED <<told, stack>>
  /\ UNCHANGED <<records, rc, topics, decision, ghosts>>

\* aws_iot_shadow_yield looks for requests whose time is over before it reads.
HandleExpired(slot) ==
  /\ stack = <<>>
  /\ AckWaitList[slot] # Free
  /\ CallBack("expire", AckWaitList[slot], slot, "timeout")
  /\ UNCHANGED <<records, rc, topics, service, ghosts>>

SoleUse(record) == ~record.isSticky /\ record.count = 1

\* One topic of unsubscribeFromAcceptedAndRejected, in a list: its last user has to
\* unsubscribe it, any other takes itself off the count.
Look(list, r, answer) ==
  LET found == {i \in 1..MaxTopics : ~list[i].isFree /\ list[i].topic = Topic(r, answer)}
      i     == Min(found)
  IN IF found # {} /\ SoleUse(list[i])
     THEN [pc |-> "unsubscribe", on |-> answer, a |-> i, list |-> list]
     ELSE [pc |-> "done", on |-> answer, a |-> 0,
           list |-> IF found # {} /\ list[i].count > 1 THEN [list EXCEPT ![i].count = @ - 1] ELSE list]

\* Both topics, in their order.
LookBoth(list, r) ==
  LET first == Look(list, r, "accepted")
  IN IF first.pc = "done" THEN Look(first.list, r, "rejected") ELSE first

\* Where a look leads.  A timeout has freed the slot before, when the callback
\* returned; an answer frees it when both topics are dealt with.
GoOn(look) ==
  /\ SubscriptionList' = look.list
  /\ stack' = IF look.pc = "done" THEN Front(stack)
              ELSE [stack EXCEPT ![Len(stack)] =
                      [Top EXCEPT !.pc = look.pc, !.on = look.on, !.a = look.a]]
  /\ AckWaitList' =
       IF IF Top.kind = "ack" THEN look.pc = "done" ELSE Top.pc = "callback"
       THEN [AckWaitList EXCEPT ![Top.slot] = Free] ELSE AckWaitList

CallbackReturns ==
  /\ At("callback")
  /\ \E look \in {LookBoth(SubscriptionList, Top.r)} : GoOn(look)
  /\ UNCHANGED <<rc, told, topics, service, ghosts>>

\* What is left to do when one topic has been dealt with.
LookOn(list, answer) ==
  IF answer = "accepted" THEN Look(list, Top.r, "rejected")
  ELSE [pc |-> "done", on |-> answer, a |-> 0, list |-> list]

\* Acknowledged, or not in time; it fails at once when the topic has no handler, and
\* then the record stays.
Unsubscribe(answer) ==
  /\ At("unsubscribe") /\ Top.on = answer
  /\ LET topic == Topic(Top.r, answer) IN
     \/ /\ HandlersOf(topic) # {}
        /\ Forgets(topic)
        /\ \E look \in {LookOn([SubscriptionList EXCEPT ![Top.a].isFree = TRUE], answer)} : GoOn(look)
        /\ UNCHANGED faults
     \/ /\ IF HandlersOf(topic) = {} THEN UNCHANGED <<topics, faults>>
           ELSE /\ Fault
                /\ subscribed' \in {subscribed, subscribed \ {topic}}
                /\ UNCHANGED <<handlers, leftovers>>
        /\ \E look \in {LookOn(SubscriptionList, answer)} : GoOn(look)
  /\ UNCHANGED <<rc, told, service, dropped, persistent, connects>>

-----------------------------------------------------------------------------
(* The service and the connection.                                         *)

\* The service answers a request on a topic; the broker passes the answer on when
\* the device is subscribed.
ServiceDecides ==
  /\ \E r \in Requests, answer \in Answers :
       /\ rc[r] = "SUCCESS" /\ decision[r] = "none"
       /\ decision' = [decision EXCEPT ![r] = answer]
       /\ inbox' = IF Topic(r, answer) \in subscribed THEN inbox \cup {r} ELSE inbox
  /\ UNCHANGED <<records, stack, rc, told, topics, ghosts>>

\* aws_iot_shadow_connect, after the connection was lost or closed: the records are
\* initialised, but for the topics in them.  The session is a new one for the broker;
\* the handlers of the MQTT client stay, and follow the topics of their slots.
ShadowConnect ==
  /\ stack = <<>>
  /\ connects < MaxConnects
  /\ connects' = connects + 1
  /\ dropped' = dropped \cup Waiting
  /\ AckWaitList' = [i \in 1..MaxAcks |-> Free]
  /\ SubscriptionList' = [i \in 1..MaxTopics |->
                            [SubscriptionList[i] EXCEPT !.isFree = TRUE, !.count = 0, !.isSticky = FALSE]]
  /\ leftovers' = leftovers \cup handlers
  /\ handlers' = {} /\ subscribed' = {} /\ inbox' = {}
  /\ persistent' = {} /\ faults' = 0
  /\ UNCHANGED <<stack, rc, told, decision>>

ShadowInit ==
  /\ AckWaitList = [i \in 1..MaxAcks |-> Free]
  /\ SubscriptionList = [i \in 1..MaxTopics |->
                           [topic |-> <<>>, count |-> 0, isSticky |-> FALSE, isFree |-> TRUE]]
  /\ stack = <<>>
  /\ rc = [r \in Requests |-> "none"]
  /\ told = [r \in Requests |-> <<>>]
  /\ handlers = {} /\ leftovers = {} /\ subscribed = {}
  /\ decision = [r \in Requests |-> "none"] /\ inbox = {}
  /\ dropped = {} /\ persistent = {}
  /\ faults = 0 /\ connects = 0

\* The steps of a call in progress.
Running ==
  \/ \E answer \in Answers : Subscribe(answer) \/ Unsubscribe(answer)
  \/ Undo \/ CallbackReturns

\* A mistake, for the mutation runs: the last slot is not looked at.
ExpiringOffByOne == \E slot \in 1..(MaxAcks - 1) : HandleExpired(slot)

Expiring == \E slot \in 1..MaxAcks : HandleExpired(slot)

ShadowNext ==
  \/ Call \/ Running \/ SubscribeFails \/ AckStatusCallback \/ Expiring
  \/ ServiceDecides \/ ShadowConnect

ShadowSpec == ShadowInit /\ [][ShadowNext]_shadowVars

\* A blocked MQTT call returns at the latest when its own timer expires; the
\* application yields again and again, and the time of a request runs out.
ShadowFairSpec ==
  /\ ShadowSpec
  /\ WF_shadowVars(Running)
  /\ SF_shadowVars(Expiring)

-----------------------------------------------------------------------------
(* Properties.                                                             *)

Outcomes == Answers \cup {"timeout"}

ShadowTypeOK ==
  /\ \A i \in 1..MaxAcks : AckWaitList[i] \in Requests \cup {Free}
  /\ \A i \in 1..MaxTopics : SubscriptionList[i].count \in 0..Cardinality(Requests)
  /\ Len(stack) <= MaxDepth
  /\ handlers \subseteq 1..MaxTopics /\ leftovers \subseteq 1..MaxTopics
  /\ subscribed \subseteq Keys \X Answers
  /\ inbox \subseteq Requests
  /\ \A r \in Requests : told[r] \in Seq(Outcomes)
  /\ persistent \subseteq Keys

\* What became of a request, for the application: from what the call returned, the
\* list and what the callback was told.
Phase(r) ==
  IF Len(told[r]) > 1 THEN "told twice"
  ELSE IF Len(told[r]) = 1 THEN told[r][1]
  ELSE IF rc[r] = "none" THEN "idle"
  ELSE IF rc[r] = "FAILURE" THEN "failed"
  ELSE IF r \in Waiting THEN "waiting"
  ELSE IF r \in dropped THEN "dropped" ELSE "lost"

phases == [r \in Requests |-> Phase(r)]

Promise == INSTANCE ShadowPromise WITH phase <- phases

\* Whatever answers are lost or late, and calls and connections fail: a request that
\* was let in is told one outcome, once, and an answer only when the service gave it.
KeepsPromise == Promise!PromiseSpec

\* No request waits for ever: when the application calls no more actions, the list
\* empties.
EveryOneTold == Waiting # {} ~> Waiting = {}

\* As long as no MQTT call failed, whoever waits is subscribed to both topics, also
\* when another user of them is answered, or expires, at any moment.
WaitingIsHeard ==
  faults = 0 =>
    \A r \in Waiting, answer \in Answers :
      told[r] = <<>> => /\ HandlersOf(Topic(r, answer)) # {}
                        /\ Topic(r, answer) \in subscribed

\* When all is quiet, the records, the subscriptions and the handlers of this connection
\* agree, and nothing is left subscribed that was not asked to stay; what else the MQTT
\* client has a handler for was left by an earlier connection.
NothingLeftOver ==
  stack = <<>> /\ faults = 0 =>
    /\ subscribed = {SubscriptionList[i].topic : i \in (1..MaxTopics) \ FreeTopics}
    /\ handlers = (1..MaxTopics) \ FreeTopics
    /\ Waiting = {} => \A t \in subscribed : t[1] \in persistent

=============================================================================
