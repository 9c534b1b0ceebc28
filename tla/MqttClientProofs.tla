--------------------------- MODULE MqttClientProofs ---------------------------
(* What holds of MqttClient for every set of topics, number of handlers,      *)
(* bound on faults and wait interval; and of CloudLink, the task over it, for *)
(* every ladder of topics and limit on failed reports.                        *)
EXTENDS CloudLink, WellFoundedInduction, TLAPS

\* The calls that a callback may make and that block.
Nestable == {"subscribe", "unsubscribe"}

\* The two halves of StateMatchesCall: the call in progress and those below it.
CallMatches ==
  /\ <<api, wait>> \in Calls
  /\ InCallback <=> state = "WAIT_FOR_CB"
  /\ InCallback => wait \in Reads
  /\ FoundBy(api, wait, Underneath)

FrameMatches(f) == <<f.api, f.wait>> \in Calls /\ f.wait \in Reads /\ FoundBy(f.api, f.wait, f.cb)

\* A yield reconnects only while the wait interval is not exhausted.
InTime(fn, what, w) == fn = "yield" /\ what \in {"CONNACK", "resubscribe", "SUBACK"} => w <= MaxWait

\* Only the first call on the stack may be one that no callback makes.
Stack ==
  /\ below # <<>> => api \in Nestable
  /\ \A n \in DOMAIN below :
       /\ FrameMatches(below[n])
       /\ n < Len(below) => below[n].api \in Nestable
       /\ InTime(below[n].api, below[n].wait, interval)

\* The inductive invariant of the calls.
CallInv ==
  /\ CallerTypeOK
  /\ CallMatches
  /\ Stack
  /\ InTime(api, wait, interval)

\* The slot a SUBSCRIBE waits with is still free, in the call in progress and
\* in those below, and only one does, unless the last SUBSCRIBE was sent by a
\* callback of another.
SlotStaysFree ==
  /\ api = "subscribe" => slot \in Slots
  /\ \A n \in DOMAIN below : below[n].api = "subscribe" => below[n].slot \in Slots
  /\ ~nested =>
       /\ api = "subscribe" =>
            handlers[slot] = NoTopic /\ \A n \in DOMAIN below : below[n].api # "subscribe"
       /\ \A n \in DOMAIN below :
            below[n].api = "subscribe" =>
              /\ handlers[below[n].slot] = NoTopic
              /\ \A m \in DOMAIN below : below[m].api = "subscribe" => m = n

\* The inductive invariant.
IInv ==
  /\ ClientTypeOK
  /\ NetworkTypeOK
  /\ CallInv
  /\ ConnectedMeansSession
  /\ SlotStaysFree
  /\ PingOnTheWire

\* What the invariant says of the calls is what the property says, and more.
LEMMA CallsMatch == CallInv => StateMatchesCall
BY DEF CallInv, CallMatches, Stack, FrameMatches, StateMatchesCall

-----------------------------------------------------------------------------
(* The stack of calls.                                                     *)

\* A call is suspended: it is the first of the stack, the others move down.
LEMMA Pushed ==
  ASSUME below \in Seq(Frame), NEW f \in Frame, below' = <<f>> \o below
  PROVE  /\ below' \in Seq(Frame)
         /\ Len(below') = Len(below) + 1 /\ Len(below) \in Nat
         /\ \A n \in DOMAIN below' :
              \/ n = 1 /\ below'[n] = f
              \/ n \in 2..(Len(below) + 1) /\ n - 1 \in DOMAIN below /\ below'[n] = below[n - 1]
OBVIOUS

\* The first of the stack goes on: the others move up.
LEMMA Popped ==
  ASSUME below \in Seq(Frame), below # <<>>, below' = Tail(below)
  PROVE  /\ below' \in Seq(Frame)
         /\ Len(below') = Len(below) - 1 /\ Len(below) \in Nat \ {0}
         /\ 1 \in DOMAIN below /\ Head(below) = below[1] /\ Head(below) \in Frame
         /\ \A n \in DOMAIN below' : n \in 1..(Len(below) - 1) /\ n + 1 \in DOMAIN below /\ below'[n] = below[n + 1]
OBVIOUS

\* Nothing waits below a call that no callback makes.
LEMMA NothingBelow ==
  ASSUME CallInv, api \notin Nestable
  PROVE  below = <<>>
BY DEF CallInv, Stack

\* A call returns: to the application, or to the callback in the call below.
LEMMA ReturnIs ==
  ASSUME NEW fn, NEW rc, Return(fn, rc)
  PROVE  /\ ret' = [fn |-> fn, rc |-> rc]
         /\ \/ /\ below = <<>> /\ below' = <<>> /\ api' = "none" /\ wait' = "none" /\ slot' = 0 /\ count' = 0
               /\ topic' = NoTopic /\ cb' = "none"
            \/ /\ below # <<>> /\ below' = Tail(below)
               /\ api' = Head(below).api /\ wait' = Head(below).wait /\ slot' = Head(below).slot
               /\ count' = Head(below).count /\ topic' = Head(below).topic /\ cb' = Head(below).cb
         /\ UNCHANGED nested
BY DEF Return, Resume, NoCall

\* A call that a callback may make blocks.
LEMMA CallIs ==
  ASSUME NEW fn, NEW what, NEW i, NEW t, CallAndBlock(fn, what, i, t)
  PROVE  /\ api' = fn /\ wait' = what /\ slot' = i /\ topic' = t /\ cb' = "none" /\ count' = 0
         /\ ret' = NoReturn
         /\ \/ api = "none" /\ below' = below
            \/ InCallback /\ Len(below) < MaxNested /\ below' = <<InProgress>> \o below
BY DEF CallAndBlock, Resume, NoCall

\* A resubscription starts.
LEMMA ResubscriptionIs ==
  ASSUME NEW fn, StartResubscription(fn)
  PROVE  /\ api' = fn /\ wait' = "resubscribe" /\ slot' = 0 /\ topic' = NoTopic /\ cb' = "none"
         /\ count' \in 0..NumHandlers /\ Registered(count')
         /\ ret' = NoReturn /\ UNCHANGED <<below, nested>>
BY DEF StartResubscription, Resume, NoCall

\* A call that returns leaves the next one where it was.
LEMMA ReturnKeeps ==
  ASSUME CallInv, NEW fn \in Function, NEW rc \in Code, Return(fn, rc),
         below = <<>> => state' \in ValidForConnect \cup {"IDLE", "RESUBSCRIBE"},
         below # <<>> => state' = "WAIT_FOR_CB" /\ UNCHANGED interval
  PROVE  CallInv'
<1>1. CASE below = <<>>
  <2>1. /\ ret' = [fn |-> fn, rc |-> rc] /\ below' = <<>> /\ api' = "none" /\ wait' = "none" /\ slot' = 0
        /\ count' = 0 /\ topic' = NoTopic /\ cb' = "none" /\ nested' = nested
    BY <1>1, ReturnIs
  <2>2. CallerTypeOK'
    BY <2>1, ClientAssumption DEF CallInv, CallerTypeOK, Result
  <2> QED
    BY <1>1, <2>1, <2>2 DEF CallInv, CallMatches, Calls, InCallback, FoundBy, Underneath, Stack, InTime, ValidForConnect
<1>2. CASE below # <<>>
  <2> DEFINE f == Head(below)
  <2>1. /\ ret' = [fn |-> fn, rc |-> rc] /\ below' = Tail(below) /\ api' = f.api /\ wait' = f.wait
        /\ slot' = f.slot /\ count' = f.count /\ topic' = f.topic /\ cb' = f.cb /\ nested' = nested
    BY <1>2, ReturnIs
  <2>2. /\ below' \in Seq(Frame)
        /\ Len(below') = Len(below) - 1 /\ Len(below) \in Nat \ {0}
        /\ 1 \in DOMAIN below /\ f = below[1] /\ f \in Frame
        /\ \A n \in DOMAIN below' : n \in 1..(Len(below) - 1) /\ n + 1 \in DOMAIN below /\ below'[n] = below[n + 1]
    BY <1>2, <2>1, Popped DEF CallInv, CallerTypeOK
  <2> HIDE DEF f
  <2>3. FrameMatches(f) /\ InTime(f.api, f.wait, interval) /\ (1 < Len(below) => f.api \in Nestable)
    BY <2>2 DEF CallInv, Stack
  <2>4. /\ f.api \in Blocking /\ f.wait \in Waits /\ f.slot \in 0..NumHandlers /\ f.count \in 0..NumHandlers
        /\ f.topic \in Topics \cup {NoTopic} /\ f.cb \in Connected
    BY <2>2 DEF Frame
  <2>5. CallerTypeOK'
    <3>1. Len(below') <= MaxNested
      BY <2>2, ClientAssumption DEF CallInv, CallerTypeOK
    <3> QED
      BY <2>1, <2>2, <2>4, <3>1 DEF CallInv, CallerTypeOK, Result
  <2>6. CallMatches'
    BY <1>2, <2>1, <2>3, <2>4 DEF CallMatches, FrameMatches, InCallback, Underneath, Connected
  <2>7. Stack'
    <3>1. below' # <<>> => Len(below) > 1
      BY <2>2
    <3>2. ASSUME NEW n \in DOMAIN below'
          PROVE  /\ FrameMatches(below'[n]) /\ InTime(below'[n].api, below'[n].wait, interval')
                 /\ n < Len(below') => below'[n].api \in Nestable
      <4>1. n \in Int /\ n + 1 \in DOMAIN below /\ below'[n] = below[n + 1] /\ interval' = interval
        BY <1>2, <2>2
      <4>2. n < Len(below') => n + 1 < Len(below)
        BY <2>2, <4>1
      <4> QED
        BY <4>1, <4>2 DEF CallInv, Stack
    <3> QED
      BY <2>1, <2>3, <3>1, <3>2 DEF Stack
  <2> QED
    BY <1>2, <2>1, <2>3, <2>5, <2>6, <2>7 DEF CallInv
<1> QED
  BY <1>1, <1>2

\* A call that blocks, or blocks again, with nothing below it.
LEMMA BlockKeeps ==
  ASSUME CallInv, below = <<>>, UNCHANGED below, cb' = "none", ret' \in Result,
         api' \in Blocking, wait' \in Waits, slot' \in 0..NumHandlers, count' \in 0..NumHandlers,
         topic' \in Topics \cup {NoTopic}, nested' \in BOOLEAN,
         <<api', wait'>> \in Calls, FoundBy(api', wait', state'), state' # "WAIT_FOR_CB",
         InTime(api', wait', interval')
  PROVE  CallInv'
<1>1. CallerTypeOK'
  BY DEF CallInv, CallerTypeOK
<1> QED
  BY <1>1 DEF CallInv, CallMatches, InCallback, Underneath, Stack

\* A call that blocks, of the application or of a callback.
LEMMA CallKeeps ==
  ASSUME CallInv, NEW fn \in Nestable, NEW what \in Waits, NEW i \in 0..NumHandlers, NEW t \in Topics,
         CallAndBlock(fn, what, i, t), <<fn, what>> \in Calls, FoundBy(fn, what, state'), state' # "WAIT_FOR_CB",
         UNCHANGED interval, nested' \in BOOLEAN
  PROVE  CallInv'
<1>1. /\ api' = fn /\ wait' = what /\ slot' = i /\ topic' = t /\ cb' = "none" /\ count' = 0
      /\ ret' = NoReturn
      /\ \/ api = "none" /\ below' = below
         \/ InCallback /\ Len(below) < MaxNested /\ below' = <<InProgress>> \o below
  BY CallIs
<1>2. NoReturn \in Result /\ fn \in Blocking /\ 0 \in 0..NumHandlers
  BY ClientAssumption DEF NoReturn, Result, Nestable, Blocking
<1>3. CASE api = "none" /\ below' = below
  <2>1. below = <<>>
    BY <1>3, NothingBelow DEF Nestable
  <2> QED
    BY <1>1, <1>2, <1>3, <2>1, BlockKeeps DEF InTime, Nestable
<1>4. CASE InCallback /\ Len(below) < MaxNested /\ below' = <<InProgress>> \o below
  <2>1. /\ wait \in Reads /\ <<api, wait>> \in Calls /\ FoundBy(api, wait, cb)
    BY <1>4 DEF CallInv, CallMatches, Underneath
  <2>2. api \in Blocking /\ wait \in Waits /\ cb \in Connected
    BY <1>4, <2>1 DEF CallInv, CallerTypeOK, InCallback, Calls, Blocking, Reads, Waits
  <2>3. InProgress \in Frame
    BY <2>2 DEF InProgress, Frame, CallInv, CallerTypeOK
  <2>4. FrameMatches(InProgress) /\ InTime(InProgress.api, InProgress.wait, interval) /\ InProgress.api = api
    BY <2>1 DEF FrameMatches, InProgress, CallInv
  <2>5. /\ below' \in Seq(Frame)
        /\ Len(below') = Len(below) + 1 /\ Len(below) \in Nat
        /\ \A n \in DOMAIN below' :
              \/ n = 1 /\ below'[n] = InProgress
              \/ n \in 2..(Len(below) + 1) /\ n - 1 \in DOMAIN below /\ below'[n] = below[n - 1]
    BY <1>4, <2>3, Pushed DEF CallInv, CallerTypeOK
  <2>6. CallerTypeOK'
    <3>1. Len(below') <= MaxNested
      BY <1>4, <2>5, ClientAssumption
    <3> QED
      BY <1>1, <1>2, <2>5, <3>1 DEF CallerTypeOK
  <2>7. ASSUME NEW n \in DOMAIN below'
        PROVE  /\ FrameMatches(below'[n]) /\ InTime(below'[n].api, below'[n].wait, interval')
               /\ n < Len(below') => below'[n].api \in Nestable
    <3>1. CASE n = 1 /\ below'[n] = InProgress
      <4>1. 1 < Len(below') => below # <<>>
        BY <2>5
      <4> QED
        BY <2>4, <3>1, <4>1 DEF CallInv, Stack
    <3>2. CASE n \in 2..(Len(below) + 1) /\ n - 1 \in DOMAIN below /\ below'[n] = below[n - 1]
      <4>1. n < Len(below') => n - 1 < Len(below)
        BY <2>5, <3>2
      <4> QED
        BY <3>2, <4>1 DEF CallInv, Stack
    <3> QED
      BY <2>5, <3>1, <3>2
  <2>8. Stack'
    BY <1>1, <2>7 DEF Stack
  <2>9. CallMatches'
    BY <1>1 DEF CallMatches, InCallback, Underneath
  <2> QED
    BY <1>1, <2>6, <2>8, <2>9 DEF CallInv, InTime, Nestable
<1> QED
  BY <1>1, <1>3, <1>4

\* A step that leaves the call in progress alone.
LEMMA CallUnchanged ==
  ASSUME CallInv, UNCHANGED <<call, state, interval>>, ret' \in Result
  PROVE  CallInv'
<1>1. UNCHANGED <<api, wait, slot, count, topic, cb, below, nested, state, interval>>
  BY DEF call
<1>2. CallerTypeOK'
  BY <1>1 DEF CallInv, CallerTypeOK
<1>3. CallMatches' /\ Stack'
  BY <1>1 DEF CallInv, CallMatches, Stack, InCallback, Underneath
<1> QED
  BY <1>1, <1>2, <1>3 DEF CallInv

\* A message is read, or its callbacks are over: only the saved state and the
\* client's are exchanged.
LEMMA CallbackKeeps ==
  ASSUME CallInv, state \in ClientState, UNCHANGED <<api, wait, slot, count, topic, below, nested, ret, interval>>,
         \/ cb = "none" /\ wait \in Reads /\ cb' = state /\ state' = "WAIT_FOR_CB"
         \/ InCallback /\ state' = cb /\ cb' = "none"
  PROVE  CallInv'
<1>1. Underneath' = Underneath /\ (InCallback' <=> state' = "WAIT_FOR_CB") /\ (InCallback' => wait' \in Reads)
  BY DEF CallInv, CallMatches, Underneath, InCallback, FoundBy, Reads, CallerTypeOK
<1>2. cb' \in Connected \cup {"none"}
  BY DEF CallInv, CallMatches, Underneath, InCallback, FoundBy, Reads, CallerTypeOK, Connected, ClientState
<1>3. CallerTypeOK'
  BY <1>2 DEF CallInv, CallerTypeOK
<1>4. CallMatches' /\ Stack'
  BY <1>1 DEF CallInv, CallMatches, Stack
<1> QED
  BY <1>3, <1>4 DEF CallInv

\* Every step leaves the calls where they expect the client.
LEMMA CallStep == IInv /\ [MqttNext]_mqttVars => CallInv'
<1> SUFFICES ASSUME IInv, [MqttNext]_mqttVars PROVE CallInv'
  OBVIOUS
<1>a. /\ CallInv /\ CallMatches /\ ret \in Result /\ <<api, wait>> \in Calls /\ FoundBy(api, wait, Underneath)
      /\ slot \in 0..NumHandlers /\ count \in 0..NumHandlers
      /\ InTime(api, wait, interval) /\ (InCallback <=> state = "WAIT_FOR_CB")
      /\ handlers \in [Slots -> Topics \cup {NoTopic}] /\ interval \in Int /\ MaxWait \in Int
      /\ state \in ClientState /\ nested \in BOOLEAN
  BY ClientAssumption DEF IInv, CallInv, CallMatches, CallerTypeOK, ClientTypeOK
<1>b. NoReturn \in Result /\ 0 \in 0..NumHandlers /\ NoTopic \in Topics \cup {NoTopic}
      /\ \A fn \in Function, rc \in Code : [fn |-> fn, rc |-> rc] \in Result
  BY ClientAssumption DEF NoReturn, Result
<1>c. /\ api \notin Nestable => below = <<>>
      /\ api = "none" => wait = "none" /\ ~InCallback
      /\ wait = "none" => api = "none"
  BY <1>a, NothingBelow DEF Calls, CallMatches, Reads
<1>d. \A fn \in Function, rc \in Code : Refuse(fn, rc) => CallInv'
  BY <1>a, <1>b, CallUnchanged DEF Refuse, client
<1>e. MayCall => (state # "WAIT_FOR_CB" <=> api = "none")
  BY <1>a, <1>c DEF MayCall
<1>1. CASE ConnectOk
  <2>1. api \in {"connect", "reconnect", "yield"} /\ below = <<>> /\ cb = "none"
    BY <1>1, <1>a, <1>c DEF ConnectOk, Calls, Nestable, InCallback, Reads, CallMatches
  <2>2. CASE Return("connect", "SUCCESS") /\ state' = "IDLE"
    BY <2>1, <2>2, <1>a, ReturnKeeps DEF Function, Code, Blocking
  <2>3. CASE StartResubscription(api) /\ state' = "RESUBSCRIBE" /\ api # "connect"
    BY <1>1, <1>a, <1>b, <2>1, <2>3, ResubscriptionIs, BlockKeeps
       DEF ConnectOk, Calls, FoundBy, Blocking, Waits, InTime
  <2> QED
    BY <1>1, <2>2, <2>3 DEF ConnectOk
<1>2. CASE ConnectFail
  <2>1. below = <<>>
    BY <1>2, <1>a, <1>c DEF ConnectFail, Calls, Nestable
  <2> QED
    BY <1>2, <2>1, <1>a, ReturnKeeps DEF ConnectFail, BackOff, Function, Code, Blocking, ValidForConnect
<1>3. CASE ResubscribeNext
  <2>1. below = <<>> /\ cb = "none" /\ api \in {"resubscribe", "reconnect", "yield"} /\ wait = "resubscribe"
    BY <1>3, <1>a, <1>c DEF ResubscribeNext, Calls, Nestable, InCallback, Reads, CallMatches
  <2>2. state = "RESUBSCRIBE"
    BY <2>1, <1>a DEF FoundBy, Underneath, InCallback
  <2>3. PICK i \in Slots : Block(api, "SUBACK", i, handlers[i])
    BY <1>3 DEF ResubscribeNext
  <2>4. handlers[i] \in Topics \cup {NoTopic} /\ i \in 0..NumHandlers
    BY <1>a DEF Slots
  <2> QED
    BY <1>3, <1>a, <1>b, <2>1, <2>2, <2>3, <2>4, BlockKeeps
       DEF ResubscribeNext, Block, client, Calls, FoundBy, Blocking, Waits, InTime
<1>4. CASE ResubscribeDone
  <2>1. below = <<>> /\ cb = "none" /\ api \in {"resubscribe", "reconnect", "yield"} /\ wait = "resubscribe"
    BY <1>4, <1>a, <1>c DEF ResubscribeDone, Calls, Nestable, InCallback, Reads, CallMatches
  <2>2. CASE api = "yield"
    BY <1>4, <1>a, <1>b, <2>1, <2>2, BlockKeeps DEF ResubscribeDone, Block, Calls, FoundBy, Blocking, Waits, InTime
  <2> QED
    BY <1>4, <1>a, <2>1, <2>2, ReturnKeeps DEF ResubscribeDone, Function, Code, Blocking
<1>5. CASE AckLost
  <2>1. CASE api \in Nestable
    BY <1>5, <1>a, <2>1, ReturnKeeps DEF AckLost, Function, Code, Blocking, Nestable, Saved
  <2>2. CASE api \notin Nestable
    <3>1. below = <<>> /\ cb = "none" /\ wait = "SUBACK"
      BY <1>5, <1>a, <1>c, <2>2 DEF AckLost, Calls, Nestable
    <3>2. state = "RESUBSCRIBE"
      BY <1>a, <2>2, <3>1 DEF FoundBy, Underneath, InCallback, Nestable
    <3> QED
      BY <1>5, <1>a, <2>2, <3>1, <3>2, ReturnKeeps DEF AckLost, BackOff, Function, Code, Blocking, Nestable
  <2> QED
    BY <2>1, <2>2
<1>6. CASE YieldReturn
  BY <1>6, <1>a, <1>c, ReturnKeeps DEF YieldReturn, Calls, Nestable, Function, Code, Blocking
<1>7. CASE SendPing  BY <1>7, <1>a, CallUnchanged DEF SendPing, caller
<1>8. CASE HandleDisconnect
  BY <1>8, <1>a, <1>c, ReturnKeeps DEF HandleDisconnect, Calls, Nestable, Function, Code, Blocking, ValidForConnect
<1>9. CASE ReadSuback
  <2>1. CASE api = "subscribe"
    BY <1>9, <1>a, <2>1, ReturnKeeps, CallUnchanged
       DEF ReadSuback, Reading, Function, Code, Blocking, Saved, caller
  <2>2. CASE api # "subscribe" /\ wait = "SUBACK"
    <3>1. below = <<>> /\ cb = "none"
      BY <1>9, <1>a, <1>c, <2>2 DEF ReadSuback, Reading, Calls, Nestable
    <3>2. state = "RESUBSCRIBE" /\ api \in {"resubscribe", "reconnect", "yield"}
      BY <1>a, <2>2, <3>1 DEF FoundBy, Underneath, InCallback, Calls
    <3> QED
      BY <1>9, <1>a, <1>b, <2>2, <3>1, <3>2, BlockKeeps
         DEF ReadSuback, Block, Calls, FoundBy, Blocking, Waits, InTime
  <2>3. CASE wait # "SUBACK"
    BY <1>9, <1>a, <2>3, CallUnchanged DEF ReadSuback, caller
  <2> QED
    BY <2>1, <2>2, <2>3
<1>10. CASE ReadUnsuback
  BY <1>10, <1>a, ReturnKeeps, CallUnchanged DEF ReadUnsuback, Function, Code, Blocking, Saved, caller
<1>11. CASE ReadPingresp  BY <1>11, <1>a, CallUnchanged DEF ReadPingresp, caller
<1>12. CASE ReadPublish  BY <1>12, <1>a, CallbackKeeps DEF ReadPublish, Reading, Reads
<1>13. CASE CallbackReturn  BY <1>13, <1>a, CallbackKeeps DEF CallbackReturn
<1>14. CASE Connect
  <2>1. CASE state \in ValidForConnect
    <3>1. api = "none" /\ below = <<>>
      BY <1>14, <2>1, <1>c, <1>e DEF Connect, ValidForConnect, Nestable
    <3> QED
      BY <1>14, <2>1, <3>1, <1>a, <1>b, <1>c, BlockKeeps
         DEF Connect, Block, Calls, FoundBy, Blocking, Waits, InTime, InCallback
  <2> QED
    BY <1>14, <2>1, <1>d DEF Connect, Function, Code, Blocking
<1>15. CASE Disconnect
  BY <1>15, <1>a, <1>c, <1>d, ReturnKeeps DEF Disconnect, Nestable, Function, Code, ValidForConnect
<1>16. CASE AttemptReconnect
  <2>1. CASE state = "RESUBSCRIBE" /\ StartResubscription("reconnect") /\ UNCHANGED client
    <3>1. api = "none" /\ below = <<>>
      BY <1>16, <2>1, <1>c, <1>e DEF AttemptReconnect, Nestable
    <3> QED
      BY <2>1, <3>1, <1>a, <1>b, ResubscriptionIs, BlockKeeps
         DEF client, Calls, FoundBy, Blocking, Waits, InTime
  <2>2. CASE state \in ValidForConnect
    <3>1. api = "none" /\ below = <<>>
      BY <1>16, <2>2, <1>c, <1>e DEF AttemptReconnect, ValidForConnect, Nestable
    <3> QED
      BY <1>16, <2>2, <3>1, <1>a, <1>b, <1>c, BlockKeeps
         DEF AttemptReconnect, Block, Calls, FoundBy, Blocking, Waits, InTime, InCallback, ValidForConnect, Connected
  <2> QED
    BY <1>16, <2>1, <2>2, <1>d DEF AttemptReconnect, Function, Code, Blocking, Connected
<1>17. CASE Resubscribe
  <2>1. CASE state \in {"IDLE", "RESUBSCRIBE"}
    <3>1. api = "none" /\ below = <<>>
      BY <1>17, <2>1, <1>c, <1>e DEF Resubscribe, Nestable
    <3> QED
      BY <1>17, <2>1, <3>1, <1>a, <1>b, ResubscriptionIs, BlockKeeps
         DEF Resubscribe, Calls, FoundBy, Blocking, Waits, InTime, Connected
  <2> QED
    BY <1>17, <2>1, <1>d DEF Resubscribe, Function, Code, Blocking
<1>18. CASE Publish
  BY <1>18, <1>a, <1>b, CallUnchanged DEF Publish, Function, Code, client
<1>19. CASE Yield
  <2>1. CASE \E rc \in Code : Refuse("yield", rc)
    BY <2>1, <1>d DEF Function, Blocking
  <2>2. CASE api = "none" /\ ~(\E rc \in Code : Refuse("yield", rc))
    <3>1. below = <<>> /\ cb = "none"
      BY <2>2, <1>c DEF Nestable, InCallback
    <3>2. CASE state = "RESUBSCRIBE" /\ ~Exhausted /\ StartResubscription("yield") /\ UNCHANGED client
      BY <3>1, <3>2, <1>a, <1>b, ResubscriptionIs, BlockKeeps
         DEF client, Calls, FoundBy, Blocking, Waits, InTime, Exhausted
    <3>3. CASE ~Exhausted /\ state' = "CONNECTING" /\ Block("yield", "CONNACK", 0, NoTopic) /\ UNCHANGED interval
      BY <3>1, <3>3, <1>a, <1>b, BlockKeeps DEF Block, Calls, FoundBy, Blocking, Waits, InTime, Exhausted
    <3>4. CASE state' = "YIELD" /\ Block("yield", "packet", 0, NoTopic) /\ UNCHANGED interval
      BY <3>1, <3>4, <1>a, <1>b, BlockKeeps DEF Block, Calls, FoundBy, Blocking, Waits, InTime
    <3> QED
      BY <1>19, <2>2, <3>2, <3>3, <3>4 DEF Yield, Code
  <2>3. CASE state = "WAIT_FOR_CB"
    BY <1>19, <2>3, <1>d DEF Yield, Function, Code, Blocking, Connected
  <2> QED
    BY <1>19, <1>e, <2>1, <2>2, <2>3 DEF Yield
<1>20. ASSUME NEW t \in Topics, Subscribe(t) PROVE CallInv'
  <2>1. CASE (\E i \in Slots : CallAndBlock("subscribe", "SUBACK", i, t)) /\ nested' \in BOOLEAN
    BY <1>20, <2>1, <1>a, <1>d, CallKeeps
       DEF Subscribe, Slots, Nestable, Waits, Calls, FoundBy, Function, Code, Blocking
  <2>2. nested' = ("subscribe" \in Pending) => nested' \in BOOLEAN
    OBVIOUS
  <2> QED
    BY <1>20, <2>1, <2>2, <1>d DEF Subscribe, Function, Code, Blocking
<1>21. ASSUME NEW t \in Topics, Unsubscribe(t) PROVE CallInv'
  <2>1. CASE CallAndBlock("unsubscribe", "UNSUBACK", 0, t)
    BY <1>21, <2>1, <1>a, <1>b, <1>d, CallKeeps
       DEF Unsubscribe, Nestable, Waits, Calls, FoundBy, Function, Code, Blocking
  <2> QED
    BY <1>21, <2>1, <1>d DEF Unsubscribe, Function, Code, Blocking
<1>22. CASE BrokerReads  BY <1>22, <1>a, CallUnchanged DEF BrokerReads, caller, client
<1>23. CASE Break  BY <1>23, <1>a, CallUnchanged DEF Break, caller, client
<1>24. ASSUME NEW t \in Topics, BrokerPublishes(t) PROVE CallInv'
  BY <1>24, <1>a, CallUnchanged DEF BrokerPublishes, caller, client
<1>25. CASE UNCHANGED mqttVars  BY <1>25, <1>a, CallUnchanged DEF mqttVars, caller, client
<1>26. QED
  BY <1>1, <1>2, <1>3, <1>4, <1>5, <1>6, <1>7, <1>8, <1>9, <1>10, <1>11, <1>12, <1>13, <1>14,
     <1>15, <1>16, <1>17, <1>18, <1>19, <1>20, <1>21, <1>22, <1>23, <1>24, <1>25 DEF MqttNext,
     ClientStep, ApiCall, NetworkStep

\* A packet sent, or not, leaves the network typed.
LEMMA SendTyped ==
  ASSUME NetworkTypeOK, NEW p \in Request, Send(p), UNCHANGED <<link, inbox, broker, faults>>
  PROVE  NetworkTypeOK'
BY DEF Send, NetworkTypeOK

\* So does a session lost, whether or not its loss is a fault of its own.
LEMMA DestroyTyped ==
  ASSUME NetworkTypeOK, DestroyLink, UNCHANGED faults \/ Fault
  PROVE  NetworkTypeOK'
BY ClientAssumption DEF DestroyLink, Fault, NetworkTypeOK

\* A packet read.
LEMMA ReadingTyped ==
  ASSUME NetworkTypeOK, NEW ty, Reading(ty)
  PROVE  NetworkTypeOK'
BY DEF Reading, NetworkTypeOK

\* And a step that leaves the network alone.
LEMMA NetworkUnchanged ==
  ASSUME NetworkTypeOK, UNCHANGED network
  PROVE  NetworkTypeOK'
BY DEF network, NetworkTypeOK

\* The network's variables keep their types.
LEMMA NetworkTypeStep == IInv /\ [MqttNext]_mqttVars => NetworkTypeOK'
<1> SUFFICES ASSUME IInv, [MqttNext]_mqttVars PROVE NetworkTypeOK'
  OBVIOUS
<1> USE ClientAssumption, SendTyped, DestroyTyped, ReadingTyped, NetworkUnchanged
       DEF IInv, Refuse
<1>1. CASE ConnectOk  BY <1>1 DEF ConnectOk, FreshSession, NetworkTypeOK
<1>2. CASE ConnectFail  BY <1>2 DEF ConnectFail
<1>3. CASE ResubscribeNext
  BY <1>3 DEF ResubscribeNext, IsNextToResubscribe, ToResubscribe, Pkt, Request, ClientTypeOK, Slots
<1>4. CASE ResubscribeDone  BY <1>4 DEF ResubscribeDone
<1>5. CASE AckLost  BY <1>5 DEF AckLost, Fault, NothingComes, NetworkTypeOK
<1>6. CASE YieldReturn  BY <1>6 DEF YieldReturn
<1>7. CASE SendPing  BY <1>7 DEF SendPing, Pkt, Request
<1>8. CASE HandleDisconnect  BY <1>8 DEF HandleDisconnect
<1>9. CASE ReadSuback  BY <1>9 DEF ReadSuback
<1>10. CASE ReadUnsuback  BY <1>10 DEF ReadUnsuback
<1>11. CASE ReadPingresp  BY <1>11 DEF ReadPingresp
<1>12. CASE ReadPublish  BY <1>12 DEF ReadPublish
<1>13. CASE CallbackReturn  BY <1>13 DEF CallbackReturn
<1>14. CASE Connect  BY <1>14 DEF Connect
<1>15. CASE Disconnect  BY <1>15 DEF Disconnect
<1>16. CASE AttemptReconnect  BY <1>16 DEF AttemptReconnect
<1>17. CASE Resubscribe  BY <1>17 DEF Resubscribe
<1>18. CASE Publish  BY <1>18 DEF Publish
<1>19. CASE Yield  BY <1>19 DEF Yield, Exhausted
<1>20. ASSUME NEW t \in Topics, Subscribe(t) PROVE NetworkTypeOK'
  BY <1>20 DEF Subscribe, Pkt, Request
<1>21. ASSUME NEW t \in Topics, Unsubscribe(t) PROVE NetworkTypeOK'
  BY <1>21 DEF Unsubscribe, Pkt, Request
<1>22. CASE BrokerReads
  <2> DEFINE p == Head(outbox)
  <2>1. p \in Request /\ outbox' \in Seq(Request)
    BY <1>22 DEF BrokerReads, NetworkTypeOK
  <2>2. Pkt(Answer[p.type], p.topic) \in Response
    BY <2>1 DEF Request, Response, Answer, Pkt
  <2>3. inbox' \in Seq(Response)
    BY <1>22, <2>2 DEF BrokerReads, NetworkTypeOK
  <2>4. broker' \subseteq Topics
    BY <1>22, <2>1 DEF BrokerReads, NetworkTypeOK, Request
  <2> QED
    BY <1>22, <2>1, <2>3, <2>4 DEF BrokerReads, NetworkTypeOK
<1>23. CASE Break
  <2>1. CASE inbox' = inbox
    BY <1>23, <2>1 DEF Break, NetworkTypeOK
  <2>2. CASE inbox' = <<>>
    BY <1>23, <2>2 DEF Break, NetworkTypeOK
  <2> QED
    BY <1>23, <2>1, <2>2 DEF Break
<1>24. ASSUME NEW t \in Topics, BrokerPublishes(t) PROVE NetworkTypeOK'
  BY <1>24 DEF BrokerPublishes, Pkt, Response, NetworkTypeOK
<1>25. CASE UNCHANGED mqttVars  BY <1>25 DEF mqttVars, NetworkTypeOK
<1>26. QED
  BY <1>1, <1>2, <1>3, <1>4, <1>5, <1>6, <1>7, <1>8, <1>9, <1>10, <1>11, <1>12, <1>13, <1>14,
     <1>15, <1>16, <1>17, <1>18, <1>19, <1>20, <1>21, <1>22, <1>23, <1>24, <1>25 DEF MqttNext,
     ClientStep, ApiCall, NetworkStep

\* The client's variables keep their types.
LEMMA ClientTypeStep == IInv /\ [MqttNext]_mqttVars => ClientTypeOK'
<1> SUFFICES ASSUME IInv, [MqttNext]_mqttVars PROVE ClientTypeOK'
  OBVIOUS
<1> USE ClientAssumption
       DEF IInv, ClientTypeOK, ClientState, Connected, ValidForConnect, Refuse, client, CallInv, CallerTypeOK
<1>1. CASE ConnectOk  BY <1>1 DEF ConnectOk, FreshSession
<1>2. CASE ConnectFail  BY <1>2 DEF ConnectFail, BackOff, InTime
<1>3. CASE ResubscribeNext  BY <1>3 DEF ResubscribeNext
<1>4. CASE ResubscribeDone  BY <1>4 DEF ResubscribeDone
<1>5. CASE AckLost  BY <1>5 DEF AckLost, BackOff, InTime, CallMatches, Calls, Saved
<1>6. CASE YieldReturn  BY <1>6 DEF YieldReturn
<1>7. CASE SendPing  BY <1>7 DEF SendPing
<1>8. CASE HandleDisconnect  BY <1>8 DEF HandleDisconnect, Slots
<1>9. CASE ReadSuback  BY <1>9 DEF ReadSuback, Reading, Saved
<1>10. CASE ReadUnsuback  BY <1>10 DEF ReadUnsuback, Reading, Saved
<1>11. CASE ReadPingresp  BY <1>11 DEF ReadPingresp, Reading
<1>12. CASE ReadPublish  BY <1>12 DEF ReadPublish, Reading
<1>13. CASE CallbackReturn  BY <1>13 DEF CallbackReturn, InCallback
<1>14. CASE Connect  BY <1>14 DEF Connect
<1>15. CASE Disconnect  BY <1>15 DEF Disconnect
<1>16. CASE AttemptReconnect  BY <1>16 DEF AttemptReconnect
<1>17. CASE Resubscribe  BY <1>17 DEF Resubscribe
<1>18. CASE Publish  BY <1>18 DEF Publish
<1>19. CASE Yield  BY <1>19 DEF Yield, Exhausted
<1>20. ASSUME NEW t \in Topics, Subscribe(t) PROVE ClientTypeOK'  BY <1>20 DEF Subscribe
<1>21. ASSUME NEW t \in Topics, Unsubscribe(t) PROVE ClientTypeOK'  BY <1>21 DEF Unsubscribe
<1>22. CASE BrokerReads  BY <1>22 DEF BrokerReads
<1>23. CASE Break  BY <1>23 DEF Break
<1>24. ASSUME NEW t \in Topics, BrokerPublishes(t) PROVE ClientTypeOK'  BY <1>24 DEF BrokerPublishes
<1>25. CASE UNCHANGED mqttVars  BY <1>25 DEF mqttVars
<1>26. QED
  BY <1>1, <1>2, <1>3, <1>4, <1>5, <1>6, <1>7, <1>8, <1>9, <1>10, <1>11, <1>12, <1>13, <1>14,
     <1>15, <1>16, <1>17, <1>18, <1>19, <1>20, <1>21, <1>22, <1>23, <1>24, <1>25 DEF MqttNext,
     ClientStep, ApiCall, NetworkStep

\* A session exists exactly while the client counts as connected.
LEMMA SessionStep == IInv /\ [MqttNext]_mqttVars => ConnectedMeansSession'
<1> SUFFICES ASSUME IInv, [MqttNext]_mqttVars PROVE ConnectedMeansSession'
  OBVIOUS
<1> USE DEF IInv, CallInv, CallerTypeOK, CallMatches, FoundBy, Underneath, InCallback, Connected, ValidForConnect,
           ConnectedMeansSession, Refuse, MaySubscribe, client, network
<1>1. CASE ConnectOk  BY <1>1 DEF ConnectOk, FreshSession
<1>2. CASE ConnectFail  BY <1>2 DEF ConnectFail, DestroyLink
<1>3. CASE ResubscribeNext  BY <1>3 DEF ResubscribeNext
<1>4. CASE ResubscribeDone  BY <1>4 DEF ResubscribeDone
<1>5. CASE AckLost  BY <1>5 DEF AckLost, Saved, Calls
<1>6. CASE YieldReturn  BY <1>6 DEF YieldReturn
<1>7. CASE SendPing  BY <1>7 DEF SendPing
<1>8. CASE HandleDisconnect  BY <1>8 DEF HandleDisconnect, DestroyLink
<1>9. CASE ReadSuback  BY <1>9 DEF ReadSuback, Reading, Saved
<1>10. CASE ReadUnsuback  BY <1>10 DEF ReadUnsuback, Reading, Saved
<1>11. CASE ReadPingresp  BY <1>11 DEF ReadPingresp, Reading
<1>12. CASE ReadPublish  BY <1>12 DEF ReadPublish, Reading
<1>13. CASE CallbackReturn  BY <1>13 DEF CallbackReturn
<1>14. CASE Connect  BY <1>14 DEF Connect
<1>15. CASE Disconnect  BY <1>15 DEF Disconnect, DestroyLink
<1>16. CASE AttemptReconnect  BY <1>16 DEF AttemptReconnect
<1>17. CASE Resubscribe  BY <1>17 DEF Resubscribe
<1>18. CASE Publish  BY <1>18 DEF Publish
<1>19. CASE Yield  BY <1>19 DEF Yield, Exhausted
<1>20. ASSUME NEW t \in Topics, Subscribe(t) PROVE ConnectedMeansSession'  BY <1>20 DEF Subscribe
<1>21. ASSUME NEW t \in Topics, Unsubscribe(t) PROVE ConnectedMeansSession'
  BY <1>21 DEF Unsubscribe
<1>22. CASE BrokerReads  BY <1>22 DEF BrokerReads
<1>23. CASE Break  BY <1>23 DEF Break
<1>24. ASSUME NEW t \in Topics, BrokerPublishes(t) PROVE ConnectedMeansSession'
  BY <1>24 DEF BrokerPublishes
<1>25. CASE UNCHANGED mqttVars  BY <1>25 DEF mqttVars
<1>26. QED
  BY <1>1, <1>2, <1>3, <1>4, <1>5, <1>6, <1>7, <1>8, <1>9, <1>10, <1>11, <1>12, <1>13, <1>14,
     <1>15, <1>16, <1>17, <1>18, <1>19, <1>20, <1>21, <1>22, <1>23, <1>24, <1>25 DEF MqttNext,
     ClientStep, ApiCall, NetworkStep

\* Handlers are left alone or freed, and no other call comes to the fore.
LEMMA SlotsUntouched ==
  ASSUME SlotStaysFree, UNCHANGED <<api, slot, below, nested>>,
         \A i \in Slots : handlers'[i] \in {handlers[i], NoTopic}
  PROVE  SlotStaysFree'
BY DEF SlotStaysFree

\* A call that is not a subscription comes to the fore, with nothing below it.
LEMMA SlotsOfOther ==
  ASSUME api' # "subscribe", below' = <<>>
  PROVE  SlotStaysFree'
BY DEF SlotStaysFree

\* A call returns: what it did to the handlers leaves the slots of the calls
\* below it free.
LEMMA SlotsAfterReturn ==
  ASSUME CallInv, SlotStaysFree, NEW fn, NEW rc, Return(fn, rc),
         ~nested => \A n \in DOMAIN below : below[n].api = "subscribe" => handlers'[below[n].slot] = NoTopic
  PROVE  SlotStaysFree'
<1>1. CASE below = <<>>
  BY <1>1, ReturnIs DEF SlotStaysFree
<1>2. CASE below # <<>>
  <2>1. /\ 1 \in DOMAIN below /\ api' = below[1].api /\ slot' = below[1].slot /\ nested' = nested
        /\ \A n \in DOMAIN below' : n \in 1..(Len(below) - 1) /\ n + 1 \in DOMAIN below /\ below'[n] = below[n + 1]
    BY <1>2, ReturnIs, Popped DEF CallInv, CallerTypeOK
  <2>2. \A n \in DOMAIN below' : n \in Int /\ n >= 1
    BY <2>1
  <2>3. \A n, m \in DOMAIN below' : n + 1 = m + 1 => n = m
    BY <2>2
  <2>4. \A n \in DOMAIN below' : n + 1 # 1
    BY <2>2
  <2> QED
    BY <2>1, <2>3, <2>4 DEF SlotStaysFree
<1> QED
  BY <1>1, <1>2

\* A call blocks: its own slot is free, and a subscription below it is the
\* only one.
LEMMA SlotsAfterCall ==
  ASSUME CallInv, SlotStaysFree, UNCHANGED handlers,
         NEW fn, NEW what, NEW i, NEW t, CallAndBlock(fn, what, i, t),
         fn = "subscribe" => i \in Slots /\ handlers[i] = NoTopic /\ (nested' <=> "subscribe" \in Pending),
         fn # "subscribe" => UNCHANGED nested
  PROVE  SlotStaysFree'
<1>1. api' = fn /\ slot' = i
  BY CallIs
<1>2. "subscribe" \in Pending <=> api = "subscribe" \/ \E n \in DOMAIN below : below[n].api = "subscribe"
  BY DEF Pending
<1>3. CASE api = "none" /\ below' = below
  BY <1>1, <1>2, <1>3, NothingBelow DEF SlotStaysFree, Nestable
<1>4. CASE InCallback /\ below' = <<InProgress>> \o below
  <2>1. InProgress \in Frame /\ InProgress.api = api /\ InProgress.slot = slot
    <3>1. api \in Blocking /\ wait \in Waits /\ cb \in Connected
      BY <1>4 DEF CallInv, CallMatches, CallerTypeOK, InCallback, Calls, Blocking, Reads, Waits
    <3> QED
      BY <3>1 DEF InProgress, Frame, CallInv, CallerTypeOK
  <2>2. \A n \in DOMAIN below' :
           \/ n = 1 /\ below'[n] = InProgress
           \/ n \in 2..(Len(below) + 1) /\ n - 1 \in DOMAIN below /\ below'[n] = below[n - 1]
    BY <1>4, <2>1, Pushed DEF CallInv, CallerTypeOK
  <2>3. \A n, m \in DOMAIN below' : n # 1 /\ m # 1 /\ n - 1 = m - 1 => n = m
    BY <2>2
  <2>4. \A n \in DOMAIN below' : below'[n].api = "subscribe" => below'[n].slot \in Slots
    BY <2>1, <2>2 DEF SlotStaysFree
  <2>5. ASSUME ~nested', NEW n \in DOMAIN below', below'[n].api = "subscribe"
        PROVE  /\ fn # "subscribe" /\ handlers'[below'[n].slot] = NoTopic
               /\ \A m \in DOMAIN below' : below'[m].api = "subscribe" => m = n
    <3>1. "subscribe" \in Pending
      BY <1>2, <2>1, <2>2, <2>5
    <3>2. fn # "subscribe" /\ ~nested
      BY <2>5, <3>1
    <3>3. CASE n = 1 /\ below'[n] = InProgress
      BY <2>1, <2>2, <2>5, <3>2, <3>3 DEF SlotStaysFree
    <3>4. CASE n # 1 /\ n - 1 \in DOMAIN below /\ below'[n] = below[n - 1]
      BY <2>1, <2>2, <2>3, <2>5, <3>2, <3>4 DEF SlotStaysFree
    <3> QED
      BY <2>2, <3>3, <3>4
  <2> QED
    BY <1>1, <2>4, <2>5 DEF SlotStaysFree
<1> QED
  BY <1>3, <1>4 DEF CallAndBlock

\* The slots of the pending subscriptions are not taken meanwhile.
LEMMA SlotStep == IInv /\ [MqttNext]_mqttVars => SlotStaysFree'
<1> SUFFICES ASSUME IInv, [MqttNext]_mqttVars PROVE SlotStaysFree'
  OBVIOUS
<1>a. /\ CallInv /\ SlotStaysFree /\ <<api, wait>> \in Calls
      /\ handlers \in [Slots -> Topics \cup {NoTopic}]
      /\ InCallback => wait \in Reads
      /\ InCallback <=> state = "WAIT_FOR_CB"
  BY DEF IInv, CallInv, CallMatches, ClientTypeOK
<1>b. /\ api \notin Nestable => below = <<>>
      /\ api = "none" => ~InCallback
      /\ MayCall => (state # "WAIT_FOR_CB" <=> api = "none")
  BY <1>a, NothingBelow DEF Calls, Reads, MayCall
<1>c. UNCHANGED <<handlers, api, slot, below, nested>> => SlotStaysFree'
  BY <1>a, SlotsUntouched
<1>d. \A fn, rc : Refuse(fn, rc) => SlotStaysFree'
  BY <1>c DEF Refuse, client, call
<1>e. \A fn, rc : Return(fn, rc) /\ UNCHANGED handlers => SlotStaysFree'
  BY <1>a, SlotsAfterReturn DEF SlotStaysFree
<1>f. \A fn, what, i, t : Block(fn, what, i, t) /\ fn # "subscribe" /\ below = <<>> => SlotStaysFree'
  BY SlotsOfOther DEF Block
<1>g. \A fn : StartResubscription(fn) /\ fn # "subscribe" /\ below = <<>> => SlotStaysFree'
  BY SlotsOfOther, ResubscriptionIs
<1>1. CASE ConnectOk  BY <1>1, <1>a, <1>b, <1>e, <1>g DEF ConnectOk, Nestable
<1>2. CASE ConnectFail  BY <1>2, <1>e DEF ConnectFail, BackOff
<1>3. CASE ResubscribeNext  BY <1>3, <1>a, <1>b, <1>f DEF ResubscribeNext, Calls, Nestable
<1>4. CASE ResubscribeDone  BY <1>4, <1>a, <1>b, <1>e, <1>f DEF ResubscribeDone, Calls, Nestable
<1>5. CASE AckLost  BY <1>5, <1>e DEF AckLost, BackOff
<1>6. CASE YieldReturn  BY <1>6, <1>e DEF YieldReturn
<1>7. CASE SendPing  BY <1>7, <1>c DEF SendPing, caller, call
<1>8. CASE HandleDisconnect  BY <1>8, <1>e DEF HandleDisconnect
<1>9. CASE ReadSuback
  <2>1. CASE api = "subscribe" /\ wait = "SUBACK"
    <3>1. ~nested => \A n \in DOMAIN below : below[n].api # "subscribe"
      BY <1>a, <2>1 DEF SlotStaysFree
    <3> QED
      BY <1>9, <1>a, <2>1, <3>1, SlotsAfterReturn DEF ReadSuback
  <2>2. CASE api # "subscribe" /\ wait = "SUBACK"
    BY <1>9, <1>a, <1>b, <1>f, <2>2 DEF ReadSuback, Calls, Nestable
  <2>3. CASE wait # "SUBACK"
    BY <1>9, <1>c, <2>3 DEF ReadSuback, caller, call
  <2> QED
    BY <2>1, <2>2, <2>3
<1>10. CASE ReadUnsuback
  <2>1. CASE wait = "UNSUBACK"
    <3>1. \A i \in Slots : handlers[i] = NoTopic => handlers'[i] = NoTopic
      BY <1>10, <2>1 DEF ReadUnsuback
    <3> QED
      BY <1>10, <1>a, <2>1, <3>1, SlotsAfterReturn DEF ReadUnsuback, SlotStaysFree
  <2> QED
    BY <1>10, <1>c, <2>1 DEF ReadUnsuback, caller, call
<1>11. CASE ReadPingresp  BY <1>11, <1>c DEF ReadPingresp, caller, call
<1>12. CASE ReadPublish  BY <1>12, <1>c DEF ReadPublish
<1>13. CASE CallbackReturn  BY <1>13, <1>c DEF CallbackReturn
<1>14. CASE Connect  BY <1>14, <1>b, <1>d, <1>f DEF Connect, ValidForConnect, Nestable
<1>15. CASE Disconnect  BY <1>15, <1>d, <1>e DEF Disconnect
<1>16. CASE AttemptReconnect
  BY <1>16, <1>b, <1>d, <1>f, <1>g DEF AttemptReconnect, ValidForConnect, Nestable
<1>17. CASE Resubscribe  BY <1>17, <1>b, <1>d, <1>g DEF Resubscribe, Nestable
<1>18. CASE Publish  BY <1>18, <1>c DEF Publish, client, call
<1>19. CASE Yield  BY <1>19, <1>b, <1>d, <1>f, <1>g DEF Yield, Nestable
<1>20. ASSUME NEW t \in Topics, Subscribe(t) PROVE SlotStaysFree'
  <2>1. CASE /\ \E i \in Slots : IsFirstFree(i) /\ CallAndBlock("subscribe", "SUBACK", i, t)
             /\ nested' <=> "subscribe" \in Pending
             /\ UNCHANGED handlers
    BY <1>20, <1>a, <2>1, SlotsAfterCall DEF Subscribe, IsFirstFree
  <2> QED
    BY <1>20, <1>d, <2>1 DEF Subscribe
<1>21. ASSUME NEW t \in Topics, Unsubscribe(t) PROVE SlotStaysFree'
  BY <1>21, <1>a, <1>d, SlotsAfterCall DEF Unsubscribe
<1>22. CASE BrokerReads  BY <1>22, <1>c DEF BrokerReads, caller, call, client
<1>23. CASE Break  BY <1>23, <1>c DEF Break, caller, call, client
<1>24. ASSUME NEW t \in Topics, BrokerPublishes(t) PROVE SlotStaysFree'
  BY <1>24, <1>c DEF BrokerPublishes, caller, call, client
<1>25. CASE UNCHANGED mqttVars  BY <1>25, <1>c DEF mqttVars, caller, call, client
<1>26. QED
  BY <1>1, <1>2, <1>3, <1>4, <1>5, <1>6, <1>7, <1>8, <1>9, <1>10, <1>11, <1>12, <1>13, <1>14,
     <1>15, <1>16, <1>17, <1>18, <1>19, <1>20, <1>21, <1>22, <1>23, <1>24, <1>25 DEF MqttNext,
     ClientStep, ApiCall, NetworkStep

-----------------------------------------------------------------------------
(* The keep-alive on the wire.                                             *)

IsPing(p) == p.type \in {"PINGREQ", "PINGRESP"}

\* No packet of a sequence is part of a keep-alive exchange; exactly one is.
NoPing(q) == \A n \in DOMAIN q : ~IsPing(q[n])
OnePing(q) == \E n \in DOMAIN q : IsPing(q[n]) /\ \A m \in DOMAIN q : IsPing(q[m]) => m = n

\* The places of the pings, when there is one or none.
LEMMA PingsAre ==
  ASSUME NEW q
  PROVE  /\ Pings(q) = {} <=> NoPing(q)
         /\ (\E n \in DOMAIN q : Pings(q) = {n}) <=> OnePing(q)
<1>1. \A n : n \in Pings(q) <=> n \in DOMAIN q /\ IsPing(q[n])
  BY DEF Pings, IsPing
<1>2. Pings(q) = {} <=> NoPing(q)
  BY <1>1 DEF NoPing
<1>3. ASSUME NEW n \in DOMAIN q, Pings(q) = {n} PROVE OnePing(q)
  BY <1>1, <1>3 DEF OnePing
<1>4. ASSUME NEW n \in DOMAIN q, IsPing(q[n]), \A m \in DOMAIN q : IsPing(q[m]) => m = n
      PROVE  Pings(q) = {n}
  BY <1>1, <1>4
<1>5. QED
  BY <1>2, <1>3, <1>4 DEF OnePing

\* One more packet on the wire.
LEMMA PingSent ==
  ASSUME NEW S, NEW q \in Seq(S), NEW p \in S
  PROVE  /\ IsPing(p) /\ NoPing(q) => OnePing(Append(q, p))
         /\ ~IsPing(p) /\ NoPing(q) => NoPing(Append(q, p))
         /\ ~IsPing(p) /\ OnePing(q) => OnePing(Append(q, p))
<1> DEFINE r == Append(q, p)
<1>1. /\ Len(q) \in Nat /\ DOMAIN q = 1..Len(q) /\ DOMAIN r = 1..(Len(q) + 1)
      /\ \A n \in DOMAIN q : n \in DOMAIN r /\ r[n] = q[n]
      /\ r[Len(q) + 1] = p /\ Len(q) + 1 \in DOMAIN r
      /\ \A n \in DOMAIN r : n \in DOMAIN q \/ n = Len(q) + 1
  OBVIOUS
<1> HIDE DEF r
<1>2. IsPing(p) /\ NoPing(q) => OnePing(r)
  BY <1>1 DEF NoPing, OnePing
<1>3. ~IsPing(p) /\ NoPing(q) => NoPing(r)
  BY <1>1 DEF NoPing
<1>4. ~IsPing(p) /\ OnePing(q) => OnePing(r)
  BY <1>1 DEF OnePing
<1>5. QED
  BY <1>2, <1>3, <1>4 DEF r

\* The first packet leaves the wire.
LEMMA PingRead ==
  ASSUME NEW S, NEW q \in Seq(S), q # <<>>
  PROVE  /\ IsPing(Head(q)) => ~NoPing(q) /\ (OnePing(q) => NoPing(Tail(q)))
         /\ ~IsPing(Head(q)) /\ OnePing(q) => OnePing(Tail(q))
         /\ NoPing(q) => NoPing(Tail(q))
<1> DEFINE r == Tail(q)
<1>1. /\ Len(q) \in Nat \ {0} /\ DOMAIN q = 1..Len(q) /\ DOMAIN r = 1..(Len(q) - 1)
      /\ \A n \in DOMAIN r : r[n] = q[n + 1]
      /\ Head(q) = q[1]
  OBVIOUS
<1>2. /\ 1 \in DOMAIN q
      /\ \A n \in DOMAIN r : n + 1 \in DOMAIN q /\ n + 1 # 1
      /\ \A n \in DOMAIN q : n # 1 => n - 1 \in DOMAIN r /\ (n - 1) + 1 = n
      /\ \A n, m \in DOMAIN r : n + 1 = m + 1 => n = m
  BY <1>1
<1> HIDE DEF r
<1>3. IsPing(Head(q)) => ~NoPing(q) /\ (OnePing(q) => NoPing(r))
  BY <1>1, <1>2 DEF NoPing, OnePing
<1>4. ASSUME ~IsPing(Head(q)), OnePing(q) PROVE OnePing(r)
  <2>1. PICK n \in DOMAIN q : IsPing(q[n]) /\ \A m \in DOMAIN q : IsPing(q[m]) => m = n
    BY <1>4 DEF OnePing
  <2>2. n # 1
    BY <1>1, <1>4, <2>1
  <2>3. n - 1 \in DOMAIN r /\ r[n - 1] = q[n]
    BY <1>1, <1>2, <2>2
  <2>4. \A m \in DOMAIN r : IsPing(r[m]) => m = n - 1
    BY <1>1, <1>2, <2>1
  <2>5. QED
    BY <2>1, <2>3, <2>4 DEF OnePing
<1>5. NoPing(q) => NoPing(r)
  BY <1>1, <1>2 DEF NoPing
<1>6. QED
  BY <1>3, <1>4, <1>5 DEF r

\* What the property says, in terms of the lemmas above.
LEMMA PingOnTheWireIs ==
  PingOnTheWire <=>
    (link = "up" => \/ ping /\ OnePing(outbox) /\ NoPing(inbox)
                    \/ ping /\ NoPing(outbox) /\ OnePing(inbox)
                    \/ ~ping /\ NoPing(outbox) /\ NoPing(inbox))
BY PingsAre DEF PingOnTheWire

\* The same of the state after a step.
LEMMA PingOnTheWireNext ==
  PingOnTheWire' <=>
    (link' = "up" => \/ ping' /\ OnePing(outbox') /\ NoPing(inbox')
                     \/ ping' /\ NoPing(outbox') /\ OnePing(inbox')
                     \/ ~ping' /\ NoPing(outbox') /\ NoPing(inbox'))
BY PingsAre DEF PingOnTheWire

\* A step that touches neither the ping, nor the packets, nor the session.
LEMMA PingUnchanged ==
  ASSUME PingOnTheWire, UNCHANGED <<link, outbox, inbox, ping>>
  PROVE  PingOnTheWire'
BY DEF PingOnTheWire, Pings

\* A step after which there is no session, or a new one.
LEMMA PingNewSession ==
  ASSUME link' # "up" \/ (outbox' = <<>> /\ inbox' = <<>> /\ ping' = FALSE)
  PROVE  PingOnTheWire'
BY DEF PingOnTheWire, Pings

\* A request that is not a ping is sent.
LEMMA PingOtherSent ==
  ASSUME PingOnTheWire, NetworkTypeOK, NEW p \in Request, ~IsPing(p), Send(p), UNCHANGED <<link, inbox, ping>>
  PROVE  PingOnTheWire'
<1>1. link = "up" => outbox' = Append(outbox, p)
  BY DEF Send
<1>2. /\ NoPing(outbox) => NoPing(Append(outbox, p))
      /\ OnePing(outbox) => OnePing(Append(outbox, p))
  BY PingSent DEF NetworkTypeOK
<1>3. NoPing(inbox) => NoPing(inbox')
  OBVIOUS
<1>4. QED
  BY <1>1, <1>2, PingOnTheWireIs, PingOnTheWireNext

\* A packet that is not an answer to a ping is read.
LEMMA PingOtherRead ==
  ASSUME PingOnTheWire, NetworkTypeOK, NEW ty \in {"SUBACK", "UNSUBACK", "PUBLISH"}, Reading(ty), UNCHANGED ping
  PROVE  PingOnTheWire'
<1>1. /\ inbox # <<>> /\ inbox' = Tail(inbox) /\ UNCHANGED <<link, outbox>>
      /\ ~IsPing(Head(inbox))
  BY DEF Reading, IsPing
<1>2. /\ OnePing(inbox) => OnePing(Tail(inbox))
      /\ NoPing(inbox) => NoPing(Tail(inbox))
  BY <1>1, PingRead DEF NetworkTypeOK
<1>3. QED
  BY <1>1, <1>2, PingOnTheWireIs, PingOnTheWireNext

\* While the session is up, one exchange is outstanding or none.
LEMMA PingStep == IInv /\ [MqttNext]_mqttVars => PingOnTheWire'
<1> SUFFICES ASSUME IInv, [MqttNext]_mqttVars PROVE PingOnTheWire'
  OBVIOUS
<1> USE PingUnchanged, PingNewSession, PingOtherSent, PingOtherRead DEF IInv, Refuse, client, network
<1>1. CASE ConnectOk  BY <1>1 DEF ConnectOk, FreshSession
<1>2. CASE ConnectFail  BY <1>2 DEF ConnectFail, DestroyLink
<1>3. CASE ResubscribeNext
  <2>1. PICK i \in Slots : handlers[i] \in Topics /\ Send(Pkt("SUBSCRIBE", handlers[i]))
    BY <1>3 DEF ResubscribeNext, IsNextToResubscribe, ToResubscribe, ClientTypeOK, Slots
  <2>2. Pkt("SUBSCRIBE", handlers[i]) \in Request /\ ~IsPing(Pkt("SUBSCRIBE", handlers[i]))
    BY <2>1 DEF Pkt, Request, IsPing
  <2> QED
    BY <1>3, <2>1, <2>2 DEF ResubscribeNext
<1>4. CASE ResubscribeDone  BY <1>4 DEF ResubscribeDone
<1>5. CASE AckLost  BY <1>5 DEF AckLost
<1>6. CASE YieldReturn  BY <1>6 DEF YieldReturn
<1>7. CASE SendPing
  <2> DEFINE p == Pkt("PINGREQ", NoTopic)
  <2>1. p \in Request /\ IsPing(p)
    BY DEF Pkt, Request, IsPing
  <2>2. ~ping /\ ping' = TRUE /\ UNCHANGED <<link, inbox>> /\ (link = "up" => outbox' = Append(outbox, p))
    BY <1>7 DEF SendPing, Send
  <2>3. NoPing(outbox) => OnePing(Append(outbox, p))
    BY <2>1, PingSent DEF NetworkTypeOK
  <2> QED
    BY <2>2, <2>3, PingOnTheWireIs, PingOnTheWireNext
<1>8. CASE HandleDisconnect  BY <1>8 DEF HandleDisconnect, DestroyLink
<1>9. CASE ReadSuback  BY <1>9 DEF ReadSuback
<1>10. CASE ReadUnsuback  BY <1>10 DEF ReadUnsuback
<1>11. CASE ReadPingresp
  <2>1. /\ inbox # <<>> /\ inbox' = Tail(inbox) /\ UNCHANGED <<link, outbox>> /\ ping' = FALSE
        /\ IsPing(Head(inbox))
    BY <1>11 DEF ReadPingresp, Reading, IsPing
  <2>2. ~NoPing(inbox) /\ (OnePing(inbox) => NoPing(Tail(inbox)))
    BY <2>1, PingRead DEF NetworkTypeOK
  <2> QED
    BY <2>1, <2>2, PingOnTheWireIs, PingOnTheWireNext
<1>12. CASE ReadPublish  BY <1>12 DEF ReadPublish
<1>13. CASE CallbackReturn  BY <1>13 DEF CallbackReturn
<1>14. CASE Connect  BY <1>14 DEF Connect
<1>15. CASE Disconnect  BY <1>15 DEF Disconnect, DestroyLink
<1>16. CASE AttemptReconnect  BY <1>16 DEF AttemptReconnect
<1>17. CASE Resubscribe  BY <1>17 DEF Resubscribe
<1>18. CASE Publish  BY <1>18 DEF Publish
<1>19. CASE Yield  BY <1>19 DEF Yield
<1>20. ASSUME NEW t \in Topics, Subscribe(t) PROVE PingOnTheWire'
  <2>1. Pkt("SUBSCRIBE", t) \in Request /\ ~IsPing(Pkt("SUBSCRIBE", t))
    BY DEF Pkt, Request, IsPing
  <2> QED
    BY <1>20, <2>1 DEF Subscribe
<1>21. ASSUME NEW t \in Topics, Unsubscribe(t) PROVE PingOnTheWire'
  <2>1. Pkt("UNSUBSCRIBE", t) \in Request /\ ~IsPing(Pkt("UNSUBSCRIBE", t))
    BY DEF Pkt, Request, IsPing
  <2> QED
    BY <1>21, <2>1 DEF Unsubscribe
<1>22. CASE BrokerReads
  <2> DEFINE p == Head(outbox)
             a == Pkt(Answer[p.type], p.topic)
  <2>1. outbox # <<>> /\ p \in Request /\ UNCHANGED <<link, ping>> /\ link = "up"
    BY <1>22 DEF BrokerReads, NetworkTypeOK
  <2>2. a \in Response /\ (IsPing(a) <=> IsPing(p))
    BY <2>1 DEF Request, Response, Answer, Pkt, IsPing
  <2>3. outbox' = Tail(outbox) /\ inbox' = Append(inbox, a)
    BY <1>22 DEF BrokerReads
  <2>4. /\ IsPing(p) => ~NoPing(outbox) /\ (OnePing(outbox) => NoPing(Tail(outbox)))
        /\ ~IsPing(p) /\ OnePing(outbox) => OnePing(Tail(outbox))
        /\ NoPing(outbox) => NoPing(Tail(outbox))
    BY <2>1, PingRead DEF NetworkTypeOK
  <2>5. /\ IsPing(a) /\ NoPing(inbox) => OnePing(Append(inbox, a))
        /\ ~IsPing(a) /\ NoPing(inbox) => NoPing(Append(inbox, a))
        /\ ~IsPing(a) /\ OnePing(inbox) => OnePing(Append(inbox, a))
    BY <2>2, PingSent DEF NetworkTypeOK
  <2> HIDE DEF p, a
  <2> QED
    BY <2>1, <2>2, <2>3, <2>4, <2>5, PingOnTheWireIs, PingOnTheWireNext
<1>23. CASE Break  BY <1>23 DEF Break
<1>24. ASSUME NEW t \in Topics, BrokerPublishes(t) PROVE PingOnTheWire'
  <2> DEFINE a == Pkt("PUBLISH", t)
  <2>1. a \in Response /\ ~IsPing(a)
    BY DEF Response, Pkt, IsPing
  <2>2. inbox' = Append(inbox, a) /\ UNCHANGED <<link, outbox, ping>>
    BY <1>24 DEF BrokerPublishes
  <2>3. /\ NoPing(inbox) => NoPing(Append(inbox, a))
        /\ OnePing(inbox) => OnePing(Append(inbox, a))
    BY <2>1, PingSent DEF NetworkTypeOK
  <2> HIDE DEF a
  <2> QED
    BY <2>2, <2>3, PingOnTheWireIs, PingOnTheWireNext
<1>25. CASE UNCHANGED mqttVars  BY <1>25 DEF mqttVars
<1>26. QED
  BY <1>1, <1>2, <1>3, <1>4, <1>5, <1>6, <1>7, <1>8, <1>9, <1>10, <1>11, <1>12, <1>13, <1>14,
     <1>15, <1>16, <1>17, <1>18, <1>19, <1>20, <1>21, <1>22, <1>23, <1>24, <1>25 DEF MqttNext,
     ClientStep, ApiCall, NetworkStep

-----------------------------------------------------------------------------

\* The client starts in a state of the inductive invariant.
LEMMA InvariantInit == MqttInit => IInv
<1> SUFFICES ASSUME MqttInit PROVE IInv
  OBVIOUS
<1> USE ClientAssumption DEF MqttInit
<1>1. ClientTypeOK
  <2>1. state \in ClientState
    BY DEF ClientState, ValidForConnect
  <2>2. interval \in 0..(2 * MaxWait)
    OBVIOUS
  <2> QED
    BY <2>1, <2>2 DEF ClientTypeOK
<1>2. CallerTypeOK
  <2>1. nested \in BOOLEAN
    OBVIOUS
  <2> QED
    BY <2>1 DEF CallerTypeOK, Result, NoReturn
<1>3. NetworkTypeOK
  BY DEF NetworkTypeOK
<1>4. CallMatches /\ Stack /\ InTime(api, wait, interval)
  BY DEF CallMatches, Calls, FoundBy, Underneath, InCallback, ValidForConnect, Stack, InTime
<1>5. ConnectedMeansSession /\ SlotStaysFree /\ PingOnTheWire
  BY DEF ConnectedMeansSession, Connected, SlotStaysFree, PingOnTheWire
<1> QED
  BY <1>1, <1>2, <1>3, <1>4, <1>5 DEF IInv, CallInv

\* And no step leaves it.
LEMMA InvariantStep == IInv /\ [MqttNext]_mqttVars => IInv'
BY ClientTypeStep, NetworkTypeStep, CallStep, SessionStep, SlotStep, PingStep DEF IInv

\* What it says in the terms of the properties.
LEMMA InvariantSays == IInv => TypeOK /\ StateMatchesCall
BY CallsMatch DEF IInv, CallInv, TypeOK

\* The inductive invariant holds in every reachable state.
THEOREM Invariant == MqttSpec => []IInv
BY InvariantInit, InvariantStep, PTL DEF MqttSpec

\* Every variable keeps its type and the reconnect interval its bound.
THEOREM TypeCorrect == MqttSpec => []TypeOK
BY Invariant, InvariantSays, PTL

\* No call, callback, call of a callback or failure leaves the client in
\* another call's state, at any depth.
THEOREM CallsKeepState == MqttSpec => []StateMatchesCall
BY Invariant, InvariantSays, PTL

\* The client uses a TLS context exactly while it has one.
THEOREM SessionWhenConnected == MqttSpec => []ConnectedMeansSession
BY Invariant, PTL DEF IInv

\* A ping is outstanding exactly while it or its answer is on the wire.
THEOREM KeepAliveAgrees == MqttSpec => []PingOnTheWire
BY Invariant, PTL DEF IInv

\* Only an acknowledgement changes the handlers.
LEMMA HandlersChange ==
  ASSUME IInv, [MqttNext]_mqttVars
  PROVE  UNCHANGED handlers \/ ReadSuback \/ ReadUnsuback
BY DEF MqttNext, ClientStep, ApiCall, NetworkStep, mqttVars, client, network, Refuse,
       Connect, ConnectOk, ConnectFail, Disconnect, AttemptReconnect, Subscribe, Unsubscribe,
       Resubscribe, ResubscribeNext, ResubscribeDone, AckLost, Publish, Yield, Exhausted, YieldReturn,
       SendPing, HandleDisconnect, ReadPingresp, ReadPublish, CallbackReturn, BrokerReads,
       BrokerPublishes, Break

\* What one step may do to the handlers.
LEMMA HandlerStep ==
  IInv /\ [MqttNext]_mqttVars =>
    \A i \in Slots : handlers[i] # NoTopic /\ handlers'[i] # handlers[i]
                       => \/ api = "unsubscribe" /\ handlers'[i] = NoTopic
                          \/ api = "subscribe" /\ nested
<1> SUFFICES ASSUME IInv, [MqttNext]_mqttVars, NEW i \in Slots,
                    handlers[i] # NoTopic, handlers'[i] # handlers[i]
             PROVE  \/ api = "unsubscribe" /\ handlers'[i] = NoTopic
                    \/ api = "subscribe" /\ nested
  OBVIOUS
<1>1. CASE ReadSuback
  BY <1>1 DEF ReadSuback, IInv, SlotStaysFree, ClientTypeOK
<1>2. CASE ReadUnsuback
  BY <1>2 DEF ReadUnsuback, IInv, CallInv, CallMatches, Calls
<1> QED
  BY <1>1, <1>2, HandlersChange

\* Whatever the application and its callbacks call, and however deep, a handler
\* is only freed by an unsubscription and only replaced by a subscription
\* during which a callback made another: in every other case the slot picked
\* before the SUBACK was awaited is still the right one after it.
THEOREM HandlersKept == MqttSpec => HandlerKept
<1>1. IInv /\ [MqttNext]_mqttVars =>
        [\A i \in Slots : handlers[i] # NoTopic /\ handlers'[i] # handlers[i]
                             => \/ api = "unsubscribe" /\ handlers'[i] = NoTopic
                                \/ api = "subscribe" /\ nested]_mqttVars
  BY HandlerStep
<1> QED
  BY <1>1, Invariant, PTL DEF MqttSpec, HandlerKept

-----------------------------------------------------------------------------
(* CloudLink: the task over the client.  What the broker serves is followed *)
(* through the table of handlers, the marks of the resubscription loop and   *)
(* the rung the task has in hand.                                            *)

\* The task calls connect, subscribe and yield only, each from one place, and
\* nothing from its callbacks.
TaskCalls ==
  /\ api \in {"none", "connect", "subscribe", "yield"}
  /\ api = "connect" => at \in {"booting", "reconnected"}
  /\ api = "subscribe" => at = "subscribed"
  /\ api = "yield" => at = "control"
  /\ at \in {"boot", "booting"} => ~isCallbackFlag /\ Callback_count = 0
  /\ at = "subscribed" => ~isCallbackFlag /\ Callback_count < Len(Ladder)
  /\ below = <<>>

\* The rung the task is on while it waits for a SUBACK, and when it had it.
RungInHand ==
  /\ api = "subscribe" => topic = Ladder[Callback_count + 1] /\ IsFirstFree(slot)
  /\ At("subscribed") /\ ret.rc = "SUCCESS" =>
       /\ \E i \in Slots : handlers[i] = Ladder[Callback_count + 1]
       /\ link = "up" => Served(Ladder[Callback_count + 1])

\* The task never unsubscribes: the table fills up from its start, and holds
\* every rung done.
TableOfRungs ==
  /\ \A i, j \in Slots : i < j /\ handlers[i] = NoTopic => handlers[j] = NoTopic
  /\ \A n \in Done : \E i \in Slots : handlers[i] = Ladder[n]
  /\ \A n \in DOMAIN outbox : outbox[n].type # "UNSUBSCRIBE"

\* A handler marked as resubscribed was so in this session.
MarksOfSession ==
  /\ wait = "SUBACK" /\ api # "subscribe" => slot \in Slots /\ topic = handlers[slot] /\ topic # NoTopic
  /\ wait = "SUBACK" /\ link = "up" => Served(topic)
  /\ \A i \in Slots : resubscribed[i] => link # "none" /\ handlers[i] # NoTopic
  /\ link = "up" => \A i \in Slots : resubscribed[i] => Served(handlers[i])

\* The resubscription loop goes through all handlers and has marked those it
\* is past.
LoopMarks ==
  wait \in {"resubscribe", "SUBACK"} /\ api # "subscribe" =>
    \A i \in Slots : handlers[i] # NoTopic =>
      /\ i <= count
      /\ i < slot \/ (i = slot /\ wait = "resubscribe") => resubscribed[i]

\* The rungs done are served, unless the task is about to learn that it has
\* connected anew.
RungsServed ==
  link = "up" /\ Underneath \in {"IDLE", "YIELD", "SUBSCRIBE"}
    => \/ At("reconnected") /\ ret.rc = "SUCCESS"
       \/ \A n \in Done : Served(Ladder[n])

\* The inductive invariant of the task, over that of the client.
LinkInv ==
  /\ IInv
  /\ LinkTypeOK
  /\ TaskCalls
  /\ RungInHand
  /\ TableOfRungs
  /\ MarksOfSession
  /\ LoopMarks
  /\ RungsServed

\* Whatever the task does, the client makes one of its steps or none.
LEMMA TaskStepIsClients == LinkInv /\ [CloudNext]_cloudVars => [MqttNext]_mqttVars
<1> SUFFICES ASSUME LinkInv, CloudNext PROVE MqttNext \/ UNCHANGED mqttVars
  BY DEF cloudVars
<1> USE DEF MqttNext, ClientStep, ApiCall, NetworkStep
<1>1. CASE TaskStep
  <2>1. CASE Rung
    <3>1. Callback_count < Len(Ladder) /\ Subscribe(Ladder[Callback_count + 1])
      BY <2>1 DEF Rung, RungDue
    <3>2. Ladder[Callback_count + 1] \in Topics
      BY <3>1, LinkAssumption DEF LinkInv, LinkTypeOK
    <3> QED
      BY <3>1, <3>2
  <2> QED
    BY <1>1, <2>1 DEF TaskStep, Boot, Booted, NoReport, Report, ReportSent, ReportFailed, ConnectionGivenUp,
       Reconnected, NoRung, RungNotDue, LastRungWaits, Subscribed, LadderComplete, YieldTurn
<1>2. CASE Deliver  BY <1>2 DEF Deliver
<1>3. CASE InsideCall  BY <1>3 DEF InsideCall
<1>4. CASE CloudNetwork  BY <1>4 DEF CloudNetwork
<1> QED
  BY <1>1, <1>2, <1>3, <1>4 DEF CloudNext

\* The task's own variables keep their types.
LEMMA LinkTypeStep == LinkInv /\ [CloudNext]_cloudVars => LinkTypeOK'
<1> SUFFICES ASSUME LinkInv, [CloudNext]_cloudVars PROVE LinkTypeOK'
  OBVIOUS
<1>1. LinkTypeOK /\ Len(Ladder) \in Nat /\ SendLimit \in Nat /\ SubPeriod \in Nat \ {0}
  BY LinkAssumption DEF LinkInv
<1>2. CASE TaskStep
  <2>1. (at = "subscribed" => Callback_count < Len(Ladder))
    BY DEF LinkInv, TaskCalls
  <2> USE <1>1, <1>2 DEF LinkTypeOK, rungs, At
  <2>2. /\ at' \in {"boot", "booting", "control", "reported", "reconnected", "check", "subscribed", "yield"}
        /\ isCallbackFlag' \in BOOLEAN
    BY DEF TaskStep, Boot, Booted, NoReport, Report, ReportSent, ReportFailed, ConnectionGivenUp,
       GiveUp, Reconnected, NoRung, RungNotDue, Rung, RungDue, LastRungWaits, Subscribed,
       LadderComplete, YieldTurn
  <2>3. Callback_count' \in 0..Len(Ladder)
    <3>1. \/ Callback_count' = Callback_count \/ Callback_count' = 0
          \/ Callback_count' = Callback_count + 1 /\ at = "subscribed"
      BY DEF TaskStep, Boot, Booted, NoReport, Report, ReportSent, ReportFailed, ConnectionGivenUp,
       GiveUp, Reconnected, NoRung, RungNotDue, Rung, RungDue, LastRungWaits, Subscribed,
       LadderComplete, YieldTurn
    <3> QED
      BY <2>1, <3>1
  <2>4. sub_time' \in 0..SubPeriod
    <3>1. \/ sub_time' = sub_time \/ sub_time' = 0 \/ sub_time' = SubPeriod
          \/ sub_time' = sub_time + 1 /\ sub_time + 1 < SubPeriod
      BY DEF TaskStep, Boot, Booted, NoReport, Report, ReportSent, ReportFailed, ConnectionGivenUp,
       GiveUp, Reconnected, NoRung, RungNotDue, Rung, RungDue, LastRungWaits, Subscribed,
       LadderComplete, YieldTurn
    <3> QED
      BY <3>1
  <2>5. sendcount' \in 0..SendLimit
    <3>1. \/ sendcount' = sendcount \/ sendcount' = 0 \/ sendcount' = SendLimit
          \/ sendcount' = sendcount + 1 /\ sendcount + 1 <= SendLimit
      BY DEF Tolerated, TaskStep, Boot, Booted, NoReport, Report, ReportSent, ReportFailed,
       ConnectionGivenUp, GiveUp, Reconnected, NoRung, RungNotDue, Rung, RungDue, LastRungWaits,
       Subscribed, LadderComplete, YieldTurn
    <3> QED
      BY <3>1
  <2>6. shown' \subseteq Flag
    <3>1. shown' \ shown \subseteq Flag
      BY DEF Flag, TaskStep, Boot, Booted, NoReport, Report, ReportSent, ReportFailed,
       ConnectionGivenUp, GiveUp, Reconnected, NoRung, RungNotDue, Rung, RungDue, LastRungWaits,
       Subscribed, LadderComplete, YieldTurn
    <3> QED
      BY <3>1
  <2> QED
    BY <2>2, <2>3, <2>4, <2>5, <2>6
<1>3. CASE Deliver  BY <1>1, <1>3 DEF Deliver, LinkTypeOK, Flag, rungs
<1>4. CASE UNCHANGED linkVars  BY <1>1, <1>4 DEF linkVars, LinkTypeOK
<1> QED
  BY <1>2, <1>3, <1>4 DEF CloudNext, InsideCall, CloudNetwork, cloudVars

\* The task acts between calls only.
LEMMA TaskAtRest ==
  ASSUME TaskStep
  PROVE  api = "none"
BY DEF TaskStep, At, Boot, Booted, NoReport, Report, ReportSent, ReportFailed, ConnectionGivenUp,
       Reconnected, NoRung, RungNotDue, Rung, RungDue, LastRungWaits, Subscribed, LadderComplete, YieldTurn

\* What the task's step asks of the client.
LEMMA TaskAsks ==
  ASSUME TaskStep
  PROVE  \/ UNCHANGED mqttVars
         \/ Connect \/ Publish \/ Rung \/ YieldTurn
BY DEF TaskStep, Boot, Booted, NoReport, Report, ReportSent, ReportFailed, ConnectionGivenUp,
       Reconnected, NoRung, RungNotDue, LastRungWaits, Subscribed, LadderComplete

\* A call of the task returns to the task.
LEMMA TaskCallEnds ==
  ASSUME LinkInv
  PROVE  \A fn, rc : Return(fn, rc) =>
           /\ api' = "none" /\ wait' = "none" /\ slot' = 0 /\ topic' = NoTopic /\ cb' = "none"
           /\ below' = <<>> /\ ret' = [fn |-> fn, rc |-> rc]
BY ReturnIs DEF LinkInv, TaskCalls

\* A call of the task starts with nothing below it.
LEMMA TaskCallStarts ==
  ASSUME LinkInv, api = "none"
  PROVE  /\ wait = "none" /\ cb = "none" /\ below = <<>>
         /\ \A fn, what, i, t : CallAndBlock(fn, what, i, t) =>
              /\ api' = fn /\ wait' = what /\ slot' = i /\ topic' = t /\ cb' = "none" /\ below' = <<>>
              /\ ret' = NoReturn
<1>1. wait = "none" /\ cb = "none" /\ below = <<>>
  BY DEF LinkInv, TaskCalls, IInv, CallInv, CallMatches, InCallback, Reads, Calls
<1> QED
  BY <1>1, CallIs DEF InCallback

\* Calls are made, and return, where they should.
LEMMA TaskCallsStep == LinkInv /\ [CloudNext]_cloudVars => TaskCalls'
<1> SUFFICES ASSUME LinkInv, [CloudNext]_cloudVars PROVE TaskCalls'
  OBVIOUS
<1>1. TaskCalls
  BY DEF LinkInv
<1>2. CASE TaskStep
  <2>1. api = "none" /\ below = <<>>
    BY <1>2, TaskAtRest, TaskCallStarts
  <2>2. /\ api' \in {"none", "connect", "subscribe", "yield"} /\ below' = <<>>
        /\ api' = "connect" => Connect
        /\ api' = "subscribe" => Rung
        /\ api' = "yield" => YieldTurn
    <3>1. CASE UNCHANGED mqttVars
      BY <2>1, <3>1 DEF mqttVars, caller, call
    <3>2. CASE Connect
      BY <2>1, <3>2 DEF Connect, Refuse, Block, call
    <3>3. CASE Publish
      BY <2>1, <3>3 DEF Publish, call
    <3>4. CASE Rung
      BY <2>1, <3>4, TaskCallStarts DEF Rung, Subscribe, Refuse, call
    <3>5. CASE YieldTurn
      BY <2>1, <3>5, ResubscriptionIs DEF YieldTurn, Yield, Refuse, Block, call
    <3> QED
      BY <1>2, <3>1, <3>2, <3>3, <3>4, <3>5, TaskAsks
  <2>3. /\ api' = "connect" => at' \in {"booting", "reconnected"}
        /\ api' = "subscribe" => at' = "subscribed"
        /\ api' = "yield" => at' = "control"
    <3>1. CASE Connect /\ api' = "connect"
      <4>1. ret' = NoReturn
        BY <2>1, <3>1 DEF Connect, Block, Refuse, call
      <4>2. ~UNCHANGED call
        BY <2>1, <3>1 DEF call
      <4>3. ~UNCHANGED mqttVars /\ ~Publish
        BY <4>2 DEF mqttVars, caller, Publish
      <4>4. ~Rung /\ ~YieldTurn
        BY <2>1, <3>1, <4>2, TaskCallStarts, ResubscriptionIs
           DEF Rung, Subscribe, YieldTurn, Yield, Refuse, Block
      <4> QED
        BY <1>2, <3>1, <4>3, <4>4 DEF TaskStep, Boot, Booted, NoReport, Report, ReportSent, ReportFailed,
           ConnectionGivenUp, Reconnected, NoRung, RungNotDue, LastRungWaits, Subscribed, LadderComplete
    <3>2. CASE Rung
      BY <2>1, <3>2, TaskCallStarts DEF Rung, Subscribe, Refuse, call
    <3>3. CASE YieldTurn
      BY <2>1, <3>3, ResubscriptionIs DEF YieldTurn, Yield, Refuse, Block, call
    <3> QED
      BY <2>2, <3>1, <3>2, <3>3
  <2>4. /\ at' \in {"boot", "booting"} => ~isCallbackFlag' /\ Callback_count' = 0
        /\ at' = "subscribed" => ~isCallbackFlag' /\ Callback_count' < Len(Ladder)
    BY <1>1, <1>2 DEF TaskCalls, rungs, At, TaskStep, Boot, Booted, NoReport, Report, ReportSent, ReportFailed,
       ConnectionGivenUp, Reconnected, NoRung, RungNotDue, Rung, RungDue, LastRungWaits, Subscribed,
       LadderComplete, YieldTurn
  <2> QED
    BY <2>2, <2>3, <2>4 DEF TaskCalls
<1>3. CASE Deliver  BY <1>1, <1>3 DEF Deliver, ReadPublish, TaskCalls, rungs
<1>4. CASE UNCHANGED linkVars
  <2>1. CASE InsideCall
    <3>1. api' \in {"none", api} /\ below' = <<>>
      BY <1>1, <2>1, TaskCallEnds, ResubscriptionIs DEF TaskCalls, InsideCall, ConnectOk, ConnectFail,
         ResubscribeNext, ResubscribeDone, AckLost, YieldReturn, SendPing, HandleDisconnect, ReadSuback,
         ReadPingresp, CallbackReturn, Block, BackOff, caller, call
    <3> QED
      BY <1>1, <1>4, <3>1 DEF TaskCalls, linkVars
  <2>2. CASE UNCHANGED <<api, below>>
    BY <1>1, <1>4, <2>2 DEF TaskCalls, linkVars
  <2>3. InsideCall \/ UNCHANGED <<api, below>> \/ TaskStep \/ Deliver
    BY DEF CloudNext, CloudNetwork, NetworkStep, BrokerReads, Break, BrokerPublishes, caller, call,
       cloudVars, mqttVars
  <2> QED
    BY <1>2, <1>3, <2>1, <2>2, <2>3
<1> QED
  BY <1>2, <1>3, <1>4 DEF CloudNext, InsideCall, CloudNetwork, cloudVars

\* Only a connection attempt that succeeds brings a session up; there is none before.
LEMMA SessionComesUp ==
  ASSUME LinkInv, [CloudNext]_cloudVars, link' = "up"
  PROVE  \/ link = "up"
         \/ ConnectOk /\ link = "none" /\ UNCHANGED linkVars
<1>1. CASE ConnectOk /\ UNCHANGED linkVars
  <2>1. state = "CONNECTING"
    BY <1>1 DEF ConnectOk, StartResubscription, LinkInv, IInv, CallInv, CallMatches, InCallback, Reads,
       FoundBy, Underneath
  <2> QED
    BY <1>1, <2>1 DEF LinkInv, IInv, ConnectedMeansSession, Connected
<1>2. CASE TaskStep
  BY <1>2, TaskAsks DEF mqttVars, caller, call, client, network, Connect, Publish, Rung, Subscribe, MaySubscribe,
       CallAndBlock, Resume, NoCall, InCallback, YieldTurn, Yield, Refuse
<1>3. CASE Deliver
  BY <1>3 DEF Deliver, ReadPublish, Reading
<1>4. CASE InsideCall
  BY <1>1, <1>4 DEF InsideCall, ConnectFail, DestroyLink, ResubscribeNext, ResubscribeDone, AckLost, Saved,
       YieldReturn, SendPing, HandleDisconnect, ReadSuback, ReadPingresp, CallbackReturn,
       Reading, network
<1>5. CASE CloudNetwork
  BY <1>5 DEF CloudNetwork, NetworkStep, BrokerReads, Break, BrokerPublishes
<1> QED
  BY <1>2, <1>3, <1>4, <1>5 DEF CloudNext, cloudVars, mqttVars, caller, call, client, network

\* What a step that keeps the session does to the requests on their way.
LEMMA TrafficIs ==
  ASSUME LinkInv, [CloudNext]_cloudVars, link = "up", link' = "up"
  PROVE  \/ UNCHANGED <<outbox, broker>>
         \/ UNCHANGED broker /\ \E p \in Request : p.type # "UNSUBSCRIBE" /\ outbox' = Append(outbox, p)
         \/ BrokerReads
<1>1. ~ConnectOk
  <2>1. ConnectOk => state = "CONNECTING"
    BY DEF ConnectOk, StartResubscription, LinkInv, IInv, CallInv, CallMatches, InCallback, Reads,
       FoundBy, Underneath
  <2> QED
    BY <2>1 DEF LinkInv, IInv, ConnectedMeansSession, Connected
<1>2. CASE TaskStep
  <2>1. CASE Rung
    <3>1. Callback_count < Len(Ladder) /\ Subscribe(Ladder[Callback_count + 1])
      BY <2>1 DEF Rung, RungDue
    <3>2. Ladder[Callback_count + 1] \in Topics
      BY <3>1, LinkAssumption DEF LinkInv, LinkTypeOK
    <3> QED
      BY <3>1, <3>2 DEF Subscribe, MaySubscribe, CallAndBlock, Resume, NoCall, InCallback, Refuse, call, network,
       Send, Pkt, Request
  <2> QED
    BY <1>2, <2>1, TaskAsks DEF mqttVars, caller, call, client, network, Connect, Publish, YieldTurn, Yield, Refuse
<1>3. CASE Deliver
  BY <1>3 DEF Deliver, ReadPublish, Reading
<1>4. CASE InsideCall
  <2>1. CASE ResubscribeNext
    BY <2>1 DEF ResubscribeNext, IsNextToResubscribe, ToResubscribe, Send, Pkt, Request, LinkInv, IInv,
       TypeOK, ClientTypeOK, Slots
  <2>2. CASE SendPing
    BY <2>2 DEF SendPing, Send, Pkt, Request
  <2> QED
    BY <1>1, <1>4, <2>1, <2>2 DEF InsideCall, ConnectFail, DestroyLink, ResubscribeDone, AckLost, Saved, YieldReturn,
       HandleDisconnect, ReadSuback, ReadPingresp, CallbackReturn, Reading, network
<1>5. CASE CloudNetwork
  BY <1>5 DEF CloudNetwork, NetworkStep, Break, BrokerPublishes
<1> QED
  BY <1>2, <1>3, <1>4, <1>5 DEF CloudNext, cloudVars, mqttVars, caller, call, client, network

\* While the session is up, what is served stays so: nothing unsubscribes.
LEMMA ServedKept ==
  ASSUME LinkInv, [CloudNext]_cloudVars, link = "up", link' = "up", NEW t, Served(t)
  PROVE  Served(t)'
<1>1. outbox \in Seq(Request)
  BY DEF LinkInv, IInv, TypeOK, NetworkTypeOK
<1>2. CASE UNCHANGED <<outbox, broker>>
  BY <1>2 DEF Served
<1>3. ASSUME UNCHANGED broker, NEW p \in Request, outbox' = Append(outbox, p) PROVE Served(t)'
  <2>1. \A n \in DOMAIN outbox : n \in DOMAIN outbox' /\ outbox'[n] = outbox[n]
    BY <1>1, <1>3
  <2> QED
    BY <1>3, <2>1 DEF Served
<1>4. CASE BrokerReads
  <2>1. /\ outbox # <<>> /\ outbox' = Tail(outbox)
        /\ Head(outbox).type # "UNSUBSCRIBE"
        /\ broker \subseteq broker'
        /\ Head(outbox).type = "SUBSCRIBE" => Head(outbox).topic \in broker'
    <3>1. outbox # <<>> /\ outbox' = Tail(outbox) /\ 1 \in DOMAIN outbox /\ Head(outbox) = outbox[1]
      BY <1>1, <1>4 DEF BrokerReads
    <3>2. Head(outbox).type # "UNSUBSCRIBE"
      BY <3>1 DEF LinkInv, TableOfRungs
    <3> QED
      BY <1>4, <3>1, <3>2 DEF BrokerReads
  <2>2. CASE t \in broker
    BY <2>1, <2>2 DEF Served
  <2>3. ASSUME NEW n \in DOMAIN outbox, outbox[n] = Pkt("SUBSCRIBE", t) PROVE Served(t)'
    <3>1. CASE n = 1
      BY <1>1, <2>1, <2>3, <3>1 DEF Served, Pkt
    <3>2. CASE n # 1
      <4>1. n - 1 \in DOMAIN Tail(outbox) /\ Tail(outbox)[n - 1] = outbox[n]
        BY <1>1, <2>1, <3>2
      <4> QED
        BY <2>1, <2>3, <4>1 DEF Served
    <3> QED
      BY <3>1, <3>2
  <2> QED
    BY <2>2, <2>3 DEF Served
<1> QED
  BY <1>2, <1>3, <1>4, TrafficIs

\* A topic that is asked for over a session that is up is served.
LEMMA AskedIsServed ==
  ASSUME LinkInv, link = "up", NEW t \in Topics, Send(Pkt("SUBSCRIBE", t))
  PROVE  Served(t)'
<1>1. outbox \in Seq(Request) /\ outbox' = Append(outbox, Pkt("SUBSCRIBE", t)) /\ Pkt("SUBSCRIBE", t) \in Request
  BY DEF LinkInv, IInv, TypeOK, NetworkTypeOK, Send, Pkt, Request
<1> DEFINE p == Pkt("SUBSCRIBE", t)
<1> HIDE DEF p
<1>2. Len(outbox) + 1 \in DOMAIN outbox' /\ outbox'[Len(outbox) + 1] = p
  BY <1>1 DEF p
<1> QED
  BY <1>2 DEF Served, p

\* A subscription that is acknowledged fills its slot, and nothing else
\* changes the table.
LEMMA TableGrows ==
  ASSUME LinkInv, [CloudNext]_cloudVars
  PROVE  \/ UNCHANGED handlers
         \/ /\ api = "subscribe" /\ wait = "SUBACK"
            /\ slot \in Slots /\ IsFirstFree(slot)
            /\ topic \in Topics /\ topic = Ladder[Callback_count + 1]
            /\ handlers' = [handlers EXCEPT ![slot] = topic]
            /\ api' = "none" /\ ret'.rc = "SUCCESS" /\ UNCHANGED <<link, linkVars>>
<1>1. CASE ReadSuback /\ UNCHANGED linkVars
  <2>1. CASE api = "subscribe" /\ wait = "SUBACK"
    <3>1. slot \in Slots /\ IsFirstFree(slot) /\ topic = Ladder[Callback_count + 1]
      BY <2>1 DEF LinkInv, IInv, SlotStaysFree, RungInHand
    <3>2. Ladder[Callback_count + 1] \in Topics
      BY <2>1, LinkAssumption DEF LinkInv, LinkTypeOK, TaskCalls
    <3> QED
      BY <1>1, <2>1, <3>1, <3>2, TaskCallEnds DEF ReadSuback, Reading
  <2> QED
    BY <1>1, <2>1 DEF ReadSuback, Saved
<1>2. CASE TaskStep
  BY <1>2, TaskAsks DEF mqttVars, caller, call, client, network, Connect, Publish, Rung, Subscribe, MaySubscribe,
       CallAndBlock, Resume, NoCall, InCallback, YieldTurn, Yield, Refuse
<1>3. CASE Deliver
  BY <1>3 DEF Deliver, ReadPublish
<1>4. CASE InsideCall
  BY <1>1, <1>4 DEF InsideCall, ConnectOk, StartResubscription, ConnectFail, ResubscribeNext,
       ResubscribeDone, AckLost, Saved, YieldReturn, SendPing, HandleDisconnect, ReadPingresp,
       CallbackReturn, client
<1>5. CASE CloudNetwork
  BY <1>5 DEF CloudNetwork, NetworkStep, BrokerReads, Break, BrokerPublishes, client
<1> QED
  BY <1>2, <1>3, <1>4, <1>5 DEF CloudNext, cloudVars, mqttVars, caller, call, client, network

\* So a handler stays where it is.
LEMMA HandlerStays ==
  ASSUME LinkInv, [CloudNext]_cloudVars, NEW i \in Slots, handlers[i] # NoTopic
  PROVE  handlers'[i] = handlers[i]
<1>1. handlers \in [Slots -> Topics \cup {NoTopic}]
  BY DEF LinkInv, IInv, TypeOK, ClientTypeOK
<1> QED
  BY <1>1, TableGrows DEF IsFirstFree

\* A rung is taken for done when its subscription has succeeded.
LEMMA DoneGrows ==
  ASSUME LinkInv, [CloudNext]_cloudVars
  PROVE  \/ Done' \subseteq Done
         \/ /\ Subscribed /\ ret.rc = "SUCCESS" /\ UNCHANGED mqttVars
            /\ Done' \subseteq Done \cup {Callback_count + 1}
<1>1. Callback_count \in 0..Len(Ladder) /\ Len(Ladder) \in Nat /\ DOMAIN Ladder = 1..Len(Ladder)
  BY LinkAssumption DEF LinkInv, LinkTypeOK
<1>2. at = "subscribed" => ~isCallbackFlag
  BY DEF LinkInv, TaskCalls
<1>3. CASE UNCHANGED <<isCallbackFlag, Callback_count>>
  BY <1>3 DEF Done
<1>4. CASE Subscribed
  BY <1>1, <1>2, <1>4 DEF Subscribed, Done, At
<1>5. CASE LadderComplete
  BY <1>1, <1>5 DEF LadderComplete, Done
<1>6. CASE Reconnected
  <2>1. CASE isCallbackFlag' = FALSE /\ Callback_count' = 0
    BY <1>1, <2>1 DEF Done
  <2> QED
    BY <1>3, <1>6, <2>1 DEF Reconnected
<1>7. UNCHANGED <<isCallbackFlag, Callback_count>> \/ Subscribed \/ LadderComplete \/ Reconnected
  BY DEF CloudNext, TaskStep, rungs, linkVars, cloudVars, Boot, Booted, NoReport, Report,
       ReportSent, ReportFailed, ConnectionGivenUp, NoRung, RungNotDue, Rung, LastRungWaits,
       YieldTurn, Deliver, InsideCall, CloudNetwork
<1> QED
  BY <1>3, <1>4, <1>5, <1>6, <1>7

\* The table holds every rung done, from its start, and nothing unsubscribes.
LEMMA TableStep == LinkInv /\ [CloudNext]_cloudVars => TableOfRungs'
<1> SUFFICES ASSUME LinkInv, [CloudNext]_cloudVars PROVE TableOfRungs'
  OBVIOUS
<1>1. /\ handlers \in [Slots -> Topics \cup {NoTopic}]
      /\ \A i, j \in Slots : i < j /\ handlers[i] = NoTopic => handlers[j] = NoTopic
      /\ \A n \in Done : \E i \in Slots : handlers[i] = Ladder[n]
      /\ \A n \in DOMAIN outbox : outbox[n].type # "UNSUBSCRIBE"
      /\ outbox \in Seq(Request)
  BY DEF LinkInv, TableOfRungs, IInv, TypeOK, ClientTypeOK, NetworkTypeOK
<1>2. ASSUME NEW i \in Slots, NEW j \in Slots, i < j, handlers'[i] = NoTopic PROVE handlers'[j] = NoTopic
  <2>1. handlers[i] = NoTopic /\ handlers[j] = NoTopic
    BY <1>1, <1>2, HandlerStays
  <2>2. CASE UNCHANGED handlers
    BY <2>1, <2>2
  <2>3. CASE slot \in Slots /\ IsFirstFree(slot) /\ handlers' = [handlers EXCEPT ![slot] = topic]
    <3>1. j # slot
      BY <1>2, <2>1, <2>3 DEF IsFirstFree
    <3> QED
      BY <1>1, <2>1, <2>3, <3>1
  <2> QED
    BY <2>2, <2>3, TableGrows
<1>3. ASSUME NEW n \in Done' PROVE \E i \in Slots : handlers'[i] = Ladder[n]
  <2>1. \E i \in Slots : handlers[i] = Ladder[n]
    <3>1. CASE n \in Done
      BY <1>1, <3>1
    <3>2. CASE Subscribed /\ ret.rc = "SUCCESS" /\ n = Callback_count + 1
      BY <3>2 DEF Subscribed, LinkInv, RungInHand
    <3> QED
      BY <3>1, <3>2, <1>3, DoneGrows
  <2>2. Ladder[n] # NoTopic
    <3>1. n \in DOMAIN Ladder
      <4>1. (LinkTypeOK)'
        BY LinkTypeStep
      <4> QED
        BY <1>3, <4>1, LinkAssumption DEF Done, LinkTypeOK
    <3> QED
      BY <3>1, LinkAssumption, ClientAssumption
  <2> QED
    BY <2>1, <2>2, HandlerStays
<1>4. \A n \in DOMAIN outbox' : outbox'[n].type # "UNSUBSCRIBE"
  <2>1. CASE link = "up" /\ link' = "up"
    <3>1. CASE UNCHANGED outbox
      BY <1>1, <3>1
    <3>2. ASSUME NEW p \in Request, p.type # "UNSUBSCRIBE", outbox' = Append(outbox, p)
          PROVE  \A n \in DOMAIN outbox' : outbox'[n].type # "UNSUBSCRIBE"
      BY <1>1, <3>2
    <3>3. CASE outbox # <<>> /\ outbox' = Tail(outbox)
      BY <1>1, <3>3
    <3> QED
      BY <2>1, <3>1, <3>2, <3>3, TrafficIs DEF BrokerReads
  <2>2. CASE ~(link = "up" /\ link' = "up")
    <3>1. CASE UNCHANGED outbox
      BY <1>1, <3>1
    <3>2. CASE outbox' = <<>>
      BY <3>2
    <3>3. outbox' = <<>> \/ UNCHANGED outbox
      <4>1. CASE TaskStep
        BY <2>2, <4>1, TaskAsks, SessionComesUp DEF mqttVars, caller, call, client, network, Connect, Publish, Rung, Subscribe, MaySubscribe,
       CallAndBlock, Resume, NoCall, InCallback, YieldTurn, Yield, Refuse, Send
      <4>2. CASE Deliver
        BY <4>2 DEF Deliver, ReadPublish, Reading
      <4>3. CASE InsideCall
        BY <2>2, <4>3 DEF InsideCall, ConnectOk, StartResubscription, FreshSession, ConnectFail, DestroyLink,
       ResubscribeNext, ResubscribeDone, AckLost, Saved, YieldReturn, SendPing,
       HandleDisconnect, ReadSuback, ReadPingresp, CallbackReturn, Reading, network, Send
      <4>4. CASE CloudNetwork
        BY <2>2, <4>4 DEF CloudNetwork, NetworkStep, BrokerReads, Break, BrokerPublishes
      <4> QED
        BY <4>1, <4>2, <4>3, <4>4 DEF CloudNext, cloudVars, mqttVars, caller, call, client, network
    <3> QED
      BY <3>1, <3>2, <3>3
  <2> QED
    BY <2>1, <2>2
<1> QED
  BY <1>2, <1>3, <1>4 DEF TableOfRungs

\* A SUBSCRIBE of the ladder waits with what it was made for.
LEMMA RungWaits ==
  ASSUME LinkInv, [CloudNext]_cloudVars, api' = "subscribe"
  PROVE  \/ api = "subscribe" /\ UNCHANGED <<slot, topic, handlers, at, isCallbackFlag, Callback_count>>
         \/ /\ Rung /\ UNCHANGED <<handlers, link>>
            /\ topic' = Ladder[Callback_count + 1] /\ slot' \in Slots /\ IsFirstFree(slot')
            /\ Send(Pkt("SUBSCRIBE", topic'))
<1>1. CASE TaskStep
  <2>1. api = "none"
    BY <1>1, TaskAtRest
  <2>2. CASE UNCHANGED mqttVars
    BY <1>1, <2>1, <2>2 DEF mqttVars, caller, call
  <2>3. CASE Connect
    BY <2>1, <2>3 DEF Connect, Refuse, Block, call
  <2>4. CASE Publish
    BY <2>1, <2>4 DEF Publish, call
  <2>5. CASE Rung
    BY <2>1, <2>5, TaskCallStarts DEF Rung, Subscribe, Refuse, call
  <2>6. CASE YieldTurn
    BY <2>1, <2>6, ResubscriptionIs DEF YieldTurn, Yield, Refuse, Block, call
  <2> QED
    BY <1>1, <2>2, <2>3, <2>4, <2>5, <2>6, TaskAsks
<1>2. CASE Deliver
  BY <1>2 DEF Deliver, ReadPublish, rungs
<1>3. CASE InsideCall
  <2>1. \A fn, rc : ~Return(fn, rc)
    BY TaskCallEnds
  <2>2. api = "subscribe" /\ UNCHANGED <<slot, topic, handlers>>
    BY <1>3, <2>1, ResubscriptionIs DEF InsideCall, ConnectOk, ConnectFail, ResubscribeNext,
       ResubscribeDone, AckLost, BackOff, YieldReturn, SendPing, HandleDisconnect,
       ReadSuback, ReadPingresp, CallbackReturn, Block, caller, call,
       client, LinkInv, IInv, CallInv, CallMatches, Calls
  <2> QED
    BY <1>3, <2>2 DEF InsideCall, linkVars
<1>4. CASE CloudNetwork
  BY <1>4 DEF CloudNetwork, NetworkStep, BrokerReads, Break, BrokerPublishes, caller, call, client,
       linkVars
<1> QED
  BY <1>1, <1>2, <1>3, <1>4 DEF CloudNext, cloudVars, mqttVars, caller, call, client, linkVars

\* Between calls the client does nothing.
LEMMA BetweenCalls ==
  ASSUME LinkInv, [CloudNext]_cloudVars, api = "none", ~TaskStep
  PROVE  UNCHANGED <<client, caller, linkVars>>
<1>1. wait = "none" /\ cb = "none"
  BY TaskCallStarts
<1>2. ~InsideCall
  BY <1>1 DEF InsideCall, InCallback, ConnectOk, StartResubscription, ConnectFail, ResubscribeNext,
       ResubscribeDone, AckLost, Saved, YieldReturn, SendPing, HandleDisconnect, ReadSuback,
       ReadPingresp, CallbackReturn, Reading
<1>3. ~Deliver
  BY <1>1 DEF Deliver, ReadPublish, Reading
<1>4. CloudNetwork => UNCHANGED <<client, caller, linkVars>>
  BY DEF CloudNetwork, NetworkStep, BrokerReads, Break, BrokerPublishes
<1>5. UNCHANGED cloudVars => UNCHANGED <<client, caller, linkVars>>
  BY DEF cloudVars, mqttVars, caller, call, client, network, linkVars
<1> QED
  BY <1>2, <1>3, <1>4, <1>5 DEF CloudNext

\* The rung in hand.
LEMMA RungStep == LinkInv /\ [CloudNext]_cloudVars => RungInHand'
<1> SUFFICES ASSUME LinkInv, [CloudNext]_cloudVars PROVE RungInHand'
  OBVIOUS
<1>1. ASSUME api' = "subscribe"
      PROVE  topic' = Ladder[Callback_count' + 1] /\ IsFirstFree(slot)'
  <2>1. CASE api = "subscribe" /\ UNCHANGED <<slot, topic, handlers, Callback_count>>
    BY <2>1 DEF LinkInv, RungInHand, IsFirstFree
  <2>2. CASE /\ Rung /\ UNCHANGED handlers
             /\ topic' = Ladder[Callback_count + 1] /\ IsFirstFree(slot')
    BY <2>2 DEF Rung, IsFirstFree
  <2> QED
    BY <1>1, <2>1, <2>2, RungWaits
<1>2. ASSUME at' = "subscribed", api' = "none", ret'.rc = "SUCCESS"
      PROVE  /\ \E i \in Slots : handlers'[i] = Ladder[Callback_count' + 1]
             /\ link' = "up" => Served(Ladder[Callback_count + 1])'
             /\ UNCHANGED Callback_count
  <2>1. ~TaskStep
    BY <1>2 DEF TaskStep, At, Boot, Booted, NoReport, Report, ReportSent, ReportFailed,
       ConnectionGivenUp, Reconnected, NoRung, RungNotDue, Rung, RungDue, LastRungWaits,
       Subscribed, LadderComplete, YieldTurn, Subscribe, MaySubscribe, CallAndBlock, Resume,
       NoCall, InCallback, Refuse, call, Return, Block
  <2>2. at = "subscribed" /\ UNCHANGED Callback_count
    BY <1>2, <2>1 DEF CloudNext, Deliver, InsideCall, CloudNetwork, linkVars, cloudVars, rungs
  <2>3. Callback_count + 1 \in DOMAIN Ladder /\ Ladder[Callback_count + 1] \in Topics
    BY <2>2, LinkAssumption DEF LinkInv, LinkTypeOK, TaskCalls
  <2>4. CASE api = "none"
    <3>1. UNCHANGED ret /\ At("subscribed")
      BY <2>1, <2>2, <2>4, BetweenCalls DEF caller, call, At
    <3>2. /\ \E i \in Slots : handlers[i] = Ladder[Callback_count + 1]
          /\ link = "up" => Served(Ladder[Callback_count + 1])
      BY <1>2, <3>1 DEF LinkInv, RungInHand
    <3>3. link' = "up" => link = "up"
      BY <2>1, <2>4, BetweenCalls, SessionComesUp DEF ConnectOk, StartResubscription, Return, Resume, NoCall, caller, call, LinkInv, IInv,
       CallInv, CallMatches, InCallback, Reads, Calls
    <3>4. Ladder[Callback_count + 1] # NoTopic
      BY <2>3, ClientAssumption
    <3>5. \E i \in Slots : handlers'[i] = Ladder[Callback_count + 1]
      BY <3>2, <3>4, HandlerStays
    <3> QED
      BY <2>2, <3>2, <3>3, <3>5, ServedKept
  <2>5. CASE api # "none"
    <3>1. api = "subscribe"
      BY <2>2, <2>5 DEF LinkInv, TaskCalls
    <3>2. ReadSuback /\ wait = "SUBACK"
      <4>1. CASE InsideCall
        BY <1>2, <3>1, <4>1 DEF InsideCall, ConnectOk, StartResubscription, ConnectFail, ResubscribeNext,
       ResubscribeDone, AckLost, Saved, YieldReturn, SendPing, HandleDisconnect, ReadSuback,
       ReadPingresp, CallbackReturn, Return, Resume, NoCall, Block, caller, call, LinkInv, IInv,
       CallInv, CallMatches, InCallback, Reads, Calls
      <4>2. CASE Deliver \/ CloudNetwork \/ UNCHANGED cloudVars
        BY <1>2, <3>1, <4>2 DEF Deliver, ReadPublish, CloudNetwork, NetworkStep, BrokerReads, Break, BrokerPublishes,
       cloudVars, mqttVars, caller, call, client, network
      <4> QED
        BY <2>1, <4>1, <4>2 DEF CloudNext
    <3>3. topic = Ladder[Callback_count + 1] /\ slot \in Slots /\ (link = "up" => Served(topic))
      BY <3>1, <3>2 DEF LinkInv, RungInHand, MarksOfSession, IInv, SlotStaysFree
    <3>4. handlers' = [handlers EXCEPT ![slot] = topic] /\ UNCHANGED link
      BY <3>1, <3>2 DEF ReadSuback, Saved, Reading
    <3>5. handlers'[slot] = topic
      BY <3>3, <3>4 DEF LinkInv, IInv, TypeOK, ClientTypeOK
    <3> QED
      BY <2>2, <3>3, <3>4, <3>5, ServedKept
  <2> QED
    BY <2>4, <2>5
<1> QED
  BY <1>1, <1>2 DEF RungInHand, At

\* How a wait for a SUBACK comes about.
LEMMA SubackWaits ==
  ASSUME LinkInv, [CloudNext]_cloudVars, wait' = "SUBACK"
  PROVE  /\ link' = "up" => link = "up"
         /\ \/ wait = "SUBACK" /\ UNCHANGED <<api, slot, topic>>
            \/ /\ api' = "subscribe" /\ topic' \in Topics
               /\ Send(Pkt("SUBSCRIBE", topic')) /\ UNCHANGED link
            \/ ResubscribeNext
<1>1. CASE TaskStep
  <2>1. api = "none" /\ wait = "none"
    BY <1>1, TaskAtRest, TaskCallStarts
  <2>2. CASE UNCHANGED mqttVars
    BY <2>1, <2>2 DEF mqttVars, caller, call
  <2>3. CASE Connect
    BY <2>1, <2>3 DEF Connect, Refuse, Block, call
  <2>4. CASE Publish
    BY <2>1, <2>4 DEF Publish, call
  <2>5. CASE Rung
    <3>1. Callback_count < Len(Ladder) /\ Subscribe(Ladder[Callback_count + 1])
      BY <2>5 DEF Rung, RungDue
    <3>2. Ladder[Callback_count + 1] \in Topics
      BY <3>1, LinkAssumption DEF LinkInv, LinkTypeOK
    <3> QED
      BY <2>1, <3>1, <3>2, TaskCallStarts DEF Subscribe, Refuse, call
  <2>6. CASE YieldTurn
    BY <2>1, <2>6, ResubscriptionIs DEF YieldTurn, Yield, Refuse, Block, call
  <2> QED
    BY <1>1, <2>2, <2>3, <2>4, <2>5, <2>6, TaskAsks
<1>2. CASE Deliver
  BY <1>2 DEF Deliver, ReadPublish, Reading
<1>3. CASE InsideCall
  BY <1>3, TaskCallEnds, ResubscriptionIs DEF InsideCall, ConnectOk, ConnectFail, ResubscribeNext,
       ResubscribeDone, AckLost, BackOff, YieldReturn, SendPing, HandleDisconnect,
       ReadSuback, ReadPingresp, CallbackReturn, Block, caller, call,
       client, Reading, network
<1>4. CASE CloudNetwork
  BY <1>4 DEF CloudNetwork, NetworkStep, BrokerReads, Break, BrokerPublishes, caller, call
<1> QED
  BY <1>1, <1>2, <1>3, <1>4 DEF CloudNext, cloudVars, mqttVars, caller, call, network

\* How a handler comes to be marked, and when the session goes.
LEMMA MarksAre ==
  ASSUME LinkInv, [CloudNext]_cloudVars, NEW i \in Slots, resubscribed'[i]
  PROVE  /\ link' = "none" => link = "none"
         /\ \/ resubscribed[i]
            \/ wait = "SUBACK" /\ api # "subscribe" /\ i = slot /\ UNCHANGED link
<1>1. resubscribed \in [Slots -> BOOLEAN]
  BY DEF LinkInv, IInv, TypeOK, ClientTypeOK
<1>2. CASE TaskStep
  BY <1>2, TaskAsks DEF mqttVars, caller, call, client, network, Connect, Publish, Rung, Subscribe, MaySubscribe,
       CallAndBlock, Resume, NoCall, InCallback, YieldTurn, Yield, Refuse
<1>3. CASE Deliver
  BY <1>3 DEF Deliver, ReadPublish, Reading
<1>4. CASE InsideCall
  <2>1. CASE ReadSuback
    BY <1>1, <2>1 DEF ReadSuback, Saved, Reading
  <2>2. CASE HandleDisconnect
    BY <2>2 DEF HandleDisconnect
  <2>3. CASE ConnectFail
    <3>1. state = "CONNECTING"
      BY <2>3 DEF ConnectFail, LinkInv, IInv, CallInv, CallMatches, InCallback, Reads, FoundBy, Underneath
    <3> QED
      BY <2>3, <3>1 DEF ConnectFail, LinkInv, IInv, ConnectedMeansSession, Connected
  <2> QED
    BY <1>4, <2>1, <2>2, <2>3 DEF InsideCall, ConnectOk, StartResubscription, FreshSession, ResubscribeNext,
       ResubscribeDone, AckLost, Saved, YieldReturn, SendPing, ReadPingresp, CallbackReturn,
       client, network, Reading
<1>5. CASE CloudNetwork
  BY <1>5 DEF CloudNetwork, NetworkStep, BrokerReads, Break, BrokerPublishes, client
<1> QED
  BY <1>2, <1>3, <1>4, <1>5 DEF CloudNext, cloudVars, mqttVars, caller, call, client, network

\* Handlers are marked in the session that serves them.
LEMMA MarksStep == LinkInv /\ [CloudNext]_cloudVars => MarksOfSession'
<1> SUFFICES ASSUME LinkInv, [CloudNext]_cloudVars PROVE MarksOfSession'
  OBVIOUS
<1>1. MarksOfSession
  BY DEF LinkInv
<1>2. ResubscribeNext =>
        /\ api' = api /\ api # "subscribe" /\ slot' \in Slots /\ handlers' = handlers /\ UNCHANGED link
        /\ topic' = handlers[slot'] /\ topic' \in Topics /\ Send(Pkt("SUBSCRIBE", topic'))
  BY DEF ResubscribeNext, IsNextToResubscribe, ToResubscribe, Block, client, LinkInv, IInv,
       CallInv, CallMatches, InCallback, Reads, Calls, TypeOK, ClientTypeOK, Slots
<1>3. ASSUME wait' = "SUBACK", api' # "subscribe"
      PROVE  slot' \in Slots /\ topic' = handlers'[slot'] /\ topic' # NoTopic
  <2>1. CASE wait = "SUBACK" /\ UNCHANGED <<api, slot, topic>>
    <3>1. slot \in Slots /\ topic = handlers[slot] /\ topic # NoTopic
      BY <1>1, <1>3, <2>1 DEF MarksOfSession
    <3> QED
      BY <2>1, <3>1, HandlerStays
  <2>2. CASE ResubscribeNext
    BY <1>2, <2>2, ClientAssumption
  <2> QED
    BY <1>3, <2>1, <2>2, SubackWaits
<1>4. ASSUME wait' = "SUBACK", link' = "up" PROVE Served(topic)'
  <2>1. link = "up"
    BY <1>4, SubackWaits
  <2>2. CASE wait = "SUBACK" /\ UNCHANGED topic
    <3>1. Served(topic)
      BY <1>1, <2>1, <2>2 DEF MarksOfSession
    <3>2. \A t : Served(t) => Served(t)'
      BY <1>4, <2>1, ServedKept
    <3> QED
      BY <2>2, <3>1, <3>2 DEF Served
  <2>3. CASE topic' \in Topics /\ Send(Pkt("SUBSCRIBE", topic'))
    <3>1. \A t \in Topics : Send(Pkt("SUBSCRIBE", t)) => Served(t)'
      BY <2>1, AskedIsServed
    <3> QED
      BY <2>3, <3>1 DEF Served
  <2> QED
    BY <1>2, <1>4, <2>2, <2>3, SubackWaits
<1>5. ASSUME NEW i \in Slots, resubscribed'[i] PROVE link' # "none" /\ handlers'[i] # NoTopic
  <2>1. link # "none" /\ handlers[i] # NoTopic
    <3>1. CASE resubscribed[i]
      BY <1>1, <3>1 DEF MarksOfSession
    <3>2. CASE wait = "SUBACK" /\ api # "subscribe" /\ i = slot
      <4>1. handlers[i] # NoTopic
        BY <1>1, <3>2 DEF MarksOfSession
      <4>2. Underneath = "RESUBSCRIBE"
        BY <3>2 DEF LinkInv, IInv, CallInv, CallMatches, InCallback, Reads, FoundBy
      <4>3. state \in Connected
        BY <4>2 DEF Underneath, InCallback, LinkInv, IInv, CallInv, CallMatches, Reads, Connected
      <4> QED
        BY <4>1, <4>3 DEF LinkInv, IInv, ConnectedMeansSession
    <3> QED
      BY <1>5, <3>1, <3>2, MarksAre
  <2> QED
    BY <1>5, <2>1, MarksAre, HandlerStays
<1>6. ASSUME link' = "up", NEW i \in Slots, resubscribed'[i] PROVE Served(handlers[i])'
  <2>1. link = "up" /\ handlers'[i] = handlers[i]
    <3>1. \/ resubscribed[i]
          \/ wait = "SUBACK" /\ api # "subscribe" /\ i = slot
      BY <1>6, MarksAre
    <3>2. handlers[i] # NoTopic
      BY <1>1, <3>1 DEF MarksOfSession
    <3>3. ConnectOk => wait = "CONNACK" /\ link = "none"
      BY <1>6, SessionComesUp DEF ConnectOk, StartResubscription, LinkInv, IInv, CallInv, CallMatches, InCallback, Reads,
       FoundBy, Underneath, ConnectedMeansSession, Connected
    <3>4. link = "up"
      BY <1>1, <1>6, <3>1, <3>3, SessionComesUp DEF MarksOfSession
    <3> QED
      BY <3>2, <3>4, HandlerStays
  <2>2. Served(handlers[i])
    <3>1. CASE resubscribed[i]
      BY <1>1, <2>1, <3>1 DEF MarksOfSession
    <3>2. CASE wait = "SUBACK" /\ api # "subscribe" /\ i = slot
      BY <1>1, <2>1, <3>2 DEF MarksOfSession
    <3> QED
      BY <1>6, <3>1, <3>2, MarksAre
  <2>3. \A t : Served(t) => Served(t)'
    BY <1>6, <2>1, ServedKept
  <2> QED
    BY <2>1, <2>2, <2>3 DEF Served
<1> QED
  BY <1>3, <1>4, <1>5, <1>6 DEF MarksOfSession

\* How a turn of the loop, or its start, comes about.
LEMMA LoopIs ==
  ASSUME LinkInv, [CloudNext]_cloudVars, wait' \in {"resubscribe", "SUBACK"}, api' # "subscribe"
  PROVE  /\ UNCHANGED handlers
         /\ \/ wait \in {"resubscribe", "SUBACK"} /\ api # "subscribe" /\ UNCHANGED count
               /\ \/ UNCHANGED <<wait, slot, resubscribed>>
                  \/ /\ wait = "SUBACK" /\ wait' = "resubscribe" /\ UNCHANGED slot
                     /\ resubscribed' = [resubscribed EXCEPT ![slot] = TRUE]
                  \/ wait = "resubscribe" /\ wait' = "SUBACK" /\ IsNextToResubscribe(slot') /\ slot' \in Slots
                     /\ UNCHANGED resubscribed
            \/ wait' = "resubscribe" /\ slot' = 0 /\ Registered(count') /\ count' \in 0..NumHandlers
<1>1. /\ below = <<>> /\ <<api, wait>> \in Calls
      /\ api = "none" => wait = "none" /\ ~InCallback
      /\ api \in {"none", "connect", "subscribe", "yield"}
  BY DEF LinkInv, TaskCalls, IInv, CallInv, CallMatches, Calls, Reads
<1>2. \A fn, rc : Return(fn, rc) => api' = "none" /\ wait' = "none"
  BY <1>1, ReturnIs
<1>3. CASE TaskStep
  <2>1. api = "none"
    BY <1>3, TaskAtRest
  <2>2. CASE UNCHANGED mqttVars
    BY <1>1, <2>1, <2>2 DEF mqttVars, caller, call
  <2>3. CASE Connect
    BY <1>1, <1>2, <2>1, <2>3 DEF Connect, Refuse, Block, call
  <2>4. CASE Publish
    BY <1>1, <2>1, <2>4 DEF Publish, call
  <2>5. CASE Rung
    BY <1>1, <2>1, <2>5, CallIs DEF Rung, Subscribe, Refuse, call
  <2>6. CASE YieldTurn
    BY <1>1, <2>1, <2>6, ResubscriptionIs DEF YieldTurn, Yield, Refuse, Block, call, client
  <2> QED
    BY <1>3, <2>2, <2>3, <2>4, <2>5, <2>6, TaskAsks
<1>4. CASE Deliver
  BY <1>4 DEF Deliver, ReadPublish
<1>5. CASE InsideCall
  <2>1. CASE ConnectOk
    BY <1>2, <2>1, ResubscriptionIs DEF ConnectOk
  <2>2. CASE ResubscribeNext
    BY <1>1, <2>2 DEF ResubscribeNext, Block, client, Calls
  <2>3. CASE ReadSuback
    BY <1>2, <2>3 DEF ReadSuback, Block, caller, call
  <2> QED
    BY <1>2, <1>5, <2>1, <2>2, <2>3 DEF InsideCall, ConnectFail, BackOff, ResubscribeDone, AckLost, YieldReturn,
       SendPing, HandleDisconnect, ReadPingresp, CallbackReturn, Block, caller, call
<1>6. CASE CloudNetwork
  BY <1>6 DEF CloudNetwork, NetworkStep, BrokerReads, Break, BrokerPublishes, caller, call, client
<1> QED
  BY <1>3, <1>4, <1>5, <1>6 DEF CloudNext, cloudVars, mqttVars, caller, call, client

\* The handlers before the first free slot are all there are.
LEMMA RegisteredAreAll ==
  ASSUME TableOfRungs, NEW n \in 0..NumHandlers, Registered(n), NEW i \in Slots, handlers[i] # NoTopic
  PROVE  i <= n
<1>1. NumHandlers \in Nat /\ n \in Int /\ i \in Int /\ i <= NumHandlers /\ Slots = 1..NumHandlers
  BY ClientAssumption DEF Slots
<1> SUFFICES ASSUME n < i PROVE FALSE
  BY <1>1
<1>2. n + 1 \in Slots /\ (n + 1 < i \/ n + 1 = i)
  BY <1>1
<1>3. handlers[n + 1] = NoTopic
  BY <1>2 DEF Registered
<1> QED
  BY <1>2, <1>3 DEF TableOfRungs

\* The loop is past what it has marked only.
LEMMA LoopStep == LinkInv /\ [CloudNext]_cloudVars => LoopMarks'
<1> SUFFICES ASSUME LinkInv, [CloudNext]_cloudVars, wait' \in {"resubscribe", "SUBACK"}, api' # "subscribe",
                    NEW i \in Slots, handlers'[i] # NoTopic
             PROVE  /\ i <= count'
                    /\ i < slot' \/ (i = slot' /\ wait' = "resubscribe") => resubscribed'[i]
  BY DEF LoopMarks
<1>1. /\ handlers' = handlers /\ handlers[i] # NoTopic /\ resubscribed \in [Slots -> BOOLEAN]
      /\ i \in 1..NumHandlers /\ NumHandlers \in Nat /\ slot \in Int
      /\ \A j, k \in Slots : j < k /\ handlers[j] = NoTopic => handlers[k] = NoTopic
  BY LoopIs, ClientAssumption
     DEF LinkInv, TableOfRungs, IInv, ClientTypeOK, CallInv, CallerTypeOK, Slots
<1>2. CASE /\ wait \in {"resubscribe", "SUBACK"} /\ api # "subscribe" /\ UNCHANGED count
           /\ UNCHANGED <<wait, slot, resubscribed>>
  BY <1>1, <1>2 DEF LinkInv, LoopMarks
<1>3. CASE /\ wait = "SUBACK" /\ api # "subscribe" /\ UNCHANGED <<count, slot>>
           /\ resubscribed' = [resubscribed EXCEPT ![slot] = TRUE]
  BY <1>1, <1>3 DEF LinkInv, LoopMarks
<1>4. CASE /\ wait = "resubscribe" /\ api # "subscribe" /\ UNCHANGED <<count, resubscribed>>
           /\ wait' = "SUBACK" /\ IsNextToResubscribe(slot') /\ slot' \in Slots
  <2>1. i <= count /\ (i <= slot => resubscribed[i])
    <3>1. i <= slot => i < slot \/ i = slot
      BY <1>1
    <3> QED
      BY <1>1, <1>4, <3>1 DEF LinkInv, LoopMarks
  <2>2. i > slot /\ i < slot' => resubscribed[i]
    BY <1>1, <1>4, <2>1 DEF IsNextToResubscribe, ToResubscribe
  <2>3. i <= slot \/ i > slot
    BY <1>1
  <2>4. slot' \in Int
    BY <1>1, <1>4 DEF Slots
  <2> QED
    BY <1>1, <1>4, <2>1, <2>2, <2>3, <2>4
<1>5. CASE wait' = "resubscribe" /\ slot' = 0 /\ Registered(count') /\ count' \in 0..NumHandlers
  <2>1. i <= count'
    BY <1>1, <1>5, RegisteredAreAll DEF LinkInv
  <2>2. ~(i < 0) /\ i # 0
    BY <1>1
  <2> QED
    BY <1>5, <2>1, <2>2
<1> QED
  BY <1>2, <1>3, <1>4, <1>5, LoopIs

\* When the resubscription loop finds nothing more to do, it has marked every
\* handler: none is used behind those it goes through.
LEMMA AllMarked ==
  ASSUME LinkInv, wait = "resubscribe", \A i \in Slots : ~IsNextToResubscribe(i), NEW i \in Slots, handlers[i] # NoTopic
  PROVE  resubscribed[i]
<1> DEFINE S == {j \in Slots : j > slot /\ ToResubscribe(j)}
           R == OpToRel(<, Nat)
<1> SUFFICES ASSUME ~resubscribed[i] PROVE FALSE
  OBVIOUS
<1>1. /\ api # "subscribe" /\ slot \in Int /\ NumHandlers \in Nat /\ i \in Int
  BY ClientAssumption DEF LinkInv, IInv, CallInv, CallMatches, Calls, CallerTypeOK, Slots
<1>2. i \in S /\ S \subseteq Nat /\ S \subseteq Slots
  <2>1. i <= count /\ ~(i < slot) /\ i # slot
    BY <1>1 DEF LinkInv, LoopMarks
  <2> QED
    BY <1>1, <2>1 DEF ToResubscribe, Slots
<1>3. IsWellFoundedOn(R, Nat)
  BY NatLessThanWellFounded DEF OpToRel
<1> HIDE DEF S
<1>4. PICK m \in S : \A j \in S : ~(<<j, m>> \in R)
  BY <1>2, <1>3, WFMin
<1>5. \A j \in S : ~(j < m)
  <2> SUFFICES ASSUME NEW j \in S, j < m PROVE FALSE
    OBVIOUS
  <2>1. <<j, m>> \in Nat \X Nat /\ <<j, m>>[1] = j /\ <<j, m>>[2] = m
    BY <1>2
  <2> QED
    BY <1>4, <2>1 DEF OpToRel
<1>6. QED
  BY <1>2, <1>5 DEF IsNextToResubscribe, S

\* How the client comes to be done reconnecting in a session that was there
\* before.
LEMMA ReconnectingEnds ==
  ASSUME LinkInv, [CloudNext]_cloudVars, link = "up",
         Underneath' \in {"IDLE", "YIELD", "SUBSCRIBE"}
  PROVE  Underneath \in {"IDLE", "YIELD", "SUBSCRIBE"} \/ (ResubscribeDone /\ UNCHANGED <<link, linkVars>>)
<1>1. /\ state \in Connected
      /\ cb # "none" <=> state = "WAIT_FOR_CB"
      /\ cb # "none" => wait \in {"SUBACK", "UNSUBACK", "packet"}
      /\ FoundBy(api, wait, Underneath) /\ <<api, wait>> \in Calls
  BY DEF LinkInv, IInv, ConnectedMeansSession, CallInv, CallMatches, InCallback, Reads
<1>2. CASE TaskStep
  <2>1. CASE UNCHANGED mqttVars
    BY <2>1 DEF mqttVars, caller, call, client, network, Underneath, InCallback
  <2>2. cb = "none" /\ api = "none"
    <3>1. api = "none"
      BY <1>2 DEF TaskStep, At, Boot, Booted, NoReport, Report, ReportSent, ReportFailed,
       ConnectionGivenUp, Reconnected, NoRung, RungNotDue, Rung, RungDue, LastRungWaits,
       Subscribed, LadderComplete, YieldTurn
    <3> QED
      BY <3>1 DEF LinkInv, IInv, CallInv, CallMatches, InCallback, Reads, Calls
  <2>3. CASE Connect
    BY <1>1, <2>2, <2>3 DEF Connect, Refuse, call, Return, Resume, NoCall, Block, client, Connected, ValidForConnect,
       Underneath, InCallback
  <2>4. CASE Publish
    BY <2>2, <2>4 DEF Publish, client, call, Underneath, InCallback
  <2>5. CASE Rung
    <3>1. CASE \E fn, rc : Refuse(fn, rc)
      BY <2>2, <3>1 DEF Refuse, call, client, Underneath, InCallback
    <3>2. CASE state \in MaySubscribe
      BY <1>1, <2>2, <3>2 DEF MaySubscribe, Underneath, InCallback
    <3> QED
      BY <2>5, <3>1, <3>2 DEF Rung, Subscribe
  <2>6. CASE YieldTurn
    BY <2>2, <2>6, ResubscriptionIs DEF YieldTurn, Yield, Refuse, call, Block, client, Underneath,
       InCallback, Connected
  <2> QED
    BY <1>2, <2>1, <2>3, <2>4, <2>5, <2>6, TaskAsks
<1>3. CASE Deliver
  BY <1>1, <1>3 DEF Deliver, ReadPublish, Reading, Underneath, InCallback
<1>4. CASE InsideCall
  <2>1. CASE ConnectOk \/ ConnectFail
    BY <1>1, <2>1 DEF ConnectOk, StartResubscription, ConnectFail, FoundBy, Underneath, InCallback, Connected
  <2>2. CASE ResubscribeNext \/ SendPing \/ ReadPingresp
    BY <2>2 DEF ResubscribeNext, SendPing, ReadPingresp, Block, client, caller, call, Underneath,
       InCallback
  <2>3. CASE AckLost
    BY <1>1, <2>3 DEF AckLost, Saved, BackOff, FoundBy, Underneath, InCallback, Calls, Return, Resume, NoCall,
       LinkInv, TaskCalls
  <2>4. CASE YieldReturn \/ HandleDisconnect
    BY <1>1, <2>4 DEF YieldReturn, HandleDisconnect, FoundBy, Underneath, InCallback, Return, Resume, NoCall
  <2>5. CASE ReadSuback
    BY <1>1, <2>5 DEF ReadSuback, Saved, Reading, FoundBy, Underneath, InCallback, Return, Resume, NoCall,
       Block, caller, call
  <2>6. CASE CallbackReturn
    BY <1>1, <2>6 DEF CallbackReturn, Underneath, InCallback
  <2>7. CASE ResubscribeDone
    BY <1>4, <2>7 DEF ResubscribeDone, network, InsideCall
  <2> QED
    BY <1>4, <2>1, <2>2, <2>3, <2>4, <2>5, <2>6, <2>7 DEF InsideCall
<1>5. CASE CloudNetwork
  BY <1>5 DEF CloudNetwork, NetworkStep, BrokerReads, Break, BrokerPublishes, caller, call, client,
       Underneath, InCallback
<1> QED
  BY <1>2, <1>3, <1>4, <1>5 DEF CloudNext, cloudVars, mqttVars, caller, call, client, network, Underneath, InCallback

\* The rungs done are served once the client is done reconnecting.
LEMMA RungsServedStep == LinkInv /\ [CloudNext]_cloudVars => RungsServed'
<1> SUFFICES ASSUME LinkInv, [CloudNext]_cloudVars, link' = "up", Underneath' \in {"IDLE", "YIELD", "SUBSCRIBE"},
                    ~(At("reconnected")' /\ ret'.rc = "SUCCESS"), NEW n \in Done'
             PROVE  Served(Ladder[n])'
  BY DEF RungsServed
<1>1. CASE link = "up"
  <2>1. \A t : Served(t) => Served(t)'
    BY <1>1, ServedKept
  <2>2. CASE Underneath \in {"IDLE", "YIELD", "SUBSCRIBE"}
    <3>1. CASE At("reconnected") /\ ret.rc = "SUCCESS"
      <4>1. ~TaskStep
        <5>1. ~Reconnected
          BY <3>1 DEF Reconnected, Done
        <5> QED
          BY <3>1, <5>1 DEF TaskStep, At, Boot, Booted, NoReport, Report, ReportSent, ReportFailed,
       ConnectionGivenUp, NoRung, RungNotDue, Rung, RungDue, LastRungWaits, Subscribed,
       LadderComplete, YieldTurn
      <4> QED
        BY <3>1, <4>1, BetweenCalls DEF At, caller, call, linkVars
    <3>2. CASE \A m \in Done : Served(Ladder[m])
      <4>1. CASE n \in Done
        BY <2>1, <3>2, <4>1 DEF Served
      <4>2. CASE Subscribed /\ ret.rc = "SUCCESS" /\ n = Callback_count + 1
        <5>1. Served(Ladder[n])
          BY <1>1, <4>2 DEF Subscribed, LinkInv, RungInHand
        <5> QED
          BY <2>1, <5>1 DEF Served
      <4> QED
        BY <4>1, <4>2, DoneGrows
    <3> QED
      BY <1>1, <2>2, <3>1, <3>2 DEF LinkInv, RungsServed
  <2>3. CASE ResubscribeDone /\ UNCHANGED linkVars
    <3>1. n \in Done
      BY <2>3 DEF linkVars, Done
    <3>2. PICK i \in Slots : handlers[i] = Ladder[n]
      BY <3>1 DEF LinkInv, TableOfRungs
    <3>3. Ladder[n] # NoTopic
      BY <3>1, LinkAssumption, ClientAssumption DEF Done, LinkInv, LinkTypeOK
    <3>4. resubscribed[i]
      BY <2>3, <3>2, <3>3, AllMarked DEF ResubscribeDone
    <3>5. Served(Ladder[n])
      BY <1>1, <3>2, <3>4 DEF LinkInv, MarksOfSession
    <3> QED
      BY <2>1, <3>5 DEF Served
  <2> QED
    BY <1>1, <2>2, <2>3, ReconnectingEnds
<1>2. CASE ConnectOk /\ UNCHANGED linkVars
  <2>1. cb = "none" /\ api \in {"connect", "yield"}
    BY <1>2 DEF ConnectOk, StartResubscription, LinkInv, IInv, CallInv, CallMatches, InCallback, Reads,
       TaskCalls
  <2>2. CASE api = "connect"
    <3>1. at = "booting"
      BY <1>2, <2>2 DEF ConnectOk, StartResubscription, Return, Resume, NoCall, At, linkVars, LinkInv, TaskCalls
    <3>2. Done' = {}
      BY <1>2, <3>1 DEF LinkInv, TaskCalls, linkVars, Done
    <3> QED
      BY <3>2
  <2>3. CASE api = "yield"
    BY <1>2, <2>1, <2>3, ResubscriptionIs DEF ConnectOk, Underneath, InCallback
  <2> QED
    BY <2>1, <2>2, <2>3
<1> QED
  BY <1>1, <1>2, SessionComesUp

\* The task over the client stays within its inductive invariant.
THEOREM LinkInvariant == CloudSpec => []LinkInv
<1>1. CloudInit => LinkInv
  <2> SUFFICES ASSUME CloudInit PROVE LinkInv
    OBVIOUS
  <2> USE ClientAssumption, LinkAssumption DEF CloudInit, MqttInit
  <2>1. IInv
    BY InvariantInit
  <2>2. LinkTypeOK
    <3>1. 0 \in 0..Len(Ladder) /\ SubPeriod \in 0..SubPeriod /\ 0 \in 0..SendLimit
      OBVIOUS
    <3> QED
      BY <3>1 DEF LinkTypeOK
  <2>3. TaskCalls /\ RungInHand
    BY DEF TaskCalls, RungInHand, At
  <2>4. Done = {}
    BY DEF Done
  <2>5. TableOfRungs
    BY <2>4 DEF TableOfRungs
  <2>6. MarksOfSession /\ LoopMarks /\ RungsServed
    BY DEF MarksOfSession, LoopMarks, RungsServed
  <2> QED
    BY <2>1, <2>2, <2>3, <2>5, <2>6 DEF LinkInv
<1>2. LinkInv /\ [CloudNext]_cloudVars => LinkInv'
  BY InvariantStep, TaskStepIsClients, LinkTypeStep, TaskCallsStep, RungStep, TableStep, MarksStep, LoopStep, RungsServedStep
  DEF LinkInv
<1> QED
  BY <1>1, <1>2, PTL DEF CloudSpec

\* The task drives the client as MqttClient says a client may be driven: all
\* that holds of the client under any caller holds of it under the task.
THEOREM TaskDrivesClient == CloudSpec => MqttSpec
<1>1. CloudInit => MqttInit
  BY DEF CloudInit
<1> QED
  BY <1>1, LinkInvariant, TaskStepIsClients, PTL DEF CloudSpec, MqttSpec

\* The task's variables keep their types, the counters their bounds.
THEOREM LinkTyped == CloudSpec => []LinkTypeOK
<1>1. LinkInv => LinkTypeOK
  BY DEF LinkInv
<1> QED
  BY <1>1, LinkInvariant, PTL

\* Through any losses, reconnections and late answers, the broker serves what
\* the task believes it subscribed to.
THEOREM LadderIsServed == CloudSpec => []LadderServed
<1>1. LinkInv => LadderServed
  BY DEF LinkInv, RungsServed, LadderServed, At
<1> QED
  BY <1>1, LinkInvariant, PTL

=============================================================================
