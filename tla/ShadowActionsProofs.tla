------------------------- MODULE ShadowActionsProofs -------------------------
(***************************************************************************)
(* The shadow client keeps its promise as long as callbacks call no        *)
(* actions: for any requests, numbers of slots, depth of the calls in      *)
(* progress, failing calls and connections.  For any finite set of         *)
(* requests its records stay typed; and where their topics fit in the list *)
(* of topics, the records and the subscriptions agree until an MQTT call   *)
(* fails, however the calls of the requests that share a topic interleave. *)
(***************************************************************************)
EXTENDS ShadowActions, FiniteSetTheorems, SequenceTheorems, WellFoundedInduction, TLAPS

-----------------------------------------------------------------------------
(* Slots and the stack.                                                    *)

\* A set of numbers that is not empty holds its Min.
LEMMA MinIn ==
  ASSUME NEW S \in SUBSET Nat, S # {}
  PROVE  Min(S) \in S
<1> DEFINE R == {ss \in Nat \X Nat : ss[1] < ss[2]}
<1>1. IsWellFoundedOn(R, Nat)
  BY NatLessThanWellFounded DEF OpToRel
<1>2. PICK x \in S : \A y \in S : ~(<<y, x>> \in R)
  BY <1>1, WFMin
<1>3. ASSUME NEW y \in S PROVE x <= y
  <2>1. <<y, x>> \in Nat \X Nat /\ <<y, x>>[1] = y /\ <<y, x>>[2] = x
    OBVIOUS
  <2>2. ~(y < x)
    BY <1>2, <2>1
  <2>3. QED
    BY <2>2
<1>4. QED
  BY <1>3 DEF Min

Places == 0..MaxTopics
Kinds == {"action", "ack", "expire"}
Calls == {"subscribe", "undo", "callback", "unsubscribe"}
Frames == [kind : Kinds, pc : Calls, on : Answers, r : Requests, slot : 1..MaxAcks, a : Places, b : Places]

\* The last of the calls in progress, and those below it.
LEMMA TopIs ==
  ASSUME stack \in Seq(Frames), stack # <<>>
  PROVE  /\ Len(stack) \in Nat \ {0} /\ DOMAIN stack = 1..Len(stack)
         /\ Top = stack[Len(stack)] /\ Top \in Frames
         /\ Front(stack) \in Seq(Frames) /\ DOMAIN Front(stack) = 1..(Len(stack) - 1)
         /\ \A i \in 1..(Len(stack) - 1) : Front(stack)[i] = stack[i]
         /\ Len(Front(stack)) = Len(stack) - 1
<1>1. Len(stack) \in Nat \ {0} /\ DOMAIN stack = 1..Len(stack)
  BY EmptySeq, LenProperties
<1>2. Top = stack[Len(stack)]
  BY DEF Top, Last
<1>3. Top \in Frames
  BY <1>1, <1>2, ElementOfSeq
<1>4. /\ Front(stack) \in Seq(Frames) /\ Len(Front(stack)) = Len(stack) - 1
      /\ \A i \in 1..(Len(stack) - 1) : Front(stack)[i] = stack[i]
  BY <1>1, SubSeqProperties DEF Front
<1>5. DOMAIN Front(stack) = 1..(Len(stack) - 1)
  BY <1>4, LenProperties
<1>6. QED
  BY <1>1, <1>2, <1>3, <1>4, <1>5

\* One more call.
LEMMA Pushed ==
  ASSUME stack \in Seq(Frames), NEW f \in Frames, stack' = Append(stack, f)
  PROVE  /\ stack' \in Seq(Frames) /\ Len(stack) \in Nat /\ Len(stack') = Len(stack) + 1
         /\ DOMAIN stack = 1..Len(stack) /\ DOMAIN stack' = 1..(Len(stack) + 1)
         /\ \A i \in 1..Len(stack) : stack'[i] = stack[i]
         /\ stack'[Len(stack) + 1] = f
<1>1. Len(stack) \in Nat /\ DOMAIN stack = 1..Len(stack)
  BY LenProperties
<1>2. /\ stack' \in Seq(Frames) /\ Len(stack') = Len(stack) + 1
      /\ \A i \in 1..Len(stack) : stack'[i] = stack[i]
      /\ stack'[Len(stack) + 1] = f
  BY AppendProperties
<1>3. DOMAIN stack' = 1..Len(stack')
  BY <1>2, LenProperties
<1>4. QED
  BY <1>1, <1>2, <1>3

\* The call on top goes on.
LEMMA Replaced ==
  ASSUME stack \in Seq(Frames), stack # <<>>, NEW f \in Frames,
         stack' = [stack EXCEPT ![Len(stack)] = f]
  PROVE  /\ stack' \in Seq(Frames) /\ Len(stack') = Len(stack) /\ DOMAIN stack' = DOMAIN stack
         /\ \A i \in 1..(Len(stack) - 1) : stack'[i] = stack[i]
         /\ stack'[Len(stack)] = f
<1>1. Len(stack) \in Nat \ {0} /\ DOMAIN stack = 1..Len(stack)
  BY TopIs
<1>2. /\ stack' \in Seq(Frames) /\ Len(stack') = Len(stack)
      /\ \A j \in 1..Len(stack) : stack'[j] = IF j = Len(stack) THEN f ELSE stack[j]
  BY <1>1, ExceptSeq
<1>3. DOMAIN stack' = DOMAIN stack
  OBVIOUS
<1>4. \A n \in Nat \ {0} : n \in 1..n /\ \A i \in 1..(n - 1) : i \in 1..n /\ i # n
  OBVIOUS
<1>5. \A i \in 1..(Len(stack) - 1) : stack'[i] = stack[i]
  BY <1>1, <1>2, <1>4, Zenon
<1>6. stack'[Len(stack)] = f
  BY <1>1, <1>2, <1>4, Zenon
<1>7. QED
  BY <1>2, <1>3, <1>5, <1>6

-----------------------------------------------------------------------------
(* The invariant.                                                          *)

\* A call that still has the slot of its request.
Holds(f) == f.kind = "ack" \/ (f.kind = "expire" /\ f.pc = "callback")

FrameOK(f) ==
  /\ f.kind = "action" => /\ f.pc \in {"subscribe", "undo"}
                          /\ rc[f.r] = "none" /\ AckWaitList[f.slot] = Free
  /\ f.kind # "action" => f.pc \in {"callback", "unsubscribe"}
  /\ Holds(f) => AckWaitList[f.slot] = f.r /\ told[f.r] # <<>>
  /\ f.kind = "ack" => f.r \notin inbox /\ decision[f.r] # "none"

\* Only the first call is an action, only the last a callback, and no two have the
\* slot of one request.
StackOK ==
  /\ stack \in Seq(Frames)
  /\ \A i \in DOMAIN stack : FrameOK(stack[i])
  /\ \A i \in DOMAIN stack : stack[i].kind = "action" => i = 1
  /\ \A i \in DOMAIN stack : stack[i].pc = "callback" => i = Len(stack)
  /\ \A i, j \in DOMAIN stack :
       i # j /\ Holds(stack[i]) /\ Holds(stack[j]) => stack[i].r # stack[j].r

RequestsTyped ==
  /\ AckWaitList \in [1..MaxAcks -> Requests \cup {Free}]
  /\ rc \in [Requests -> {"none", "SUCCESS", "FAILURE"}]
  /\ told \in [Requests -> {<<>>} \cup {<<o>> : o \in Outcomes}]
  /\ decision \in [Requests -> Answers \cup {"none"}]
  /\ inbox \subseteq Requests

\* A request waits in one slot at most, and is told only by a call that still has it.
RequestsOK ==
  /\ RequestsTyped
  /\ \A r \in inbox : decision[r] # "none"
  /\ \A r \in Requests : told[r] # <<>> => rc[r] = "SUCCESS"
  /\ \A i \in 1..MaxAcks : AckWaitList[i] # Free => rc[AckWaitList[i]] = "SUCCESS"
  /\ \A i, j \in 1..MaxAcks : AckWaitList[i] # Free /\ AckWaitList[i] = AckWaitList[j] => i = j
  /\ \A i \in 1..MaxAcks : AckWaitList[i] # Free /\ told[AckWaitList[i]] # <<>>
       => \E n \in DOMAIN stack : Holds(stack[n]) /\ stack[n].r = AckWaitList[i]

IInv == StackOK /\ RequestsOK

-----------------------------------------------------------------------------
(* What the application sees.                                              *)

\* The phase of a request that is told is what it was told; else it follows from what
\* the call returned and the list.
LEMMA PhaseIs ==
  ASSUME RequestsTyped, NEW r \in Requests
  PROVE  /\ \A o \in Outcomes : told[r] = <<o>> => Phase(r) = o
         /\ told[r] = <<>> /\ rc[r] = "none" => Phase(r) = "idle"
         /\ told[r] = <<>> /\ rc[r] = "FAILURE" => Phase(r) = "failed"
         /\ told[r] = <<>> /\ rc[r] = "SUCCESS" /\ r \in Waiting => Phase(r) = "waiting"
         /\ told[r] = <<>> /\ rc[r] = "SUCCESS" /\ r \notin Waiting /\ r \in dropped => Phase(r) = "dropped"
         /\ told[r] # <<>> \/ rc[r] = "SUCCESS" => Phase(r) # "idle" /\ Phase(r) # "failed"
<1>1. Len(<<>>) = 0 /\ ~(0 > 1) /\ 0 # 1
  OBVIOUS
<1>2. \A o : Len(<<o>>) = 1 /\ <<o>>[1] = o /\ ~(1 > 1)
  OBVIOUS
<1>3. told[r] = <<>> \/ \E o \in Outcomes : told[r] = <<o>>
  BY DEF RequestsTyped
<1>4. \A o \in Outcomes : told[r] = <<o>> => Phase(r) = o
  BY <1>2, Zenon DEF Phase
<1>5. told[r] = <<>> /\ rc[r] = "none" => Phase(r) = "idle"
  BY <1>1, Zenon DEF Phase
<1>6. told[r] = <<>> /\ rc[r] = "FAILURE" => Phase(r) = "failed"
  BY <1>1, Zenon DEF Phase
<1>7. told[r] = <<>> /\ rc[r] = "SUCCESS" /\ r \in Waiting => Phase(r) = "waiting"
  BY <1>1, Zenon DEF Phase
<1>8. told[r] = <<>> /\ rc[r] = "SUCCESS" /\ r \notin Waiting /\ r \in dropped => Phase(r) = "dropped"
  BY <1>1, Zenon DEF Phase
<1>9. told[r] = <<>> /\ rc[r] = "SUCCESS" /\ r \notin Waiting /\ r \notin dropped => Phase(r) = "lost"
  BY <1>1, Zenon DEF Phase
<1>10. \A o \in Outcomes : o # "idle" /\ o # "failed"
  BY DEF Outcomes, Answers
<1>11. QED
  BY <1>3, <1>4, <1>5, <1>6, <1>7, <1>8, <1>9, <1>10

\* Nothing the phase looks at changes.
LEMMA PhaseStays ==
  ASSUME NEW r \in Requests, told'[r] = told[r], rc'[r] = rc[r],
         (r \in Waiting') <=> (r \in Waiting), (r \in dropped') <=> (r \in dropped)
  PROVE  Phase(r)' = Phase(r)
BY Zenon DEF Phase

\* A request that is told stays what it is told.
LEMMA ToldStays ==
  ASSUME RequestsTyped, RequestsTyped', NEW r \in Requests, told'[r] = told[r], told[r] # <<>>
  PROVE  Phase(r)' = Phase(r)
<1>1. Len(told[r]) = 1
  BY DEF RequestsTyped
<1>2. QED
  BY <1>1, Zenon DEF Phase

\* How one request's phase changes.
LEMMA OnePhase ==
  ASSUME NEW r \in Requests, \A q \in Requests : q # r => Phase(q)' = Phase(q)
  PROVE  phases' = [phases EXCEPT ![r] = Phase(r)']
BY DEF phases

\* When no request changes its phase, the promise sees no change.
LEMMA NoPhase ==
  ASSUME \A q \in Requests : Phase(q)' = Phase(q)
  PROVE  phases' = phases
BY DEF phases

Step == [Promise!PromiseNext]_(Promise!promiseVars)

\* What a step of the promise's frame is.
LEMMA StutterIs == phases' = phases /\ UNCHANGED decision => Step
BY DEF Step, Promise!promiseVars

-----------------------------------------------------------------------------
(* How a step may change the requests.                                     *)

\* What is to be shown of the stack after a step.
LEMMA StackOKNext ==
  ASSUME stack' \in Seq(Frames),
         \A i \in DOMAIN stack' : \A g : g = stack'[i] => FrameOK(g)',
         \A i \in DOMAIN stack' : stack'[i].kind = "action" => i = 1,
         \A i \in DOMAIN stack' : stack'[i].pc = "callback" => i = Len(stack'),
         \A i, j \in DOMAIN stack' :
           i # j /\ Holds(stack'[i]) /\ Holds(stack'[j]) => stack'[i].r # stack'[j].r
  PROVE  StackOK'
BY Zenon DEF StackOK, FrameOK, Holds

\* No request changes, and the one call in progress is an action.
LEMMA ActionGoesOn ==
  ASSUME IInv, UNCHANGED <<AckWaitList, rc, told, decision, inbox, dropped>>,
         NEW f \in Frames, FrameOK(f), f.kind = "action",
         stack' \in Seq(Frames), Len(stack') = 1, stack'[1] = f,
         \A i \in DOMAIN stack : stack[i].kind = "action"
  PROVE  IInv' /\ Step
<1>1. DOMAIN stack' = {1} /\ \A i \in DOMAIN stack' : stack'[i] = f
  <2>1. DOMAIN stack' = 1..1
    BY LenProperties
  <2>2. QED
    BY <2>1
<1>2. FrameOK(f)' /\ f.kind = "action" /\ f.pc # "callback" /\ ~Holds(f)
  BY DEF FrameOK, Holds
<1>3. StackOK'
  BY <1>1, <1>2 DEF StackOK, FrameOK, Holds
<1>4. RequestsTyped'
  BY DEF IInv, RequestsOK, RequestsTyped
<1>5. \A i \in 1..MaxAcks : AckWaitList[i] # Free => told[AckWaitList[i]] = <<>>
  BY DEF IInv, RequestsOK, Holds
<1>6. RequestsOK'
  BY <1>4, <1>5 DEF IInv, RequestsOK
<1>7. \A q \in Requests : Phase(q)' = Phase(q)
  BY PhaseStays DEF Waiting
<1>8. phases' = phases
  BY <1>7, NoPhase
<1>9. QED
  BY <1>3, <1>6, <1>8, StutterIs DEF IInv

\* An action ends: its request is refused, or waits.
LEMMA ActionEnds ==
  ASSUME IInv, \A i \in DOMAIN stack : stack[i].kind = "action", stack' = <<>>,
         UNCHANGED <<told, decision, inbox, dropped>>,
         NEW r \in Requests, rc[r] = "none",
         \/ rc' = [rc EXCEPT ![r] = "FAILURE"] /\ UNCHANGED AckWaitList
         \/ /\ rc' = [rc EXCEPT ![r] = "SUCCESS"]
            /\ \E slot \in 1..MaxAcks : /\ AckWaitList[slot] = Free
                                        /\ AckWaitList' = [AckWaitList EXCEPT ![slot] = r]
  PROVE  IInv' /\ Step
<1>1. RequestsTyped /\ told[r] = <<>> /\ r # Free
  BY FreeAssumption DEF IInv, RequestsOK
<1>2. \A i \in 1..MaxAcks : AckWaitList[i] # Free => AckWaitList[i] \in Requests /\ AckWaitList[i] # r
  BY DEF IInv, RequestsOK, RequestsTyped
<1>3. \A i \in 1..MaxAcks : AckWaitList[i] # Free => told[AckWaitList[i]] = <<>>
  BY DEF IInv, RequestsOK, Holds
<1>4. RequestsTyped'
  BY <1>1 DEF RequestsTyped
<1>5. StackOK'
  BY DEF StackOK
<1>6. /\ rc'[r] # "none" /\ \A q \in Requests : q # r => rc'[q] = rc[q]
      /\ \A i \in 1..MaxAcks : AckWaitList'[i] # Free =>
           AckWaitList'[i] = AckWaitList[i] \/ (AckWaitList'[i] = r /\ rc'[r] = "SUCCESS")
      /\ \A i, j \in 1..MaxAcks : AckWaitList'[i] = r /\ AckWaitList'[j] = r => i = j
      /\ \A i \in 1..MaxAcks : AckWaitList[i] # Free => AckWaitList'[i] = AckWaitList[i]
  <2>1. /\ DOMAIN rc = Requests /\ DOMAIN AckWaitList = 1..MaxAcks
        /\ \A i \in 1..MaxAcks : AckWaitList[i] # r
    BY <1>1, <1>2 DEF RequestsTyped
  <2>2. CASE rc' = [rc EXCEPT ![r] = "FAILURE"] /\ UNCHANGED AckWaitList
    BY <2>1, <2>2
  <2>3. ASSUME NEW slot \in 1..MaxAcks, AckWaitList[slot] = Free, rc' = [rc EXCEPT ![r] = "SUCCESS"],
               AckWaitList' = [AckWaitList EXCEPT ![slot] = r]
        PROVE  /\ rc'[r] = "SUCCESS" /\ \A q \in Requests : q # r => rc'[q] = rc[q]
               /\ \A i \in 1..MaxAcks : AckWaitList'[i] = IF i = slot THEN r ELSE AckWaitList[i]
    BY <2>1, <2>3
  <2>4. ASSUME NEW slot \in 1..MaxAcks, AckWaitList[slot] = Free, rc'[r] = "SUCCESS",
               \A i \in 1..MaxAcks : AckWaitList'[i] = IF i = slot THEN r ELSE AckWaitList[i]
        PROVE  /\ \A i \in 1..MaxAcks : AckWaitList'[i] # Free =>
                    AckWaitList'[i] = AckWaitList[i] \/ (AckWaitList'[i] = r /\ rc'[r] = "SUCCESS")
               /\ \A i, j \in 1..MaxAcks : AckWaitList'[i] = r /\ AckWaitList'[j] = r => i = j
               /\ \A i \in 1..MaxAcks : AckWaitList[i] # Free => AckWaitList'[i] = AckWaitList[i]
    BY <2>1, <2>4
  <2>5. CASE /\ rc' = [rc EXCEPT ![r] = "SUCCESS"]
             /\ \E slot \in 1..MaxAcks : /\ AckWaitList[slot] = Free
                                         /\ AckWaitList' = [AckWaitList EXCEPT ![slot] = r]
    BY <2>3, <2>4, <2>5
  <2>6. QED
    BY <2>2, <2>5
<1>7. RequestsOK'
  <2>1. \A q \in Requests : told'[q] # <<>> => rc'[q] = "SUCCESS"
    BY <1>1, <1>6 DEF IInv, RequestsOK
  <2>2. \A i \in 1..MaxAcks : AckWaitList'[i] # Free => rc'[AckWaitList'[i]] = "SUCCESS"
    BY <1>2, <1>6 DEF IInv, RequestsOK
  <2>3. \A i, j \in 1..MaxAcks :
          AckWaitList'[i] # Free /\ AckWaitList'[i] = AckWaitList'[j] => i = j
    BY <1>2, <1>6 DEF IInv, RequestsOK
  <2>4. \A i \in 1..MaxAcks : AckWaitList'[i] # Free => told'[AckWaitList'[i]] = <<>>
    BY <1>1, <1>3, <1>6
  <2>5. QED
    BY <1>4, <2>1, <2>2, <2>3, <2>4 DEF IInv, RequestsOK
<1>8. \A q \in Requests : q # r => Phase(q)' = Phase(q)
  <2> SUFFICES ASSUME NEW q \in Requests, q # r PROVE Phase(q)' = Phase(q)
    OBVIOUS
  <2>1. (q \in Waiting') <=> (q \in Waiting)
    BY <1>2, <1>6, FreeAssumption DEF Waiting
  <2>2. QED
    BY <1>6, <2>1, PhaseStays
<1>9. Phase(r) = "idle" /\ (Phase(r)' = "waiting" \/ Phase(r)' = "failed")
  <2>1. Phase(r) = "idle"
    BY <1>1, PhaseIs
  <2>2. CASE rc'[r] = "FAILURE"
    <3>1. told'[r] = <<>>
      BY <1>1
    <3>2. Len(<<>>) = 0
      OBVIOUS
    <3>3. Phase(r)' = "failed"
      BY <2>2, <3>1, <3>2 DEF Phase
    <3>4. QED
      BY <2>1, <3>3
  <2>3. CASE rc'[r] = "SUCCESS" /\ r \in Waiting'
    <3>1. told'[r] = <<>>
      BY <1>1
    <3>2. Len(<<>>) = 0
      OBVIOUS
    <3>3. Phase(r)' = "waiting"
      BY <2>3, <3>1, <3>2 DEF Phase
    <3>4. QED
      BY <2>1, <3>3
  <2>4. QED
    BY <1>1, <2>2, <2>3 DEF Waiting, RequestsTyped
<1>10. phases[r] = "idle" /\ phases' = [phases EXCEPT ![r] = Phase(r)']
  BY <1>8, <1>9, OnePhase DEF phases
<1>11. Promise!Ask(r)
  BY <1>9, <1>10 DEF Promise!Ask
<1>12. QED
  BY <1>5, <1>7, <1>11 DEF IInv, Step, Promise!PromiseNext

\* While the client reads, no callback runs.
LEMMA NoCallback ==
  ASSUME IInv, Blocked
  PROVE  \A i \in DOMAIN stack : stack[i].pc # "callback"
<1>1. \A i \in DOMAIN stack : stack[i].pc = "callback" => i = Len(stack)
  BY DEF IInv, StackOK
<1>2. stack # <<>> => Top = stack[Len(stack)] /\ Top.pc # "callback"
  BY TopIs DEF IInv, StackOK, Blocked
<1>3. QED
  BY <1>1, <1>2

\* A callback is told.
LEMMA OutcomeTold ==
  ASSUME IInv, Blocked, NEW slot \in 1..MaxAcks, NEW r \in Requests, AckWaitList[slot] = r, told[r] = <<>>,
         NEW kind \in {"ack", "expire"}, NEW o \in Outcomes, o = "timeout" \/ o = decision[r],
         CallBack(kind, r, slot, o), UNCHANGED <<AckWaitList, rc, decision, dropped>>, inbox' \subseteq inbox,
         kind = "ack" => r \notin inbox' /\ decision[r] # "none"
  PROVE  IInv' /\ Step
<1> DEFINE f == [kind |-> kind, pc |-> "callback", on |-> "accepted", r |-> r, slot |-> slot,
                 a |-> 0, b |-> 0]
<1>1. RequestsTyped /\ r # Free /\ rc[r] = "SUCCESS" /\ stack \in Seq(Frames)
  BY FreeAssumption DEF IInv, RequestsOK, StackOK
<1>2. /\ told' = [told EXCEPT ![r] = <<o>>] /\ stack' = Append(stack, f)
      /\ told'[r] = <<o>> /\ \A q \in Requests : q # r => told'[q] = told[q]
  <2>1. Append(<<>>, o) = <<o>>
    OBVIOUS
  <2>2. told' = [told EXCEPT ![r] = Append(told[r], o)] /\ stack' = Append(stack, f)
    BY DEF CallBack
  <2>3. QED
    BY <1>1, <2>1, <2>2 DEF RequestsTyped
<1>3. /\ f \in Frames /\ f.kind = kind /\ f.pc = "callback" /\ f.r = r /\ f.slot = slot /\ Holds(f)
  <2>1. 0 \in Places
    BY ShadowAssumption DEF Places
  <2>2. QED
    BY <2>1 DEF Frames, Kinds, Calls, Answers, Holds
<1> HIDE DEF f
<1>4. /\ stack' \in Seq(Frames) /\ Len(stack) \in Nat /\ Len(stack') = Len(stack) + 1
      /\ DOMAIN stack = 1..Len(stack) /\ DOMAIN stack' = 1..(Len(stack) + 1)
      /\ \A i \in 1..Len(stack) : stack'[i] = stack[i]
      /\ stack'[Len(stack) + 1] = f
  BY <1>1, <1>2, <1>3, Pushed
<1>5. \A i \in DOMAIN stack' : \/ i = Len(stack) + 1 /\ stack'[i] = f
                               \/ i \in DOMAIN stack /\ stack'[i] = stack[i]
  BY <1>4
<1>6. \A i \in DOMAIN stack : i \in DOMAIN stack' /\ stack'[i] = stack[i]
  BY <1>4
<1>7. Len(stack) + 1 \in DOMAIN stack' /\ \A i \in DOMAIN stack : i # Len(stack) + 1
  BY <1>4
<1>8. <<o>> # <<>>
  OBVIOUS
<1>9. RequestsTyped'
  BY <1>1, <1>2 DEF RequestsTyped
<1>10. StackOK'
  <2>1. FrameOK(f)'
    BY <1>2, <1>3, <1>8 DEF FrameOK
  <2>2. ASSUME NEW i \in DOMAIN stack, NEW g, g = stack[i] PROVE FrameOK(g)'
    <3>1. FrameOK(g) /\ g \in Frames
      BY <1>1, <1>4, <2>2, ElementOfSeq DEF IInv, StackOK
    <3>2. told[g.r] # <<>> => told'[g.r] # <<>>
      BY <1>2, <1>8, <3>1 DEF Frames
    <3>3. QED
      BY <3>1, <3>2 DEF FrameOK, Holds
  <2>3. \A i \in DOMAIN stack' : \A g : g = stack'[i] => FrameOK(g)'
    BY <1>5, <2>1, <2>2
  <2>4. \A i \in DOMAIN stack : stack[i].pc # "callback" /\ (stack[i].kind = "action" => i = 1)
    BY NoCallback DEF IInv, StackOK
  <2>5. \A i \in DOMAIN stack' : stack'[i].kind = "action" => i = 1
    BY <1>3, <1>5, <2>4
  <2>6. \A i \in DOMAIN stack' : stack'[i].pc = "callback" => i = Len(stack')
    BY <1>4, <1>5, <2>4
  <2>7. \A i \in DOMAIN stack : Holds(stack[i]) => stack[i].r # r
    BY DEF IInv, StackOK, FrameOK
  <2>8. \A i, j \in DOMAIN stack' :
          i # j /\ Holds(stack'[i]) /\ Holds(stack'[j]) => stack'[i].r # stack'[j].r
    BY <1>3, <1>5, <2>7 DEF IInv, StackOK
  <2>9. QED
    BY <1>4, <2>3, <2>5, <2>6, <2>8, StackOKNext
<1>11. RequestsOK'
  <2>1. \A q \in Requests : told'[q] # <<>> => rc'[q] = "SUCCESS"
    BY <1>1, <1>2 DEF IInv, RequestsOK
  <2>2. ASSUME NEW i \in 1..MaxAcks, AckWaitList[i] # Free, told'[AckWaitList[i]] # <<>>
        PROVE  \E n \in DOMAIN stack' : Holds(stack'[n]) /\ stack'[n].r = AckWaitList[i]
    <3>1. CASE AckWaitList[i] = r
      BY <1>3, <1>4, <1>7, <3>1
    <3>2. CASE AckWaitList[i] # r
      <4>1. AckWaitList[i] \in Requests /\ told[AckWaitList[i]] # <<>>
        BY <1>1, <1>2, <2>2, <3>2 DEF RequestsTyped
      <4>2. PICK n \in DOMAIN stack : Holds(stack[n]) /\ stack[n].r = AckWaitList[i]
        BY <2>2, <4>1 DEF IInv, RequestsOK
      <4>3. QED
        BY <1>6, <4>2
    <3>3. QED
      BY <3>1, <3>2
  <2>3. QED
    BY <1>9, <2>1, <2>2 DEF IInv, RequestsOK, Holds
<1>12. \A q \in Requests : q # r => Phase(q)' = Phase(q)
  BY <1>2, PhaseStays DEF Waiting
<1>13. Phase(r) = "waiting" /\ Phase(r)' = o
  <2>1. r \in Waiting
    BY DEF Waiting
  <2>2. Len(<<o>>) = 1 /\ <<o>>[1] = o /\ ~(1 > 1)
    OBVIOUS
  <2>3. Phase(r)' = o
    BY <1>2, <2>2, Zenon DEF Phase
  <2>4. QED
    BY <1>1, <2>1, <2>3, PhaseIs
<1>14. phases[r] = "waiting" /\ phases' = [phases EXCEPT ![r] = o]
  BY <1>12, <1>13, OnePhase DEF phases
<1>15. o \in Promise!Outcomes
  BY DEF Outcomes, Answers, Promise!Outcomes, Promise!Answers
<1>16. Promise!Tell(r)
  BY <1>14, <1>15 DEF Promise!Tell
<1>17. QED
  BY <1>10, <1>11, <1>16 DEF IInv, Step, Promise!PromiseNext

\* The call on top, told already, goes on: to its next topic, or back to the call below.
LEMMA CallGoesOn ==
  ASSUME IInv, stack # <<>>, Top.kind # "action",
         NEW look, look.pc \in {"done", "unsubscribe"}, look.on \in Answers, look.a \in Places,
         GoOn(look), UNCHANGED <<rc, told, decision, inbox, dropped>>
  PROVE  IInv' /\ Step
<1>a. PICK n : n = Len(stack)
  OBVIOUS
<1>b. PICK f : f = Top
  OBVIOUS
<1>c. PICK g : g = [Top EXCEPT !.pc = look.pc, !.on = look.on, !.a = look.a]
  OBVIOUS
<1> DEFINE frees == IF Top.kind = "ack" THEN look.pc = "done" ELSE Top.pc = "callback"
<1>1. RequestsTyped /\ stack \in Seq(Frames)
  BY DEF IInv, RequestsOK, StackOK
<1>2. /\ n \in Nat \ {0} /\ DOMAIN stack = 1..n /\ f = stack[n] /\ f \in Frames
      /\ Front(stack) \in Seq(Frames) /\ DOMAIN Front(stack) = 1..(n - 1) /\ Len(Front(stack)) = n - 1
      /\ \A i \in 1..(n - 1) : Front(stack)[i] = stack[i]
  BY <1>a, <1>b, <1>1, TopIs
<1>3. look.pc = "unsubscribe" =>
        g \in Frames /\ g.kind = f.kind /\ g.r = f.r /\ g.slot = f.slot /\ g.pc = "unsubscribe"
  BY <1>b, <1>c, <1>2 DEF Frames, Calls
<1>4. /\ stack' = IF look.pc = "done" THEN Front(stack) ELSE [stack EXCEPT ![n] = g]
      /\ AckWaitList' = IF frees THEN [AckWaitList EXCEPT ![f.slot] = Free] ELSE AckWaitList
  BY <1>a, <1>b, <1>c DEF GoOn
<1>5. FrameOK(f) /\ f.r \in Requests /\ f.slot \in 1..MaxAcks /\ f.kind \in {"ack", "expire"}
  <2>1. f.r \in Requests /\ f.slot \in 1..MaxAcks /\ f.kind \in Kinds
    BY <1>2 DEF Frames
  <2>2. FrameOK(stack[n])
    BY <1>2 DEF IInv, StackOK
  <2>3. QED
    BY <1>b, <1>2, <2>1, <2>2 DEF Kinds
<1>6. frees => Holds(f) /\ AckWaitList[f.slot] = f.r /\ told[f.r] # <<>>
  BY <1>b, <1>5 DEF FrameOK, Holds
<1>7. ~frees => look.pc = "unsubscribe" \/ ~Holds(f)
  BY <1>b, <1>5 DEF Holds
<1>8. look.pc = "unsubscribe" => (Holds(g) <=> Holds(f) /\ ~frees)
  BY <1>b, <1>3, <1>5 DEF Holds
<1> DEFINE freed == frees
<1>9. AckWaitList' = IF freed THEN [AckWaitList EXCEPT ![f.slot] = Free] ELSE AckWaitList
  BY <1>4
<1>10. /\ freed => Holds(f) /\ AckWaitList[f.slot] = f.r /\ told[f.r] # <<>>
       /\ ~freed => look.pc = "unsubscribe" \/ ~Holds(f)
       /\ look.pc = "unsubscribe" => (Holds(g) <=> Holds(f) /\ ~freed)
  BY <1>6, <1>7, <1>8
<1> HIDE DEF freed
\* The stack.
<1>11. /\ stack' \in Seq(Frames)
       /\ \A i \in 1..(n - 1) : i \in DOMAIN stack' /\ stack'[i] = stack[i]
       /\ \A i \in DOMAIN stack' : \/ i \in 1..(n - 1)
                                   \/ i = n /\ look.pc = "unsubscribe" /\ stack'[n] = g
       /\ look.pc = "unsubscribe" => n \in DOMAIN stack' /\ stack'[n] = g
       /\ \A i \in 1..(n - 1) : i \in DOMAIN stack /\ i # n
  <2>1. CASE look.pc = "done"
    <3>1. stack' = Front(stack)
      BY <1>4, <2>1
    <3>2. \A m \in Nat \ {0} : \A i \in 1..(m - 1) : i \in 1..m /\ i # m
      OBVIOUS
    <3>3. look.pc # "unsubscribe"
      BY <2>1
    <3>4. QED
      BY <1>2, <3>1, <3>2, <3>3, Zenon
  <2>2. CASE look.pc = "unsubscribe"
    <3>1. stack' = [stack EXCEPT ![Len(stack)] = g] /\ g \in Frames
      BY <1>a, <1>3, <1>4, <2>2
    <3>2. /\ stack' \in Seq(Frames) /\ DOMAIN stack' = 1..n
          /\ \A i \in 1..(n - 1) : stack'[i] = stack[i]
          /\ stack'[n] = g
      BY <1>a, <1>1, <1>2, <3>1, Replaced
    <3>3. \A m \in Nat \ {0} : m \in 1..m /\ (\A i \in 1..(m - 1) : i \in 1..m /\ i # m)
                               /\ \A i \in 1..m : i \in 1..(m - 1) \/ i = m
      OBVIOUS
    <3>4. QED
      BY <1>2, <2>2, <3>2, <3>3, Zenon
  <2>3. QED
    BY <2>1, <2>2
<1>12. \A i \in DOMAIN stack : i # n => i \in 1..(n - 1)
  BY <1>2
<1>13. n \in DOMAIN stack /\ stack[n] = f
  BY <1>2
\* The list.
<1>14. /\ \A i \in 1..MaxAcks : AckWaitList'[i] # Free => AckWaitList'[i] = AckWaitList[i] /\ ~(freed /\ i = f.slot)
       /\ \A i \in 1..MaxAcks : ~(freed /\ i = f.slot) => AckWaitList'[i] = AckWaitList[i]
  BY <1>1, <1>5, <1>9 DEF RequestsTyped
<1>15. RequestsTyped'
  BY <1>1, <1>9 DEF RequestsTyped
<1>16. ASSUME NEW i \in 1..(n - 1), NEW h, h = stack[i] PROVE FrameOK(h)' /\ h.pc # "callback"
  <2>1. FrameOK(h) /\ h \in Frames
    BY <1>1, <1>11, <1>16, ElementOfSeq, <1>2 DEF IInv, StackOK
  <2>2. h.pc # "callback"
    BY <1>a, <1>2, <1>11, <1>16 DEF IInv, StackOK
  <2>3. h.slot \in 1..MaxAcks
    BY <2>1 DEF Frames
  <2>4. Holds(h) => AckWaitList'[h.slot] = AckWaitList[h.slot]
    <3>1. SUFFICES ASSUME Holds(h), freed, h.slot = f.slot PROVE FALSE
      BY <1>14, <2>3
    <3>2. h.r # f.r
      BY <1>10, <1>11, <1>13, <1>16, <3>1 DEF IInv, StackOK
    <3>3. QED
      BY <1>10, <2>1, <3>1, <3>2 DEF FrameOK
  <2>5. AckWaitList[h.slot] = Free => AckWaitList'[h.slot] = Free
    BY <1>14, <2>3
  <2>6. FrameOK(h)'
    BY <2>1, <2>4, <2>5 DEF FrameOK, Holds
  <2>7. QED
    BY <2>2, <2>6
<1>17. look.pc = "unsubscribe" => FrameOK(g)' /\ g.kind # "action" /\ g.pc # "callback"
  <2> SUFFICES ASSUME look.pc = "unsubscribe"
               PROVE  FrameOK(g)' /\ g.kind # "action" /\ g.pc # "callback"
    OBVIOUS
  <2>1. g.kind = f.kind /\ g.r = f.r /\ g.slot = f.slot /\ g.pc = "unsubscribe"
    BY <1>3
  <2>2. Holds(g) => AckWaitList'[g.slot] = g.r /\ told'[g.r] # <<>>
    <3>1. SUFFICES ASSUME Holds(g) PROVE AckWaitList'[g.slot] = g.r /\ told'[g.r] # <<>>
      OBVIOUS
    <3>2. Holds(f) /\ ~freed
      BY <1>10, <3>1
    <3>3. QED
      BY <1>5, <1>9, <2>1, <3>2 DEF FrameOK
  <2>3. QED
    BY <1>5, <2>1, <2>2 DEF FrameOK
<1>18. StackOK'
  <2>1. \A i \in DOMAIN stack' : \A h : h = stack'[i] =>
          /\ FrameOK(h)'
          /\ h.pc # "callback"
          /\ h.kind = "action" => i = 1
    <3>1. \A i \in 1..(n - 1) : stack[i].kind = "action" => i = 1
      BY <1>11 DEF IInv, StackOK
    <3>2. QED
      BY <1>11, <1>16, <1>17, <3>1
  <2>2. ASSUME NEW i \in DOMAIN stack', NEW j \in DOMAIN stack', i # j, Holds(stack'[i]), Holds(stack'[j])
        PROVE  stack'[i].r # stack'[j].r
    <3>1. \A k \in DOMAIN stack' : Holds(stack'[k]) =>
            k \in DOMAIN stack /\ Holds(stack[k]) /\ stack'[k].r = stack[k].r
      BY <1>3, <1>10, <1>11, <1>13
    <3>2. QED
      BY <2>2, <3>1 DEF IInv, StackOK
  <2>3. QED
    BY <1>11, <2>1, <2>2, StackOKNext
<1>19. RequestsOK'
  <2>1. ASSUME NEW i \in 1..MaxAcks, AckWaitList'[i] # Free, told'[AckWaitList'[i]] # <<>>
        PROVE  \E k \in DOMAIN stack' : Holds(stack'[k]) /\ stack'[k].r = AckWaitList'[i]
    <3>1. AckWaitList'[i] = AckWaitList[i] /\ ~(freed /\ i = f.slot)
      BY <1>14, <2>1
    <3>2. PICK k \in DOMAIN stack : Holds(stack[k]) /\ stack[k].r = AckWaitList[i]
      BY <2>1, <3>1 DEF IInv, RequestsOK
    <3>3. CASE k # n
      BY <1>11, <1>12, <3>1, <3>2, <3>3
    <3>4. CASE k = n /\ freed
      <4>1. AckWaitList[f.slot] = AckWaitList[i] /\ i # f.slot
        BY <1>10, <1>13, <3>1, <3>2, <3>4
      <4>2. QED
        BY <1>5, <2>1, <3>1, <4>1 DEF IInv, RequestsOK
    <3>5. CASE k = n /\ ~freed
      BY <1>3, <1>10, <1>11, <1>13, <3>1, <3>2, <3>5
    <3>6. QED
      BY <3>3, <3>4, <3>5
  <2>2. \A i \in 1..MaxAcks : AckWaitList'[i] # Free => rc'[AckWaitList'[i]] = "SUCCESS"
    BY <1>14 DEF IInv, RequestsOK
  <2>3. \A i, j \in 1..MaxAcks : AckWaitList'[i] # Free /\ AckWaitList'[i] = AckWaitList'[j] => i = j
    BY <1>14 DEF IInv, RequestsOK
  <2>4. (\A r \in inbox : decision[r] # "none") /\ \A r \in Requests : told[r] # <<>> => rc[r] = "SUCCESS"
    BY DEF IInv, RequestsOK
  <2>5. QED
    BY <1>15, <2>1, <2>2, <2>3, <2>4 DEF RequestsOK, Holds
<1>20. ASSUME NEW q \in Requests PROVE Phase(q)' = Phase(q)
  <2>1. CASE told[q] # <<>>
    BY <1>1, <1>15, <2>1, ToldStays
  <2>2. CASE told[q] = <<>>
    <3>1. q # Free /\ (freed => AckWaitList[f.slot] # q)
      BY <1>10, <2>2, FreeAssumption
    <3>2. q \in Waiting' <=> q \in Waiting
      BY <1>14, <3>1 DEF Waiting
    <3>3. QED
      BY <3>2, PhaseStays
  <2>3. QED
    BY <2>1, <2>2
<1>21. phases' = phases
  BY <1>20, NoPhase
<1>22. QED
  BY <1>18, <1>19, <1>21, StutterIs DEF IInv

-----------------------------------------------------------------------------
(* The actions of the specification, one by one.                           *)

\* A look ends the call or leads to an unsubscribe of one of the slots.
LEMMA LookIs ==
  ASSUME NEW list, NEW r, NEW answer \in Answers, NEW look, look = Look(list, r, answer)
  PROVE  look.pc \in {"done", "unsubscribe"} /\ look.on \in Answers /\ look.a \in Places
<1> DEFINE found == {i \in 1..MaxTopics : ~list[i].isFree /\ list[i].topic = Topic(r, answer)}
<1>1. MaxTopics \in Nat
  BY ShadowAssumption
<1>2. found # {} => Min(found) \in Places
  <2>1. found \in SUBSET Nat /\ \A i \in found : i \in Places
    BY <1>1 DEF Places
  <2>2. QED
    BY <2>1, MinIn
<1>3. 0 \in Places
  BY <1>1 DEF Places
<1>4. \/ /\ found # {}
         /\ look = [pc |-> "unsubscribe", on |-> answer, a |-> Min(found), list |-> list]
      \/ look = [pc |-> "done", on |-> answer, a |-> 0,
                 list |-> IF found # {} /\ list[Min(found)].count > 1
                          THEN [list EXCEPT ![Min(found)].count = @ - 1] ELSE list]
  BY Zenon DEF Look
<1> HIDE DEF found
<1>5. QED
  BY <1>2, <1>3, <1>4

\* Every action of the client belongs to the call on top.
LEMMA TopCall ==
  ASSUME IInv, stack # <<>>
  PROVE  /\ Top \in Frames /\ FrameOK(Top)
         /\ Top.kind = "action" => /\ Len(stack) = 1 /\ Front(stack) = <<>>
                                   /\ \A i \in DOMAIN stack : stack[i].kind = "action"
<1>1. /\ Len(stack) \in Nat \ {0} /\ DOMAIN stack = 1..Len(stack)
      /\ Top = stack[Len(stack)] /\ Top \in Frames
      /\ Front(stack) \in Seq(Frames) /\ Len(Front(stack)) = Len(stack) - 1
  BY TopIs DEF IInv, StackOK
<1>2. FrameOK(Top)
  BY <1>1 DEF IInv, StackOK
<1>3. Top.kind = "action" => Len(stack) = 1
  BY <1>1 DEF IInv, StackOK
<1>4. Len(stack) = 1 => /\ \A i \in DOMAIN stack : stack[i] = Top
                        /\ Front(stack) = <<>>
  BY <1>1, EmptySeq
<1>5. QED
  BY <1>1, <1>2, <1>3, <1>4

\* After its callback a request is taken off the list, and was told.
LEMMA CallbackReturnsOK == IInv /\ CallbackReturns => IInv' /\ Step
<1> SUFFICES ASSUME IInv, CallbackReturns PROVE IInv' /\ Step
  OBVIOUS
<1>1. stack # <<>> /\ Top.pc = "callback" /\ UNCHANGED <<rc, told, decision, inbox, dropped>>
  BY DEF CallbackReturns, At, service, ghosts
<1>2. Top.kind # "action"
  BY <1>1, TopCall DEF FrameOK
<1>3. PICK look : look = LookBoth(SubscriptionList, Top.r) /\ GoOn(look)
  BY DEF CallbackReturns
<1>4. look.pc \in {"done", "unsubscribe"} /\ look.on \in Answers /\ look.a \in Places
  <2>1. \A list, r, answer, l : answer \in Answers /\ l = Look(list, r, answer)
          => l.pc \in {"done", "unsubscribe"} /\ l.on \in Answers /\ l.a \in Places
    BY LookIs
  <2>2. "accepted" \in Answers /\ "rejected" \in Answers
    BY DEF Answers
  <2>3. \E list, answer : answer \in Answers /\ look = Look(list, Top.r, answer)
    BY <1>3, <2>2, Zenon DEF LookBoth
  <2>4. QED
    BY <2>1, <2>3, Zenon
<1>5. QED
  BY <1>1, <1>2, <1>3, <1>4, CallGoesOn

\* An unsubscribe, also a failing one, tells nobody anything.
LEMMA UnsubscribeOK ==
  ASSUME IInv, NEW answer \in Answers, Unsubscribe(answer)
  PROVE  IInv' /\ Step
<1>1. stack # <<>> /\ Top.pc = "unsubscribe" /\ UNCHANGED <<rc, told, decision, inbox, dropped>>
  BY DEF Unsubscribe, At, service
<1>2. Top.kind # "action"
  BY <1>1, TopCall DEF FrameOK
<1>3. PICK look, list : look = LookOn(list, answer) /\ GoOn(look)
  BY DEF Unsubscribe
<1>4. look.pc \in {"done", "unsubscribe"} /\ look.on \in Answers /\ look.a \in Places
  <2>1. "rejected" \in Answers /\ 0 \in Places
    BY ShadowAssumption DEF Answers, Places
  <2>2. CASE look = Look(list, Top.r, "rejected")
    BY <2>1, <2>2, LookIs
  <2>3. CASE look = [pc |-> "done", on |-> answer, a |-> 0, list |-> list]
    BY <2>1, <2>3
  <2>4. QED
    BY <1>3, <2>2, <2>3 DEF LookOn
<1>5. QED
  BY <1>1, <1>2, <1>3, <1>4, CallGoesOn

\* An action goes on to its next MQTT call.
LEMMA GotoOK ==
  ASSUME IInv, stack # <<>>, Top.kind = "action", NEW pc \in {"subscribe", "undo"}, NEW answer \in Answers,
         Goto(pc, answer), UNCHANGED <<AckWaitList, rc, told, decision, inbox, dropped>>
  PROVE  IInv' /\ Step
<1>1. PICK g : g = [Top EXCEPT !.pc = pc, !.on = answer]
  OBVIOUS
<1>2. /\ Len(stack) \in Nat \ {0} /\ DOMAIN stack = 1..Len(stack) /\ stack \in Seq(Frames)
      /\ Top = stack[Len(stack)]
  BY TopIs DEF IInv, StackOK
<1>3. Len(stack) = 1 /\ FrameOK(Top) /\ Top \in Frames /\ \A i \in DOMAIN stack : stack[i].kind = "action"
  BY TopCall
<1>4. g \in Frames /\ g.kind = "action" /\ g.pc = pc /\ g.r = Top.r /\ g.slot = Top.slot
  BY <1>1, <1>3 DEF Frames, Calls
<1>5. FrameOK(g)
  BY <1>3, <1>4 DEF FrameOK, Holds
<1>6. stack' = [stack EXCEPT ![Len(stack)] = g]
  BY <1>1, <1>2 DEF Goto
<1>7. stack' \in Seq(Frames) /\ Len(stack') = 1 /\ stack'[1] = g
  BY <1>2, <1>3, <1>4, <1>6, Replaced
<1>8. QED
  BY <1>3, <1>4, <1>5, <1>7, ActionGoesOn

\* The request is published, or cannot be.
LEMMA PublishOK ==
  ASSUME IInv, \A i \in DOMAIN stack : stack[i].kind = "action",
         NEW r \in Requests, NEW slot \in 1..MaxAcks, rc[r] = "none", AckWaitList[slot] = Free,
         Publish(r, slot, <<>>), UNCHANGED <<told, decision, inbox, dropped>>
  PROVE  IInv' /\ Step
<1>1. /\ stack' = <<>>
      /\ \/ rc' = [rc EXCEPT ![r] = "FAILURE"] /\ UNCHANGED AckWaitList
         \/ rc' = [rc EXCEPT ![r] = "SUCCESS"] /\ AckWaitList' = [AckWaitList EXCEPT ![slot] = r]
  BY DEF Publish
<1>2. QED
  BY <1>1, ActionEnds

\* The request and the slot of an action in progress.
LEMMA ActionIs ==
  ASSUME IInv, stack # <<>>, Top.pc \in {"subscribe", "undo"}
  PROVE  /\ Top.kind = "action" /\ Top.r \in Requests /\ Top.slot \in 1..MaxAcks /\ Top.on \in Answers
         /\ rc[Top.r] = "none" /\ AckWaitList[Top.slot] = Free /\ Front(stack) = <<>>
         /\ \A i \in DOMAIN stack : stack[i].kind = "action"
<1>1. Top \in Frames /\ FrameOK(Top)
  BY TopCall
<1>2. Top.kind = "action"
  BY <1>1 DEF FrameOK
<1>3. QED
  BY <1>1, <1>2, TopCall DEF FrameOK, Frames

\* A subscribe leads to the second topic, or to the request's publish.
LEMMA SubscribeOK ==
  ASSUME IInv, NEW answer \in Answers, Subscribe(answer)
  PROVE  IInv' /\ Step
<1>1. stack # <<>> /\ Top.pc = "subscribe" /\ UNCHANGED <<told, decision, inbox, dropped>>
  BY DEF Subscribe, At, service
<1>2. CASE answer = "accepted"
  <2>1. Goto("subscribe", "rejected") /\ UNCHANGED <<AckWaitList, rc>>
    BY <1>2 DEF Subscribe
  <2>2. "rejected" \in Answers
    BY DEF Answers
  <2>3. QED
    BY <1>1, <2>1, <2>2, ActionIs, GotoOK
<1>3. CASE answer # "accepted"
  <2>1. Publish(Top.r, Top.slot, Front(stack))
    BY <1>3 DEF Subscribe
  <2>2. QED
    BY <1>1, <2>1, ActionIs, PublishOK
<1>4. QED
  BY <1>2, <1>3

\* An action that fails was never in the list.
LEMMA FailsOK ==
  ASSUME IInv, stack # <<>>, Top.pc \in {"subscribe", "undo"}, Fails,
         UNCHANGED <<AckWaitList, told, decision, inbox, dropped>>
  PROVE  IInv' /\ Step
<1>1. stack' = <<>> /\ rc' = [rc EXCEPT ![Top.r] = "FAILURE"]
  BY ActionIs DEF Fails
<1>2. QED
  BY <1>1, ActionIs, ActionEnds

\* A subscribe that fails ends the action or leads to the undo of the first.
LEMMA SubscribeFailsOK == IInv /\ SubscribeFails => IInv' /\ Step
<1> SUFFICES ASSUME IInv, SubscribeFails PROVE IInv' /\ Step
  OBVIOUS
<1>1. stack # <<>> /\ Top.pc = "subscribe" /\ UNCHANGED <<AckWaitList, told, decision, inbox, dropped>>
  BY DEF SubscribeFails, At, service
<1>2. CASE Goto("undo", Top.on) /\ UNCHANGED rc
  BY <1>1, <1>2, ActionIs, GotoOK
<1>3. CASE Fails
  BY <1>1, <1>3, FailsOK
<1>4. QED
  BY <1>2, <1>3 DEF SubscribeFails

\* The undo ends in the action's failure, or in its publish.
LEMMA UndoOK == IInv /\ Undo => IInv' /\ Step
<1> SUFFICES ASSUME IInv, Undo PROVE IInv' /\ Step
  OBVIOUS
<1>1. stack # <<>> /\ Top.pc = "undo" /\ UNCHANGED <<told, decision, inbox, dropped>>
  BY DEF Undo, At, service
<1>2. CASE Publish(Top.r, Top.slot, Front(stack))
  BY <1>1, <1>2, ActionIs, PublishOK
<1>3. CASE Fails /\ UNCHANGED AckWaitList
  BY <1>1, <1>3, FailsOK
<1>4. QED
  BY <1>2, <1>3 DEF Undo

\* A new action is refused, waits, or goes on to subscribe.
LEMMA CallOK == ~CallbacksCall /\ IInv /\ Call => IInv' /\ Step
<1> SUFFICES ASSUME ~CallbacksCall, IInv, Call PROVE IInv' /\ Step
  OBVIOUS
<1>1. stack = <<>> /\ UNCHANGED <<told, decision, inbox, dropped>>
  BY DEF Call, MayCall, service
<1>2. PICK r \in Requests : rc[r] = "none" /\ Action(r)
  BY DEF Call
<1>3. \A i \in DOMAIN stack : stack[i].kind = "action"
  BY <1>1
<1>4. MaxAcks \in Nat /\ MaxTopics \in Nat
  BY ShadowAssumption
<1> DEFINE slot == Min(FreeAcks)
           a == Min(FreeTopics)
           b == Min(FreeTopics \ {a})
           Begin(pc, second) == Append(stack, [kind |-> "action", pc |-> pc, on |-> "accepted", r |-> r,
                                               slot |-> slot, a |-> a, b |-> second])
<1>5. FreeAcks # {} => slot \in 1..MaxAcks /\ AckWaitList[slot] = Free
  <2>1. FreeAcks \in SUBSET Nat
    BY <1>4 DEF FreeAcks
  <2>2. FreeAcks # {} => slot \in FreeAcks
    BY <2>1, MinIn
  <2>3. QED
    BY <2>2 DEF FreeAcks
<1>6. /\ FreeTopics # {} => a \in Places
      /\ FreeTopics \ {a} # {} => b \in Places
  <2>1. FreeTopics \in SUBSET Nat /\ \A n \in FreeTopics : n \in Places
    BY <1>4 DEF FreeTopics, Places
  <2>2. FreeTopics # {} => a \in FreeTopics
    BY <2>1, MinIn
  <2>3. FreeTopics \ {a} # {} => b \in FreeTopics \ {a}
    BY <2>1, MinIn
  <2>4. QED
    BY <2>1, <2>2, <2>3
<1>7. /\ Cardinality(FreeTopics) >= 2 => FreeTopics # {} /\ FreeTopics \ {a} # {}
      /\ Cardinality(FreeTopics) = 1 => FreeTopics # {}
  <2>1. Cardinality({}) = 0 /\ Cardinality({a}) = 1
    BY FS_EmptySet, FS_Singleton
  <2>2. FreeTopics # {} /\ FreeTopics \ {a} = {} => FreeTopics = {a}
    OBVIOUS
  <2>3. QED
    BY <2>1, <2>2
<1>8. \/ rc' = [rc EXCEPT ![r] = "FAILURE"] /\ UNCHANGED <<AckWaitList, stack>>
      \/ FreeAcks # {} /\ Publish(r, slot, stack)
      \/ /\ FreeAcks # {} /\ UNCHANGED <<AckWaitList, rc>>
         /\ \/ Cardinality(FreeTopics) >= 2 /\ stack' = Begin("subscribe", b)
            \/ Cardinality(FreeTopics) = 1 /\ stack' = Begin("undo", 0)
  BY <1>2 DEF Action, records
<1> HIDE DEF slot, a, b
<1>9. CASE rc' = [rc EXCEPT ![r] = "FAILURE"] /\ UNCHANGED <<AckWaitList, stack>>
  BY <1>1, <1>2, <1>3, <1>9, ActionEnds
<1>10. CASE FreeAcks # {} /\ Publish(r, slot, stack)
  BY <1>1, <1>2, <1>3, <1>5, <1>10, PublishOK
<1>11. ASSUME NEW pc \in {"subscribe", "undo"}, NEW second \in Places, FreeAcks # {}, a \in Places,
              stack' = Begin(pc, second), UNCHANGED <<AckWaitList, rc>>
       PROVE  IInv' /\ Step
  <2>1. PICK f : f = [kind |-> "action", pc |-> pc, on |-> "accepted", r |-> r,
                      slot |-> slot, a |-> a, b |-> second]
    OBVIOUS
  <2>2. f \in Frames /\ f.kind = "action" /\ FrameOK(f)
    BY <1>2, <1>5, <1>11, <2>1 DEF Frames, Kinds, Calls, Answers, FrameOK, Holds
  <2>3. stack' = Append(<<>>, f) /\ stack \in Seq(Frames) /\ Len(<<>>) = 0
    BY <1>1, <1>11, <2>1
  <2>4. stack' \in Seq(Frames) /\ Len(stack') = 1 /\ stack'[1] = f
    BY <2>2, <2>3
  <2>5. QED
    BY <1>1, <1>3, <1>11, <2>2, <2>4, ActionGoesOn
<1>12. CASE /\ FreeAcks # {} /\ UNCHANGED <<AckWaitList, rc>>
            /\ \/ Cardinality(FreeTopics) >= 2 /\ stack' = Begin("subscribe", b)
               \/ Cardinality(FreeTopics) = 1 /\ stack' = Begin("undo", 0)
  <2>1. 0 \in Places
    BY <1>4 DEF Places
  <2>2. QED
    BY <1>6, <1>7, <1>11, <1>12, <2>1
<1>13. QED
  BY <1>8, <1>9, <1>10, <1>12

\* The slot found for a request has it.
LEMMA SlotIs ==
  ASSUME NEW r \in Requests, WaitingFor(r) # {}
  PROVE  Min(WaitingFor(r)) \in 1..MaxAcks /\ AckWaitList[Min(WaitingFor(r))] = r
<1>1. WaitingFor(r) \in SUBSET Nat
  BY ShadowAssumption DEF WaitingFor
<1>2. Min(WaitingFor(r)) \in WaitingFor(r)
  BY <1>1, MinIn
<1>3. QED
  BY <1>2 DEF WaitingFor

\* An answer is told to a request that waits and was told nothing.
LEMMA AckStatusCallbackOK == IInv /\ AckStatusCallback => IInv' /\ Step
<1> SUFFICES ASSUME IInv, AckStatusCallback PROVE IInv' /\ Step
  OBVIOUS
<1>1. Blocked /\ UNCHANGED <<AckWaitList, rc, decision, dropped>>
  BY DEF AckStatusCallback, Reads, records, ghosts
<1>2. PICK r \in inbox :
        /\ inbox' = inbox \ {r}
        /\ IF HandlersOf(Topic(r, decision[r])) # {} /\ WaitingFor(r) # {}
           THEN CallBack("ack", AckWaitList[Min(WaitingFor(r))], Min(WaitingFor(r)), decision[r])
           ELSE UNCHANGED <<told, stack>>
  BY DEF AckStatusCallback
<1>3. r \in Requests /\ RequestsTyped /\ decision[r] \in Answers /\ decision[r] # "none"
  BY DEF IInv, RequestsOK, RequestsTyped
<1>4. CASE HandlersOf(Topic(r, decision[r])) # {} /\ WaitingFor(r) # {}
  <2>1. PICK slot \in 1..MaxAcks : slot = Min(WaitingFor(r)) /\ AckWaitList[slot] = r
    BY <1>3, <1>4, SlotIs
  <2>2. CallBack("ack", r, slot, decision[r])
    BY <1>2, <1>4, <2>1
  <2>3. told[r] = <<>>
    <3>1. SUFFICES ASSUME told[r] # <<>> PROVE FALSE
      OBVIOUS
    <3>2. r # Free
      BY <1>3, FreeAssumption
    <3>3. PICK n \in DOMAIN stack : Holds(stack[n]) /\ stack[n].r = r
      BY <2>1, <3>1, <3>2 DEF IInv, RequestsOK
    <3>4. FrameOK(stack[n]) /\ stack[n].pc # "callback"
      BY <1>1, NoCallback DEF IInv, StackOK
    <3>5. QED
      BY <1>2, <3>3, <3>4 DEF FrameOK, Holds
  <2>4. decision[r] \in Outcomes /\ inbox' \subseteq inbox /\ r \notin inbox'
    BY <1>2, <1>3 DEF Outcomes
  <2>5. QED
    BY <1>1, <1>3, <2>1, <2>2, <2>3, <2>4, OutcomeTold
<1>5. CASE ~(HandlersOf(Topic(r, decision[r])) # {} /\ WaitingFor(r) # {})
  <2>1. UNCHANGED <<told, stack>> /\ inbox' = inbox \ {r}
    BY <1>2, <1>5
  <2>2. ASSUME NEW i \in DOMAIN stack', NEW g, g = stack'[i] PROVE FrameOK(g)'
    <3>1. FrameOK(g)
      BY <2>1, <2>2 DEF IInv, StackOK
    <3>2. QED
      BY <1>1, <2>1, <3>1 DEF FrameOK, Holds
  <2>3. StackOK'
    <3>1. /\ stack' \in Seq(Frames)
          /\ \A i \in DOMAIN stack' : stack'[i].kind = "action" => i = 1
          /\ \A i \in DOMAIN stack' : stack'[i].pc = "callback" => i = Len(stack')
          /\ \A i, j \in DOMAIN stack' :
               i # j /\ Holds(stack'[i]) /\ Holds(stack'[j]) => stack'[i].r # stack'[j].r
      BY <2>1 DEF IInv, StackOK
    <3>2. QED
      BY <2>2, <3>1, StackOKNext
  <2>4. RequestsOK'
    BY <1>1, <2>1 DEF IInv, RequestsOK, RequestsTyped, Holds
  <2>5. \A q \in Requests : Phase(q)' = Phase(q)
    BY <1>1, <2>1, PhaseStays DEF Waiting
  <2>6. QED
    BY <1>1, <2>3, <2>4, <2>5, NoPhase, StutterIs DEF IInv
<1>6. QED
  BY <1>4, <1>5

\* A timeout is told to a request that waits, when no other call is in progress.
LEMMA HandleExpiredOK ==
  ASSUME IInv, NEW slot \in 1..MaxAcks, HandleExpired(slot)
  PROVE  IInv' /\ Step
<1>1. PICK r : r = AckWaitList[slot]
  OBVIOUS
<1>2. /\ stack = <<>> /\ r # Free /\ CallBack("expire", r, slot, "timeout")
      /\ UNCHANGED <<AckWaitList, rc, decision, dropped, inbox>>
  BY <1>1 DEF HandleExpired, records, service, ghosts
<1>3. r \in Requests /\ told[r] = <<>> /\ Blocked
  BY <1>1, <1>2 DEF IInv, RequestsOK, RequestsTyped, Blocked
<1>4. "timeout" \in Outcomes
  BY DEF Outcomes
<1>5. QED
  BY <1>1, <1>2, <1>3, <1>4, OutcomeTold

\* The service decides on a request that was let in, once.
LEMMA ServiceDecidesOK == IInv /\ ServiceDecides => IInv' /\ Step
<1> SUFFICES ASSUME IInv, ServiceDecides PROVE IInv' /\ Step
  OBVIOUS
<1>1. UNCHANGED <<AckWaitList, stack, rc, told, dropped>>
  BY DEF ServiceDecides, records, ghosts
<1>2. PICK r \in Requests, answer \in Answers :
        /\ rc[r] = "SUCCESS" /\ decision[r] = "none"
        /\ decision' = [decision EXCEPT ![r] = answer]
        /\ inbox' = IF Topic(r, answer) \in subscribed THEN inbox \cup {r} ELSE inbox
  BY DEF ServiceDecides
<1>3. RequestsTyped /\ answer # "none"
  BY DEF IInv, RequestsOK, Answers
<1>4. /\ decision'[r] = answer /\ \A q \in Requests : q # r => decision'[q] = decision[q]
      /\ \A q \in inbox' : q = r \/ q \in inbox
  BY <1>2, <1>3 DEF RequestsTyped
<1>5. RequestsTyped'
  BY <1>1, <1>2, <1>3 DEF RequestsTyped
<1>6. ASSUME NEW i \in DOMAIN stack', NEW g, g = stack'[i] PROVE FrameOK(g)'
  <2>1. FrameOK(g) /\ g \in Frames
    BY <1>1, <1>6, ElementOfSeq DEF IInv, StackOK
  <2>2. g.kind = "ack" => g.r # r
    BY <1>2, <2>1 DEF FrameOK
  <2>3. QED
    BY <1>1, <1>4, <2>1, <2>2 DEF FrameOK, Holds, Frames
<1>7. StackOK'
  <2>1. /\ stack' \in Seq(Frames)
        /\ \A i \in DOMAIN stack' : stack'[i].kind = "action" => i = 1
        /\ \A i \in DOMAIN stack' : stack'[i].pc = "callback" => i = Len(stack')
        /\ \A i, j \in DOMAIN stack' :
             i # j /\ Holds(stack'[i]) /\ Holds(stack'[j]) => stack'[i].r # stack'[j].r
    BY <1>1 DEF IInv, StackOK
  <2>2. QED
    BY <1>6, <2>1, StackOKNext
<1>8. RequestsOK'
  <2>1. \A q \in inbox' : decision'[q] # "none"
    BY <1>3, <1>4 DEF IInv, RequestsOK, RequestsTyped
  <2>2. QED
    BY <1>1, <1>5, <2>1 DEF IInv, RequestsOK, Holds
<1>9. \A q \in Requests : Phase(q)' = Phase(q)
  BY <1>1, PhaseStays DEF Waiting
<1>10. Promise!Decide(r)
  <2>1. phases[r] \notin {"idle", "failed"}
    BY <1>2, <1>3, PhaseIs DEF phases
  <2>2. phases' = phases
    BY <1>9, NoPhase
  <2>3. QED
    BY <1>2, <2>1, <2>2 DEF Promise!Decide, Promise!Answers, Answers
<1>11. QED
  BY <1>7, <1>8, <1>10 DEF IInv, Step, Promise!PromiseNext

\* A new connection drops all that wait.
LEMMA ShadowConnectOK == IInv /\ ShadowConnect => IInv' /\ Step
<1> SUFFICES ASSUME IInv, ShadowConnect PROVE IInv' /\ Step
  OBVIOUS
<1>1. /\ stack = <<>> /\ inbox' = {} /\ dropped' = dropped \cup Waiting
      /\ AckWaitList' = [i \in 1..MaxAcks |-> Free]
      /\ UNCHANGED <<stack, rc, told, decision>>
  BY DEF ShadowConnect
<1>2. RequestsTyped /\ RequestsTyped'
  BY <1>1 DEF IInv, RequestsOK, RequestsTyped
<1>3. StackOK'
  BY <1>1 DEF IInv, StackOK
<1>4. RequestsOK'
  BY <1>1, <1>2 DEF IInv, RequestsOK
<1>5. ASSUME NEW r \in Requests
      PROVE  Phase(r)' = IF Phase(r) = "waiting" THEN "dropped" ELSE Phase(r)
  <2>1. r \notin Waiting' /\ (r \in dropped' <=> r \in dropped \/ r \in Waiting)
    BY <1>1, FreeAssumption DEF Waiting
  <2>2. CASE told[r] # <<>>
    <3>1. Phase(r)' = Phase(r)
      BY <1>1, <1>2, <2>2, ToldStays
    <3>2. Phase(r) # "waiting"
      BY <1>2, <2>2, PhaseIs DEF RequestsTyped, Outcomes, Answers
    <3>3. QED
      BY <3>1, <3>2
  <2>3. CASE told[r] = <<>> /\ r \in Waiting
    <3>1. rc[r] = "SUCCESS"
      BY <2>3, FreeAssumption DEF Waiting, IInv, RequestsOK
    <3>2. Phase(r) = "waiting"
      BY <1>2, <2>3, <3>1, PhaseIs
    <3>3. Len(<<>>) = 0 /\ ~(0 > 1) /\ 0 # 1
      OBVIOUS
    <3>4. told'[r] = <<>> /\ rc'[r] = "SUCCESS" /\ r \in dropped'
      BY <1>1, <2>1, <2>3, <3>1
    <3>5. Phase(r)' = "dropped"
      BY <2>1, <3>3, <3>4, Zenon DEF Phase
    <3>6. QED
      BY <3>2, <3>5
  <2>4. CASE told[r] = <<>> /\ r \notin Waiting
    <3>1. Phase(r)' = Phase(r)
      BY <1>1, <2>1, <2>4, PhaseStays
    <3>2. Phase(r) # "waiting"
      <4>1. Len(<<>>) = 0 /\ ~(0 > 1) /\ 0 # 1
        OBVIOUS
      <4>2. Phase(r) \in {"idle", "failed", "dropped", "lost"}
        BY <2>4, <4>1, Zenon DEF Phase
      <4>3. QED
        BY <4>2
    <3>3. QED
      BY <3>1, <3>2
  <2>5. QED
    BY <2>2, <2>3, <2>4
<1>6. Promise!Drop
  <2>1. phases' = [r \in Requests |-> IF phases[r] = "waiting" THEN "dropped" ELSE phases[r]]
    BY <1>5 DEF phases
  <2>2. QED
    BY <1>1, <2>1 DEF Promise!Drop
<1>7. QED
  BY <1>3, <1>4, <1>6 DEF IInv, Step, Promise!PromiseNext

-----------------------------------------------------------------------------
(* The whole specification.                                                *)

\* No request was made at the start, neither here nor in the promise.
LEMMA StartsOK == ShadowInit => IInv /\ Promise!PromiseInit
<1> SUFFICES ASSUME ShadowInit PROVE IInv /\ Promise!PromiseInit
  OBVIOUS
<1>1. RequestsTyped /\ stack = <<>>
  BY DEF ShadowInit, RequestsTyped
<1>2. StackOK
  BY <1>1 DEF StackOK
<1>3. RequestsOK
  BY <1>1 DEF ShadowInit, RequestsOK
<1>4. \A r \in Requests : Phase(r) = "idle"
  BY <1>1, PhaseIs DEF ShadowInit
<1>5. Promise!PromiseInit
  BY <1>4 DEF Promise!PromiseInit, ShadowInit, phases
<1>6. QED
  BY <1>2, <1>3, <1>5 DEF IInv

\* Every step keeps the invariant and is a step of the promise, or none.
LEMMA StepOK == ~CallbacksCall /\ IInv /\ [ShadowNext]_shadowVars => IInv' /\ Step
<1> SUFFICES ASSUME ~CallbacksCall, IInv, [ShadowNext]_shadowVars PROVE IInv' /\ Step
  OBVIOUS
<1>1. CASE Call
  BY <1>1, CallOK
<1>2. CASE Running
  BY <1>2, SubscribeOK, UnsubscribeOK, UndoOK, CallbackReturnsOK DEF Running
<1>3. CASE SubscribeFails
  BY <1>3, SubscribeFailsOK
<1>4. CASE AckStatusCallback
  BY <1>4, AckStatusCallbackOK
<1>5. CASE Expiring
  BY <1>5, HandleExpiredOK DEF Expiring
<1>6. CASE ServiceDecides
  BY <1>6, ServiceDecidesOK
<1>7. CASE ShadowConnect
  BY <1>7, ShadowConnectOK
<1>8. CASE UNCHANGED shadowVars
  <2>1. UNCHANGED <<AckWaitList, stack, rc, told, decision, inbox, dropped>>
    BY <1>8 DEF shadowVars, records, service, ghosts
  <2>2. IInv'
    BY <2>1 DEF IInv, StackOK, RequestsOK, RequestsTyped, FrameOK, Holds
  <2>3. \A q \in Requests : Phase(q)' = Phase(q)
    BY <2>1, PhaseStays DEF Waiting
  <2>4. QED
    BY <2>1, <2>2, <2>3, NoPhase, StutterIs
<1>9. QED
  BY <1>1, <1>2, <1>3, <1>4, <1>5, <1>6, <1>7, <1>8 DEF ShadowNext

\* The shadow client implements its promise, whatever the requests, the slots, the
\* depth of the calls in progress, the failing calls and the new connections, when no
\* callback calls an action: no request is lost, told twice, or told an answer that
\* the service did not give.
THEOREM PromiseKept ==
  ASSUME ~CallbacksCall
  PROVE  ShadowSpec => KeepsPromise
<1>1. ShadowInit => IInv /\ Promise!PromiseInit
  BY StartsOK
<1>2. IInv /\ [ShadowNext]_shadowVars => IInv' /\ Step
  BY StepOK
<1>3. QED
  BY <1>1, <1>2, PTL DEF ShadowSpec, KeepsPromise, Promise!PromiseSpec, Step

-----------------------------------------------------------------------------
(* The records of the topics.                                              *)

TopicSlots == 1..MaxTopics
AllTopics == Keys \X Answers
Records == [topic : AllTopics \cup {<<>>}, count : Nat, isSticky : BOOLEAN, isFree : BOOLEAN]
Owned(list) == {i \in TopicSlots : ~list[i].isFree}

\* The first call, when it is an action that opens its topics.
Opening == stack # <<>> /\ stack[1].kind = "action"

\* Requests that were let in, or may be.
Called == {r \in Requests : rc[r] # "none"} \cup (IF Opening THEN {stack[1].r} ELSE {})

CallTyped(f, waiting) ==
  /\ f.pc # "callback" => f.a \in TopicSlots
  /\ f.pc = "callback" => f.on = "accepted"
  /\ f.pc = "subscribe" => f.b \in TopicSlots /\ f.a # f.b
  /\ f.kind = "expire" /\ f.pc = "unsubscribe" => f.r \notin waiting

\* No two calls are about one request.
CallsTyped ==
  /\ Len(stack) <= MaxDepth
  /\ \A n \in DOMAIN stack : CallTyped(stack[n], Waiting)
  /\ \A n, m \in DOMAIN stack : n # m => stack[n].r # stack[m].r

ListTyped ==
  /\ SubscriptionList \in [TopicSlots -> Records]
  /\ \A i \in TopicSlots : SubscriptionList[i].count <= Cardinality(Called)

TopicsTyped ==
  /\ handlers \subseteq TopicSlots /\ subscribed \subseteq AllTopics
  /\ persistent \subseteq Keys /\ faults \in Nat

RecordsTyped == CallsTyped /\ ListTyped /\ TopicsTyped

LeftByEarlier == leftovers \subseteq TopicSlots

\* The slots an action in progress has taken and not yet subscribed.
Halves ==
  IF ~Opening THEN {}
  ELSE IF stack[1].on = "accepted" THEN {stack[1].a, stack[1].b} ELSE {stack[1].b}

\* What a slot is taken for: the second topic is written when the first is subscribed.
Claims ==
  [i \in TopicSlots |-> IF Opening /\ i = stack[1].b THEN Topic(stack[1].r, "rejected")
                        ELSE SubscriptionList[i].topic]

\* A call that ends a request, and has come to one of its topics.
Ending(r, answer) ==
  \E n \in DOMAIN stack : stack[n].kind # "action" /\ stack[n].r = r /\ stack[n].on = answer

\* Who still counts on which topic: a request, on both topics from its second
\* subscribe, on the first at most until that one is dealt with.
Uses ==
  {p \in Requests \X Answers :
     \/ p[1] \in Waiting /\ ~(p[2] = "accepted" /\ Ending(p[1], "rejected"))
     \/ Ending(p[1], "accepted")
     \/ p[2] = "rejected" /\ Ending(p[1], "rejected")
     \/ p[2] = "accepted" /\ Opening /\ stack[1].on = "rejected" /\ stack[1].r = p[1]}

Users(uses, topic) == {p \in uses : Topic(p[1], p[2]) = topic}

\* Keys that were asked to stay, or are about to be.
Kept == persistent \cup (IF Opening /\ stack[1].r[3] THEN {stack[1].r[1]} ELSE {})

\* A record that is too low, or its use not counted, would leave a request without its
\* topic; one that is too high leaves the topic subscribed.
Counts(record, users, kept) ==
  /\ record.count >= 1 /\ Cardinality(users) <= record.count
  /\ ~kept => ~record.isSticky /\ record.count = Cardinality(users)

\* No two slots are taken for one topic, the one that is taken is found first, and
\* who counts on a topic has a subscribed slot that counts him.
RecordsAgree(list, claim, hand, uses, kept) ==
  /\ hand \subseteq Owned(list)
  /\ \A i \in hand : list[i].topic = claim[i]
  /\ \A i \in Owned(list) : claim[i] \in AllTopics
  /\ \A i, j \in Owned(list) : claim[i] = claim[j] => i = j
  /\ \A i \in Owned(list), s \in TopicSlots : s # i /\ list[s].topic = claim[i] => i < s
  /\ \A p \in uses : \E i \in hand : claim[i] = Topic(p[1], p[2])
  /\ \A i \in hand : Counts(list[i], Users(uses, claim[i]), claim[i][1] \in kept)

Has(list, claim, topic) == \E i \in Owned(list) : claim[i] = topic

\* The two topics of a key come and go together, but for one that is being left.
PairsAgree(list, claim, hand, leaving) ==
  /\ \A k \in Keys : Has(list, claim, <<k, "accepted">>) => Has(list, claim, <<k, "rejected">>)
  /\ \A k \in Keys : Has(list, claim, <<k, "rejected">>) => Has(list, claim, <<k, "accepted">>) \/ k \in leaving
  /\ \A i, j \in hand : claim[i][1] = claim[j][1] =>
       list[i].count = list[j].count /\ list[i].isSticky = list[j].isSticky

Leaving == {r[1] : r \in {q \in Requests : Ending(q, "rejected")}}

\* A slot in use for a topic, with one user.
Sole(list, hand, i, topic, sticky) ==
  i \in hand /\ list[i].topic = topic /\ list[i].count = 1 /\ list[i].isSticky = sticky

\* Nothing is undone; an action in progress keeps its slots, and whoever unsubscribes a
\* topic is its last user, the second one when the first is gone.
CallAgrees(f, list, claim, hand) ==
  /\ f.pc # "undo"
  /\ f.kind = "action" => list[f.a].topic = Topic(f.r, "accepted")
  /\ f.kind = "action" /\ f.on = "rejected" => /\ Sole(list, hand, f.a, Topic(f.r, "accepted"), f.r[3])
                                              /\ list[f.b].topic = Topic(f.r, "rejected")
  /\ f.pc = "unsubscribe" => Sole(list, hand, f.a, Topic(f.r, f.on), FALSE)
  /\ f.kind # "action" /\ f.on = "rejected" =>
       f.pc = "unsubscribe" /\ ~Has(list, claim, Topic(f.r, "accepted"))

CallsAgree ==
  /\ Owned(SubscriptionList) \ handlers = Halves
  /\ \A n \in DOMAIN stack : CallAgrees(stack[n], SubscriptionList, Claims, handlers)
  /\ Opening => \A n \in DOMAIN stack : n # 1 => stack[n].r[1] # stack[1].r[1]

\* As long as no MQTT call failed.
AllAgree ==
  /\ subscribed = {Claims[i] : i \in handlers}
  /\ RecordsAgree(SubscriptionList, Claims, handlers, Uses, Kept)
  /\ PairsAgree(SubscriptionList, Claims, handlers, Leaving)
  /\ CallsAgree

ListsInv == IInv /\ RecordsTyped /\ (faults = 0 => AllAgree)

-----------------------------------------------------------------------------
(* The users of a topic.                                                   *)

\* Finitely many requests have finitely many uses.
LEMMA UsersFinite ==
  ASSUME IsFiniteSet(Requests), NEW uses \in SUBSET (Requests \X Answers), NEW topic
  PROVE  IsFiniteSet(Users(uses, topic)) /\ Cardinality(Users(uses, topic)) \in Nat
<1>1. IsFiniteSet(Answers)
  <2>1. IsFiniteSet({"accepted"}) /\ IsFiniteSet({"accepted"} \cup {"rejected"})
    BY FS_AddElement, FS_Singleton
  <2>2. {"accepted"} \cup {"rejected"} = Answers
    BY DEF Answers
  <2>3. QED
    BY <2>1, <2>2
<1>2. IsFiniteSet(Requests \X Answers)
  BY <1>1, FS_Product
<1>3. Users(uses, topic) \subseteq Requests \X Answers
  BY DEF Users
<1>4. IsFiniteSet(Users(uses, topic))
  BY <1>2, <1>3, FS_Subset
<1>5. QED
  BY <1>4, FS_CardinalityType

\* One more use counts for its own topic.
LEMMA UsesGrow ==
  ASSUME IsFiniteSet(Requests), NEW uses \in SUBSET (Requests \X Answers),
         NEW p \in Requests \X Answers, p \notin uses, NEW topic
  PROVE  Cardinality(Users(uses \cup {p}, topic)) =
           Cardinality(Users(uses, topic)) + (IF Topic(p[1], p[2]) = topic THEN 1 ELSE 0)
<1>1. IsFiniteSet(Users(uses, topic)) /\ Cardinality(Users(uses, topic)) \in Nat
  BY UsersFinite
<1>2. CASE Topic(p[1], p[2]) = topic
  <2>1. Users(uses \cup {p}, topic) = Users(uses, topic) \cup {p} /\ p \notin Users(uses, topic)
    BY <1>2 DEF Users
  <2>2. Cardinality(Users(uses, topic) \cup {p}) = Cardinality(Users(uses, topic)) + 1
    BY <1>1, <2>1, FS_AddElement
  <2>3. QED
    BY <1>2, <2>1, <2>2
<1>3. CASE Topic(p[1], p[2]) # topic
  <2>1. Users(uses \cup {p}, topic) = Users(uses, topic)
    BY <1>3 DEF Users
  <2>2. QED
    BY <1>1, <1>3, <2>1
<1>4. QED
  BY <1>2, <1>3

\* A use that ends no longer counts for its topic.
LEMMA UsesShrink ==
  ASSUME IsFiniteSet(Requests), NEW uses \in SUBSET (Requests \X Answers), NEW p \in uses, NEW topic
  PROVE  Cardinality(Users(uses \ {p}, topic)) =
           Cardinality(Users(uses, topic)) - (IF Topic(p[1], p[2]) = topic THEN 1 ELSE 0)
<1>1. /\ uses \ {p} \in SUBSET (Requests \X Answers) /\ p \in Requests \X Answers
      /\ p \notin uses \ {p} /\ (uses \ {p}) \cup {p} = uses
  OBVIOUS
<1>2. PICK rest : rest = uses \ {p}
  OBVIOUS
<1>3. Cardinality(Users(rest \cup {p}, topic)) =
        Cardinality(Users(rest, topic)) + (IF Topic(p[1], p[2]) = topic THEN 1 ELSE 0)
  BY <1>1, <1>2, UsesGrow
<1>4. Cardinality(Users(rest, topic)) \in Nat
  BY <1>1, <1>2, UsersFinite
<1>5. rest \cup {p} = uses
  BY <1>1, <1>2
<1>6. Cardinality(Users(uses, topic)) =
        Cardinality(Users(rest, topic)) + (IF Topic(p[1], p[2]) = topic THEN 1 ELSE 0)
  BY <1>3, <1>5
<1>7. \A n, m \in Nat : \A d \in {0, 1} : n = m + d => m = n - d
  OBVIOUS
<1>8. Cardinality(Users(uses, topic)) \in Nat
  BY UsersFinite
<1>9. (IF Topic(p[1], p[2]) = topic THEN 1 ELSE 0) \in {0, 1}
  OBVIOUS
<1>10. QED
  BY <1>2, <1>4, <1>6, <1>7, <1>8, <1>9

\* A topic that counts one use has no other.
LEMMA OnlyUser ==
  ASSUME IsFiniteSet(Requests), NEW uses \in SUBSET (Requests \X Answers), NEW p \in uses,
         NEW q \in uses, Topic(p[1], p[2]) = Topic(q[1], q[2]),
         NEW n \in Nat, Cardinality(Users(uses, Topic(p[1], p[2]))) <= n, n <= 1
  PROVE  p = q
<1> DEFINE U == Users(uses, Topic(p[1], p[2]))
<1>1. IsFiniteSet(U) /\ Cardinality(U) \in Nat
  BY UsersFinite
<1>2. {p, q} \subseteq U
  BY DEF Users
<1>3. SUFFICES ASSUME p # q PROVE FALSE
  OBVIOUS
<1>4. IsFiniteSet({p}) /\ Cardinality({p}) = 1
  BY FS_Singleton
<1>5. Cardinality({p} \cup {q}) = 2
  <2>1. q \notin {p}
    BY <1>3
  <2>2. Cardinality({p} \cup {q}) = Cardinality({p}) + 1
    BY <1>4, <2>1, FS_AddElement
  <2>3. QED
    BY <1>4, <2>2
<1>6. {p} \cup {q} \subseteq U
  BY <1>2
<1>7. Cardinality({p} \cup {q}) <= Cardinality(U)
  BY <1>1, <1>6, FS_Subset
<1> HIDE DEF U
<1>8. Cardinality(U) <= n
  BY DEF U
<1>9. QED
  BY <1>1, <1>5, <1>7, <1>8

-----------------------------------------------------------------------------
(* How a step may change the records.                                      *)

\* The slot that counts a use, and the one found for its topic.
LEMMA OwnerIs ==
  ASSUME NEW list, NEW claim, NEW hand, NEW uses, NEW kept,
         RecordsAgree(list, claim, hand, uses, kept), NEW p \in uses
  PROVE  \E o \in hand :
           /\ o \in Owned(list) /\ claim[o] = Topic(p[1], p[2]) /\ list[o].topic = Topic(p[1], p[2])
           /\ \A i \in Owned(list) : claim[i] = Topic(p[1], p[2]) => i = o
           /\ {i \in 1..MaxTopics : ~list[i].isFree /\ list[i].topic = Topic(p[1], p[2])} # {}
           /\ Min({i \in 1..MaxTopics : ~list[i].isFree /\ list[i].topic = Topic(p[1], p[2])}) = o
<1>1. PICK o \in hand : claim[o] = Topic(p[1], p[2])
  BY DEF RecordsAgree
<1>2. o \in Owned(list) /\ list[o].topic = claim[o]
  BY <1>1 DEF RecordsAgree
<1>3. PICK t : t = Topic(p[1], p[2])
  OBVIOUS
<1> DEFINE found == {i \in 1..MaxTopics : ~list[i].isFree /\ list[i].topic = t}
<1>4. o \in found /\ o \in TopicSlots
  BY <1>1, <1>2, <1>3 DEF Owned, TopicSlots
<1>5. \A i \in found : i # o => o < i
  BY <1>1, <1>2, <1>3 DEF RecordsAgree, TopicSlots
<1>6. found \in SUBSET Nat
  BY ShadowAssumption
<1>7. \A S : S \in SUBSET Nat /\ o \in S /\ (\A i \in S : i # o => o < i) => Min(S) = o
  <2> SUFFICES ASSUME NEW S \in SUBSET Nat, o \in S, \A i \in S : i # o => o < i PROVE Min(S) = o
    OBVIOUS
  <2>1. \A x \in S : (\A y \in S : x <= y) <=> x = o
    OBVIOUS
  <2>2. QED
    BY <2>1 DEF Min
<1>8. Min(found) = o
  BY <1>4, <1>5, <1>6, <1>7
<1>9. \A i \in Owned(list) : claim[i] = t => i = o
  BY <1>1, <1>2, <1>3 DEF RecordsAgree
<1>10. QED
  BY <1>1, <1>2, <1>3, <1>4, <1>8, <1>9

\* Counts change, and uses with them; who owns which slot does not.
LEMMA CountsChange ==
  ASSUME NEW list, NEW list2, NEW claim, NEW hand, NEW uses, NEW uses2, NEW kept, NEW kept2,
         RecordsAgree(list, claim, hand, uses, kept),
         \A i \in TopicSlots : list2[i].isFree = list[i].isFree /\ list2[i].topic = list[i].topic,
         \A p \in uses2 : \E i \in hand : claim[i] = Topic(p[1], p[2]),
         \A i \in hand : Counts(list2[i], Users(uses2, claim[i]), claim[i][1] \in kept2)
  PROVE  RecordsAgree(list2, claim, hand, uses2, kept2) /\ Owned(list2) = Owned(list)
<1>1. Owned(list2) = Owned(list)
  BY DEF Owned
<1>2. hand \subseteq TopicSlots /\ Owned(list) \subseteq TopicSlots
  BY DEF RecordsAgree, Owned
<1>3. \A i \in hand : list2[i].topic = claim[i]
  BY <1>2 DEF RecordsAgree
<1>4. \A i \in Owned(list), s \in TopicSlots : s # i /\ list2[s].topic = claim[i] => i < s
  BY DEF RecordsAgree
<1>5. QED
  BY <1>1, <1>3, <1>4 DEF RecordsAgree

\* Slots that count one user less, but never none.
Lowers(list, list2, S) ==
  \A i \in TopicSlots :
    /\ list2[i].isFree = list[i].isFree /\ list2[i].topic = list[i].topic
    /\ list2[i].isSticky = list[i].isSticky
    /\ list2[i].count = (IF i \in S /\ list[i].count > 1 THEN list[i].count - 1 ELSE list[i].count)

\* A user that is not the last takes itself off the count.
LEMMA UseEnds ==
  ASSUME IsFiniteSet(Requests), NEW list \in [TopicSlots -> Records], NEW list2, NEW claim, NEW hand,
         NEW uses \in SUBSET (Requests \X Answers), NEW kept,
         RecordsAgree(list, claim, hand, uses, kept), NEW p \in uses,
         NEW o \in hand, claim[o] = Topic(p[1], p[2]), ~SoleUse(list[o]), Lowers(list, list2, {o})
  PROVE  RecordsAgree(list2, claim, hand, uses \ {p}, kept)
<1>1. \A q \in uses \ {p} : \E i \in hand : claim[i] = Topic(q[1], q[2])
  BY DEF RecordsAgree
<1>2. ASSUME NEW i \in hand
      PROVE  Counts(list2[i], Users(uses \ {p}, claim[i]), claim[i][1] \in kept)
  <2>1. i \in TopicSlots /\ i \in Owned(list) /\ list[i] \in Records /\ o \in Owned(list)
    BY <1>2 DEF RecordsAgree, Owned
  <2>2. list[i].count \in Nat /\ list[i].isSticky \in BOOLEAN
    BY <2>1 DEF Records
  <2>3. Counts(list[i], Users(uses, claim[i]), claim[i][1] \in kept)
    BY <1>2 DEF RecordsAgree
  <2>4. PICK n : n = Cardinality(Users(uses, claim[i]))
    OBVIOUS
  <2>5. PICK m : m = Cardinality(Users(uses \ {p}, claim[i]))
    OBVIOUS
  <2>6. n \in Nat
    BY <2>4, UsersFinite
  <2>7. CASE i = o
    <3>1. m = n - 1
      BY <2>4, <2>5, <2>7, UsesShrink
    <3>2. list2[i].isSticky = list[i].isSticky /\ list2[i].count = IF list[i].count > 1 THEN list[i].count - 1 ELSE list[i].count
      BY <2>1, <2>7 DEF Lowers
    <3>3. list[i].isSticky \/ list[i].count # 1
      BY <2>7 DEF SoleUse
    <3>4. list[i].count >= 1 /\ n <= list[i].count /\ (claim[i][1] \notin kept => ~list[i].isSticky /\ list[i].count = n)
      BY <2>3, <2>4 DEF Counts
    <3>5. list2[i].count >= 1 /\ m <= list2[i].count /\ (claim[i][1] \notin kept => ~list2[i].isSticky /\ list2[i].count = m)
      BY <2>2, <2>6, <3>1, <3>2, <3>3, <3>4
    <3>6. QED
      BY <2>5, <3>5 DEF Counts
  <2>8. CASE i # o
    <3>1. claim[i] # Topic(p[1], p[2])
      BY <2>1, <2>8 DEF RecordsAgree
    <3>2. Cardinality(Users(uses \ {p}, claim[i])) = n - 0
      BY <2>4, <3>1, UsesShrink
    <3>3. Cardinality(Users(uses \ {p}, claim[i])) = Cardinality(Users(uses, claim[i]))
      BY <2>4, <2>6, <3>2
    <3>4. list2[i].isSticky = list[i].isSticky /\ list2[i].count = list[i].count
      BY <2>1, <2>8 DEF Lowers
    <3>5. QED
      BY <2>3, <3>3, <3>4 DEF Counts
  <2>9. QED
    BY <2>7, <2>8
<1>3. \A i \in TopicSlots : list2[i].isFree = list[i].isFree /\ list2[i].topic = list[i].topic
  BY DEF Lowers
<1>4. PICK after : after = uses \ {p}
  OBVIOUS
<1>5. \A q \in after : \E i \in hand : claim[i] = Topic(q[1], q[2])
  BY <1>1, <1>4
<1>6. \A i \in hand : Counts(list2[i], Users(after, claim[i]), claim[i][1] \in kept)
  BY <1>2, <1>4
<1>7. RecordsAgree(list2, claim, hand, after, kept)
  BY <1>3, <1>5, <1>6, CountsChange
<1>8. QED
  BY <1>4, <1>7

\* Slots that count one more user.
Raises(list, list2, S) ==
  \A i \in TopicSlots : /\ list2[i].isFree = list[i].isFree /\ list2[i].topic = list[i].topic
                        /\ i \notin S => list2[i].isSticky = list[i].isSticky
                        /\ list2[i].count = (IF i \in S THEN list[i].count + 1 ELSE list[i].count)

\* A new user of a topic that is subscribed.
LEMMA UseBegins ==
  ASSUME IsFiniteSet(Requests), NEW list \in [TopicSlots -> Records], NEW list2, NEW claim, NEW hand,
         NEW uses \in SUBSET (Requests \X Answers), NEW kept, NEW kept2,
         RecordsAgree(list, claim, hand, uses, kept), NEW p \in Requests \X Answers, p \notin uses,
         NEW o \in hand, claim[o] = Topic(p[1], p[2]),
         kept \subseteq kept2, claim[o][1] \notin kept2 => ~list2[o].isSticky, Raises(list, list2, {o})
  PROVE  RecordsAgree(list2, claim, hand, uses \cup {p}, kept2)
<1>1. \A q \in uses \cup {p} : \E i \in hand : claim[i] = Topic(q[1], q[2])
  BY DEF RecordsAgree
<1>2. ASSUME NEW i \in hand
      PROVE  Counts(list2[i], Users(uses \cup {p}, claim[i]), claim[i][1] \in kept2)
  <2>1. i \in TopicSlots /\ i \in Owned(list) /\ list[i] \in Records /\ o \in Owned(list)
    BY <1>2 DEF RecordsAgree, Owned
  <2>2. list[i].count \in Nat /\ list[i].isSticky \in BOOLEAN
    BY <2>1 DEF Records
  <2>3. Counts(list[i], Users(uses, claim[i]), claim[i][1] \in kept)
    BY <1>2 DEF RecordsAgree
  <2>4. PICK n : n = Cardinality(Users(uses, claim[i]))
    OBVIOUS
  <2>5. PICK m : m = Cardinality(Users(uses \cup {p}, claim[i]))
    OBVIOUS
  <2>6. n \in Nat
    BY <2>4, UsersFinite
  <2>7. list[i].count >= 1 /\ n <= list[i].count /\ (claim[i][1] \notin kept => ~list[i].isSticky /\ list[i].count = n)
    BY <2>3, <2>4 DEF Counts
  <2>8. CASE i = o
    <3>1. m = n + 1
      BY <2>4, <2>5, <2>8, UsesGrow
    <3>2. (claim[i][1] \notin kept2 => ~list2[i].isSticky) /\ list2[i].count = list[i].count + 1
      BY <2>1, <2>8 DEF Raises
    <3>3. list2[i].count >= 1 /\ m <= list2[i].count /\ (claim[i][1] \notin kept2 => ~list2[i].isSticky /\ list2[i].count = m)
      BY <2>2, <2>6, <2>7, <2>8, <3>1, <3>2
    <3>4. QED
      BY <2>5, <3>3 DEF Counts
  <2>9. CASE i # o
    <3>1. claim[i] # Topic(p[1], p[2])
      BY <2>1, <2>9 DEF RecordsAgree
    <3>2. m = n
      <4>1. m = n + 0
        BY <2>4, <2>5, <3>1, UsesGrow
      <4>2. QED
        BY <2>6, <4>1
    <3>3. list2[i].isSticky = list[i].isSticky /\ list2[i].count = list[i].count
      BY <2>1, <2>9 DEF Raises
    <3>4. list2[i].count >= 1 /\ m <= list2[i].count /\ (claim[i][1] \notin kept2 => ~list2[i].isSticky /\ list2[i].count = m)
      BY <2>7, <3>2, <3>3
    <3>5. QED
      BY <2>5, <3>4 DEF Counts
  <2>10. QED
    BY <2>8, <2>9
<1>3. \A i \in TopicSlots : list2[i].isFree = list[i].isFree /\ list2[i].topic = list[i].topic
  BY DEF Raises
<1>4. PICK after : after = uses \cup {p}
  OBVIOUS
<1>5. \A q \in after : \E i \in hand : claim[i] = Topic(q[1], q[2])
  BY <1>1, <1>4
<1>6. \A i \in hand : Counts(list2[i], Users(after, claim[i]), claim[i][1] \in kept2)
  BY <1>2, <1>4
<1>7. RecordsAgree(list2, claim, hand, after, kept2)
  BY <1>3, <1>5, <1>6, CountsChange
<1>8. QED
  BY <1>4, <1>7

\* A slot is given back.
Leaves(list, list2, o) ==
  \A i \in TopicSlots : /\ list2[i].isFree = (IF i = o THEN TRUE ELSE list[i].isFree)
                        /\ list2[i].topic = list[i].topic
                        /\ list2[i].isSticky = list[i].isSticky /\ list2[i].count = list[i].count

\* The last user unsubscribes, and the slot is free.
LEMMA SlotFreed ==
  ASSUME IsFiniteSet(Requests), NEW list \in [TopicSlots -> Records], NEW list2, NEW claim, NEW hand,
         NEW uses \in SUBSET (Requests \X Answers), NEW kept,
         RecordsAgree(list, claim, hand, uses, kept), NEW p \in uses,
         NEW o \in hand, claim[o] = Topic(p[1], p[2]), list[o].count = 1, Leaves(list, list2, o)
  PROVE  RecordsAgree(list2, claim, hand \ {o}, uses \ {p}, kept)
<1> USE DEF Leaves
<1>1. Owned(list2) = Owned(list) \ {o}
  BY DEF Owned
<1>2. hand \subseteq Owned(list) /\ Owned(list) \subseteq TopicSlots
  BY DEF RecordsAgree, Owned
<1>3. ASSUME NEW q \in uses \ {p} PROVE \E i \in hand \ {o} : claim[i] = Topic(q[1], q[2])
  <2>1. PICK i \in hand : claim[i] = Topic(q[1], q[2])
    BY <1>3 DEF RecordsAgree
  <2>2. Cardinality(Users(uses, claim[o])) <= 1
    BY DEF RecordsAgree, Counts
  <2>3. i # o
    <3>1. SUFFICES ASSUME i = o PROVE FALSE
      OBVIOUS
    <3>2. Topic(p[1], p[2]) = Topic(q[1], q[2]) /\ Cardinality(Users(uses, Topic(p[1], p[2]))) <= 1
      BY <2>1, <2>2, <3>1
    <3>3. p = q
      BY <3>2, OnlyUser
    <3>4. QED
      BY <1>3, <3>3
  <2>4. QED
    BY <2>1, <2>3
<1>4. ASSUME NEW i \in hand \ {o}
      PROVE  Counts(list2[i], Users(uses \ {p}, claim[i]), claim[i][1] \in kept) /\ list2[i].topic = claim[i]
  <2>1. i \in TopicSlots /\ i \in Owned(list) /\ o \in Owned(list) /\ i \in hand
    BY <1>2
  <2>2. claim[i] # Topic(p[1], p[2])
    BY <2>1 DEF RecordsAgree
  <2>3. Users(uses \ {p}, claim[i]) = Users(uses, claim[i])
    BY <2>2 DEF Users
  <2>4. Counts(list[i], Users(uses, claim[i]), claim[i][1] \in kept) /\ list[i].topic = claim[i]
    BY <2>1 DEF RecordsAgree
  <2>5. list2[i].isSticky = list[i].isSticky /\ list2[i].count = list[i].count /\ list2[i].topic = list[i].topic
    BY <2>1
  <2>6. QED
    BY <2>3, <2>4, <2>5 DEF Counts
<1>5. \A i \in Owned(list), s \in TopicSlots : s # i /\ list2[s].topic = claim[i] => i < s
  <2>1. \A s \in TopicSlots : list2[s].topic = list[s].topic
    OBVIOUS
  <2>2. QED
    BY <2>1 DEF RecordsAgree
<1>6. hand \ {o} \subseteq Owned(list2)
  BY <1>1, <1>2
<1>7. \A i, j \in Owned(list2) : claim[i] \in AllTopics /\ (claim[i] = claim[j] => i = j)
  BY <1>1 DEF RecordsAgree
<1>8. QED
  BY <1>1, <1>3, <1>4, <1>5, <1>6, <1>7 DEF RecordsAgree

\* A slot that was taken is subscribed, for one user.
Opens(list, list2, claim, hand, kept, o) ==
  /\ o \in Owned(list) \ hand /\ list2[o].topic = claim[o] /\ list2[o].count = 1
  /\ claim[o][1] \notin kept => ~list2[o].isSticky
  /\ \A i \in TopicSlots : /\ list2[i].isFree = list[i].isFree
                           /\ \/ list2[i].topic = list[i].topic
                              \/ i \in Owned(list) /\ list2[i].topic = claim[i]
  /\ \A i \in hand : list2[i] = list[i]

\* It counts that user.
LEMMA SlotOpens ==
  ASSUME IsFiniteSet(Requests), NEW list \in [TopicSlots -> Records], NEW list2, NEW claim, NEW hand,
         NEW uses \in SUBSET (Requests \X Answers), NEW kept,
         RecordsAgree(list, claim, hand, uses, kept),
         NEW p \in Requests \X Answers, p \notin uses,
         NEW o, claim[o] = Topic(p[1], p[2]), Opens(list, list2, claim, hand, kept, o)
  PROVE  RecordsAgree(list2, claim, hand \cup {o}, uses \cup {p}, kept)
<1> USE DEF Opens
<1>1. Owned(list2) = Owned(list)
  BY DEF Owned
<1>2. hand \cup {o} \subseteq Owned(list) /\ \A i \in hand \cup {o} : list2[i].topic = claim[i]
  BY DEF RecordsAgree
<1>3. \A i \in Owned(list), s \in TopicSlots : s # i /\ list2[s].topic = claim[i] => i < s
  BY DEF RecordsAgree
<1>4. \A q \in uses \cup {p} : \E i \in hand \cup {o} : claim[i] = Topic(q[1], q[2])
  BY DEF RecordsAgree
<1>5. ASSUME NEW i \in hand \cup {o}
      PROVE  Counts(list2[i], Users(uses \cup {p}, claim[i]), claim[i][1] \in kept)
  <2>1. CASE i = o
    <3>1. \A q \in uses : Topic(q[1], q[2]) # claim[o]
      BY DEF RecordsAgree
    <3>2. Users(uses \cup {p}, claim[i]) = {p}
      BY <2>1, <3>1 DEF Users
    <3>3. Cardinality({p}) = 1
      BY FS_Singleton
    <3>4. list2[o].count >= 1 /\ 1 <= list2[o].count
      OBVIOUS
    <3>5. Counts(list2[o], {p}, claim[o][1] \in kept)
      BY <3>3, <3>4 DEF Counts
    <3>6. QED
      BY <2>1, <3>2, <3>5
  <2>2. CASE i # o
    <3>1. i \in hand /\ i \in Owned(list)
      BY <1>2, <2>2
    <3>2. claim[i] # Topic(p[1], p[2])
      BY <2>2, <3>1 DEF RecordsAgree
    <3>3. Users(uses \cup {p}, claim[i]) = Users(uses, claim[i])
      BY <3>2 DEF Users
    <3>4. QED
      BY <3>1, <3>3 DEF RecordsAgree
  <2>3. QED
    BY <2>1, <2>2
<1>6. QED
  BY <1>1, <1>2, <1>3, <1>4, <1>5 DEF RecordsAgree

\* The two lowest free slots are taken for the topics of a key, which nobody has.
Takes(list, list2, claim, claim2, k, a, b) ==
  /\ a \in TopicSlots /\ b \in TopicSlots /\ a # b /\ list[a].isFree /\ list[b].isFree
  /\ \A s \in TopicSlots : list[s].isFree /\ s # a => a < s /\ (s # b => b < s)
  /\ \A i \in Owned(list) : claim[i] # <<k, "accepted">> /\ claim[i] # <<k, "rejected">>
  /\ claim2[a] = <<k, "accepted">> /\ claim2[b] = <<k, "rejected">>
  /\ \A i \in TopicSlots : i \notin {a, b} => claim2[i] = claim[i] /\ list2[i] = list[i]
  /\ \A i \in TopicSlots : /\ list2[i].isFree = (IF i \in {a, b} THEN FALSE ELSE list[i].isFree)
                           /\ list2[i].topic = (IF i = a THEN claim2[a] ELSE list[i].topic)

\* An action takes both topics of its key.
LEMMA SlotsTaken ==
  ASSUME NEW list, NEW list2, NEW claim, NEW claim2, NEW hand, NEW uses, NEW kept, NEW more,
         RecordsAgree(list, claim, hand, uses, kept), hand = Owned(list),
         NEW k \in Keys, NEW a, NEW b, Takes(list, list2, claim, claim2, k, a, b)
  PROVE  RecordsAgree(list2, claim2, hand, uses, kept \cup more)
<1>0. PICK kept2 : kept2 = kept \cup more /\ kept \subseteq kept2
  OBVIOUS
<1> USE DEF Takes
<1>1. Owned(list2) = Owned(list) \cup {a, b} /\ a \notin Owned(list) /\ b \notin Owned(list)
  BY DEF Owned
<1>2. hand \subseteq Owned(list) /\ Owned(list) \subseteq TopicSlots
  BY DEF RecordsAgree, Owned
<1>3. \A i \in Owned(list) : claim2[i] = claim[i] /\ i \in TopicSlots
  BY <1>1, <1>2
<1>4. hand \subseteq Owned(list2) /\ \A i \in hand : list2[i].topic = claim2[i]
  BY <1>1, <1>2, <1>3 DEF RecordsAgree
<1>5. \A i \in Owned(list2) : claim2[i] \in AllTopics
  BY <1>1, <1>3 DEF RecordsAgree, AllTopics, Answers
<1>6. <<k, "accepted">> # <<k, "rejected">>
  OBVIOUS
<1>7. ASSUME NEW i \in Owned(list2), NEW j \in Owned(list2), claim2[i] = claim2[j] PROVE i = j
  <2>1. \A m \in Owned(list) : claim2[m] # claim2[a] /\ claim2[m] # claim2[b]
    BY <1>3
  <2>2. \A m, n \in Owned(list) : claim2[m] = claim2[n] => m = n
    BY <1>3 DEF RecordsAgree
  <2>3. QED
    BY <1>1, <1>6, <1>7, <2>1, <2>2
<1>8. ASSUME NEW i \in Owned(list2), NEW s \in TopicSlots, s # i, list2[s].topic = claim2[i] PROVE i < s
  <2>1. CASE i \in Owned(list)
    <3>1. s # a
      BY <1>3, <1>8, <2>1
    <3>2. list[s].topic = claim[i]
      BY <1>3, <1>8, <2>1, <3>1
    <3>3. QED
      BY <1>8, <2>1, <3>2 DEF RecordsAgree
  <2>2. CASE i \in {a, b}
    <3>1. s \notin Owned(list)
      <4>1. SUFFICES ASSUME s \in Owned(list) PROVE FALSE
        OBVIOUS
      <4>2. s # a /\ s # b
        BY <1>1, <4>1
      <4>3. list[s].topic = claim2[i]
        BY <1>8, <4>2
      <4>4. list[s].topic = claim[s]
        BY <4>1 DEF RecordsAgree
      <4>5. claim[s] # claim2[i]
        BY <2>2, <4>1
      <4>6. QED
        BY <4>3, <4>4, <4>5
    <3>2. list[s].isFree
      BY <3>1 DEF Owned
    <3>3. CASE i = a
      BY <1>8, <3>2, <3>3
    <3>4. CASE i = b
      <4>1. s # a
        BY <1>6, <1>8, <3>4
      <4>2. QED
        BY <1>8, <3>2, <3>4, <4>1
    <3>5. QED
      BY <2>2, <3>3, <3>4
  <2>3. QED
    BY <1>1, <2>1, <2>2
<1>9. \A p \in uses : \E i \in hand : claim2[i] = Topic(p[1], p[2])
  BY <1>2, <1>3 DEF RecordsAgree
<1>10. ASSUME NEW i \in hand
       PROVE  Counts(list2[i], Users(uses, claim2[i]), claim2[i][1] \in kept2)
  <2>1. claim2[i] = claim[i] /\ list2[i] = list[i]
    BY <1>2, <1>3
  <2>2. Counts(list[i], Users(uses, claim[i]), claim[i][1] \in kept)
    BY DEF RecordsAgree
  <2>3. QED
    BY <1>0, <2>1, <2>2 DEF Counts
<1>11. RecordsAgree(list2, claim2, hand, uses, kept2)
  BY <1>4, <1>5, <1>7, <1>8, <1>9, <1>10 DEF RecordsAgree
<1>12. QED
  BY <1>0, <1>1, <1>11

\* Topics whose key has no slot find two that are free, when there are slots for all.
LEMMA TwoAreFree ==
  ASSUME IsFiniteSet(Requests), 2 * Cardinality(Keys) <= MaxTopics,
         NEW list, NEW claim, NEW k \in Keys,
         \A i \in Owned(list) : claim[i] \in AllTopics /\ claim[i][1] # k,
         \A i, j \in Owned(list) : claim[i] = claim[j] => i = j
  PROVE  Cardinality({i \in 1..MaxTopics : list[i].isFree}) >= 2
<1>1. IsFiniteSet(Keys) /\ Cardinality(Keys) \in Nat
  <2> DEFINE f == [r \in Requests |-> r[1]]
  <2>1. f \in Surjection(Requests, Keys)
    BY DEF Surjection, Keys
  <2>2. IsFiniteSet(Keys)
    BY <2>1, FS_Surjection
  <2>3. QED
    BY <2>2, FS_CardinalityType
<1>2. IsFiniteSet(Answers) /\ Cardinality(Answers) = 2
  <2>1. IsFiniteSet({"accepted"}) /\ Cardinality({"accepted"}) = 1 /\ "rejected" \notin {"accepted"}
    BY FS_Singleton
  <2>2. /\ IsFiniteSet({"accepted"} \cup {"rejected"})
        /\ Cardinality({"accepted"} \cup {"rejected"}) = Cardinality({"accepted"}) + 1
    BY <2>1, FS_AddElement
  <2>3. {"accepted"} \cup {"rejected"} = Answers
    BY DEF Answers
  <2>4. \A n : n = 1 => n + 1 = 2
    OBVIOUS
  <2>5. Cardinality(Answers) = Cardinality({"accepted"}) + 1 /\ IsFiniteSet(Answers)
    BY <2>2, <2>3
  <2>6. QED
    BY <2>1, <2>4, <2>5
<1>3. IsFiniteSet(Keys \ {k}) /\ Cardinality(Keys \ {k}) = Cardinality(Keys) - 1
  BY <1>1, FS_RemoveElement
<1> DEFINE others == (Keys \ {k}) \X Answers
<1>4. IsFiniteSet(others) /\ Cardinality(others) = (Cardinality(Keys) - 1) * 2
  BY <1>2, <1>3, FS_Product
<1>5. IsFiniteSet(Owned(list)) /\ Cardinality(Owned(list)) <= Cardinality(others)
  <2> DEFINE g == [i \in Owned(list) |-> claim[i]]
  <2>1. \A t \in AllTopics : t[1] # k => t \in others
    BY DEF AllTopics
  <2>2. g \in [Owned(list) -> others]
    BY <2>1
  <2>3. g \in Injection(Owned(list), others)
    BY <2>2 DEF Injection, IsInjective
  <2> HIDE DEF g, others
  <2>4. QED
    BY <1>4, <2>3, FS_Injection
<1>6. /\ MaxTopics \in Nat /\ IsFiniteSet(TopicSlots) /\ Cardinality(TopicSlots) = MaxTopics
  <2>1. MaxTopics \in Nat \ {0} /\ 1 \in Int
    BY ShadowAssumption
  <2>2. IsFiniteSet(1..MaxTopics) /\ Cardinality(1..MaxTopics) = IF 1 > MaxTopics THEN 0 ELSE MaxTopics - 1 + 1
    BY <2>1, FS_Interval
  <2>3. QED
    BY <2>1, <2>2 DEF TopicSlots
<1>7. {i \in 1..MaxTopics : list[i].isFree} = TopicSlots \ Owned(list) /\ TopicSlots \cap Owned(list) = Owned(list)
  BY DEF TopicSlots, Owned
<1>8. Cardinality(TopicSlots \ Owned(list)) = Cardinality(TopicSlots) - Cardinality(TopicSlots \cap Owned(list))
  BY <1>6, FS_Difference
<1>9. Cardinality(Owned(list)) \in Nat
  BY <1>5, FS_CardinalityType
<1>10. PICK free : free = Cardinality({i \in 1..MaxTopics : list[i].isFree})
  OBVIOUS
<1>11. free = MaxTopics - Cardinality(Owned(list))
  BY <1>6, <1>7, <1>8, <1>10
<1>12. PICK n : n = Cardinality(Owned(list))
  OBVIOUS
<1>13. PICK m : m = Cardinality(Keys)
  OBVIOUS
<1>14. n \in Nat /\ m \in Nat /\ n <= (m - 1) * 2 /\ 2 * m <= MaxTopics /\ free = MaxTopics - n
  BY <1>1, <1>4, <1>5, <1>9, <1>11, <1>12, <1>13
<1>15. free >= 2
  BY <1>6, <1>14
<1>16. QED
  BY <1>10, <1>15

-----------------------------------------------------------------------------
(* The two topics of a key.                                                *)

\* Both topics of one key are taken.
LEMMA PairTaken ==
  ASSUME NEW list, NEW list2, NEW claim, NEW claim2, NEW hand, NEW leaving,
         PairsAgree(list, claim, hand, leaving), hand = Owned(list),
         NEW k, NEW a, NEW b, Takes(list, list2, claim, claim2, k, a, b)
  PROVE  PairsAgree(list2, claim2, hand, leaving)
<1>1. \A t : Has(list2, claim2, t) <=> Has(list, claim, t) \/ t = <<k, "accepted">> \/ t = <<k, "rejected">>
  <2>1. /\ Owned(list2) = Owned(list) \cup {a, b}
        /\ \A i \in Owned(list) : claim2[i] = claim[i]
    BY DEF Takes, Owned
  <2>2. claim2[a] = <<k, "accepted">> /\ claim2[b] = <<k, "rejected">>
    BY DEF Takes
  <2>3. QED
    BY <2>1, <2>2 DEF Has
<1>2. \A q : /\ <<q, "accepted">> # <<k, "rejected">> /\ <<q, "rejected">> # <<k, "accepted">>
             /\ <<q, "accepted">> = <<k, "accepted">> => q = k
             /\ <<q, "rejected">> = <<k, "rejected">> => q = k
  OBVIOUS
<1>3. \A q \in Keys : Has(list2, claim2, <<q, "accepted">>) => Has(list2, claim2, <<q, "rejected">>)
  BY <1>1, <1>2 DEF PairsAgree
<1>4. \A q \in Keys : Has(list2, claim2, <<q, "rejected">>) => Has(list2, claim2, <<q, "accepted">>) \/ q \in leaving
  BY <1>1, <1>2 DEF PairsAgree
<1>5. \A i, j \in hand : claim2[i][1] = claim2[j][1] =>
        list2[i].count = list2[j].count /\ list2[i].isSticky = list2[j].isSticky
  BY DEF PairsAgree, Takes, Owned
<1>6. QED
  BY <1>3, <1>4, <1>5 DEF PairsAgree

\* A key's first topic is given back before the second.
LEMMA FirstFreed ==
  ASSUME NEW list, NEW list2, NEW claim, NEW hand, NEW leaving,
         PairsAgree(list, claim, hand, leaving), hand \subseteq Owned(list),
         NEW o \in TopicSlots, Leaves(list, list2, o), NEW k, claim[o] = <<k, "accepted">>
  PROVE  PairsAgree(list2, claim, hand \ {o}, leaving \cup {k})
<1>0. /\ Owned(list2) = Owned(list) \ {o}
      /\ \A i \in hand : list2[i].count = list[i].count /\ list2[i].isSticky = list[i].isSticky
  BY DEF Leaves, Owned
<1>1. \A t : Has(list2, claim, t) => Has(list, claim, t)
  BY <1>0 DEF Has
<1>2. \A t : Has(list, claim, t) /\ t # <<k, "accepted">> => Has(list2, claim, t)
  BY <1>0 DEF Has
<1>3. \A q : /\ <<q, "rejected">> # <<k, "accepted">>
             /\ <<q, "accepted">> = <<k, "accepted">> => q = k
  OBVIOUS
<1>4. QED
  BY <1>0, <1>1, <1>2, <1>3 DEF PairsAgree

\* A key's second topic is given back when the first is gone.
LEMMA SecondFreed ==
  ASSUME NEW list, NEW list2, NEW claim, NEW hand, NEW leaving, NEW uses, NEW kept,
         PairsAgree(list, claim, hand, leaving), RecordsAgree(list, claim, hand, uses, kept),
         NEW o \in hand, Leaves(list, list2, o), NEW k, claim[o] = <<k, "rejected">>,
         ~Has(list, claim, <<k, "accepted">>)
  PROVE  PairsAgree(list2, claim, hand \ {o}, leaving \ {k})
<1>0. /\ Owned(list2) = Owned(list) \ {o} /\ hand \subseteq Owned(list)
      /\ \A i, j \in Owned(list) : claim[i] = claim[j] => i = j
      /\ \A i \in hand : list2[i].count = list[i].count /\ list2[i].isSticky = list[i].isSticky
  BY DEF Leaves, Owned, RecordsAgree
<1>1. \A t : Has(list2, claim, t) => Has(list, claim, t)
  BY <1>0 DEF Has
<1>2. \A t : Has(list, claim, t) /\ t # <<k, "rejected">> => Has(list2, claim, t)
  BY <1>0 DEF Has
<1>3. ~Has(list2, claim, <<k, "rejected">>) /\ ~Has(list2, claim, <<k, "accepted">>)
  BY <1>0, <1>1 DEF Has
<1>4. \A q : /\ <<q, "accepted">> # <<k, "rejected">>
             /\ <<q, "accepted">> = <<k, "accepted">> => q = k
             /\ <<q, "rejected">> = <<k, "rejected">> => q = k
  OBVIOUS
<1>5. \A q \in Keys : Has(list2, claim, <<q, "accepted">>) => Has(list2, claim, <<q, "rejected">>)
  BY <1>1, <1>2, <1>3, <1>4 DEF PairsAgree
<1>6. \A q \in Keys : Has(list2, claim, <<q, "rejected">>) => Has(list2, claim, <<q, "accepted">>) \/ q \in leaving \ {k}
  BY <1>1, <1>2, <1>3, <1>4 DEF PairsAgree
<1>7. \A i, j \in hand \ {o} : claim[i][1] = claim[j][1] =>
        list2[i].count = list2[j].count /\ list2[i].isSticky = list2[j].isSticky
  BY <1>0 DEF PairsAgree
<1>8. QED
  BY <1>5, <1>6, <1>7 DEF PairsAgree

\* Counts change alike for both topics.
LEMMA PairsCount ==
  ASSUME NEW list, NEW list2, NEW claim, NEW hand, NEW hand2, NEW leaving, NEW leaving2,
         PairsAgree(list, claim, hand, leaving), Owned(list2) = Owned(list), leaving \subseteq leaving2,
         \A i, j \in hand2 : claim[i][1] = claim[j][1] =>
           list2[i].count = list2[j].count /\ list2[i].isSticky = list2[j].isSticky
  PROVE  PairsAgree(list2, claim, hand2, leaving2)
<1>1. \A t : Has(list2, claim, t) <=> Has(list, claim, t)
  BY DEF Has
<1>2. QED
  BY <1>1 DEF PairsAgree

-----------------------------------------------------------------------------
(* The calls in progress.                                                  *)

\* What is known of the calls in progress.
LEMMA StackIs ==
  ASSUME IInv
  PROVE  /\ stack \in Seq(Frames) /\ Len(stack) \in Nat /\ DOMAIN stack = 1..Len(stack)
         /\ \A n \in DOMAIN stack :
              /\ stack[n] \in Frames
              /\ stack[n].kind = "action" => n = 1 /\ stack[n].pc \in {"subscribe", "undo"} /\ rc[stack[n].r] = "none"
              /\ stack[n].kind # "action" => stack[n].pc \in {"callback", "unsubscribe"}
              /\ stack[n].pc = "callback" => n = Len(stack)
         /\ Opening => 1 \in DOMAIN stack /\ stack[1] \in Frames
         /\ \A n \in DOMAIN stack : stack[n].kind = "action" => Opening /\ n = 1
<1>1. stack \in Seq(Frames) /\ Len(stack) \in Nat /\ DOMAIN stack = 1..Len(stack)
  BY LenProperties DEF IInv, StackOK
<1>2. ASSUME NEW n \in DOMAIN stack
      PROVE  /\ stack[n] \in Frames /\ FrameOK(stack[n]) /\ stack # <<>>
             /\ stack[n].kind = "action" => n = 1
             /\ stack[n].pc = "callback" => n = Len(stack)
  <2>1. stack[n] \in Frames
    BY <1>1, <1>2, ElementOfSeq
  <2>2. stack # <<>>
    OBVIOUS
  <2>3. QED
    BY <1>2, <2>1, <2>2 DEF IInv, StackOK
<1>3. Opening => 1 \in DOMAIN stack
  <2>1. SUFFICES ASSUME stack # <<>> PROVE 1 \in DOMAIN stack
    BY DEF Opening
  <2>2. Len(stack) # 0
    BY <1>1, <2>1, EmptySeq
  <2>3. QED
    BY <1>1, <2>2
<1>4. QED
  BY <1>1, <1>2, <1>3 DEF FrameOK, Opening

\* One more call.
LEMMA PushIs ==
  ASSUME IInv, NEW f \in Frames, stack' = Append(stack, f)
  PROVE  /\ Len(stack') = Len(stack) + 1 /\ Len(stack) + 1 \in DOMAIN stack' /\ stack'[Len(stack) + 1] = f
         /\ \A n \in DOMAIN stack : n \in DOMAIN stack' /\ stack'[n] = stack[n] /\ n # Len(stack) + 1
         /\ \A n \in DOMAIN stack' : n \in DOMAIN stack \/ n = Len(stack) + 1
         /\ stack' # <<>>
         /\ f.kind # "action" => (Opening' <=> Opening) /\ (Opening => stack'[1] = stack[1])
         /\ stack = <<>> => stack'[1] = f /\ DOMAIN stack' = {1}
<1>1. stack \in Seq(Frames) /\ Len(stack) \in Nat /\ DOMAIN stack = 1..Len(stack)
  BY StackIs
<1>2. /\ stack' \in Seq(Frames) /\ Len(stack') = Len(stack) + 1 /\ DOMAIN stack' = 1..(Len(stack) + 1)
      /\ \A i \in 1..Len(stack) : stack'[i] = stack[i]
      /\ stack'[Len(stack) + 1] = f
  BY <1>1, Pushed
<1>3. \A n \in DOMAIN stack : n \in DOMAIN stack' /\ stack'[n] = stack[n] /\ n # Len(stack) + 1
  BY <1>1, <1>2
<1>4. \A n \in DOMAIN stack' : n \in DOMAIN stack \/ n = Len(stack) + 1
  BY <1>1, <1>2
<1>5. Len(stack) + 1 \in DOMAIN stack' /\ stack' # <<>>
  BY <1>1, <1>2
<1>6. stack = <<>> => stack'[1] = f /\ DOMAIN stack' = {1}
  BY <1>1, <1>2
<1>7. stack # <<>> => 1 \in DOMAIN stack
  BY <1>1, EmptySeq
<1>8. stack # <<>> => stack'[1] = stack[1]
  BY <1>3, <1>7
<1>9. f.kind # "action" => (Opening' <=> Opening) /\ (Opening => stack'[1] = stack[1])
  BY <1>5, <1>6, <1>8 DEF Opening
<1>10. QED
  BY <1>2, <1>3, <1>4, <1>5, <1>6, <1>9

\* The call on top is over.
LEMMA PopIs ==
  ASSUME IInv, stack # <<>>, stack' = Front(stack)
  PROVE  /\ Len(stack') = Len(stack) - 1 /\ Len(stack) \in DOMAIN stack /\ stack[Len(stack)] = Top
         /\ Len(stack) \notin DOMAIN stack'
         /\ \A n \in DOMAIN stack' : n \in DOMAIN stack /\ stack'[n] = stack[n]
         /\ \A n \in DOMAIN stack : n # Len(stack) => n \in DOMAIN stack'
         /\ Top.kind # "action" => (Opening' <=> Opening) /\ (Opening => stack'[1] = stack[1])
<1>1. stack \in Seq(Frames) /\ Len(stack) \in Nat /\ DOMAIN stack = 1..Len(stack)
  BY StackIs
<1>2. /\ Len(stack) \in Nat \ {0} /\ Top = stack[Len(stack)]
      /\ stack' \in Seq(Frames) /\ DOMAIN stack' = 1..(Len(stack) - 1)
      /\ \A i \in 1..(Len(stack) - 1) : stack'[i] = stack[i]
      /\ Len(stack') = Len(stack) - 1
  BY <1>1, TopIs
<1>3. \A n \in DOMAIN stack' : n \in DOMAIN stack /\ stack'[n] = stack[n]
  BY <1>1, <1>2
<1>4. \A n \in DOMAIN stack : n # Len(stack) => n \in DOMAIN stack'
  BY <1>1, <1>2
<1>5. Len(stack) \in DOMAIN stack /\ Len(stack) \notin DOMAIN stack' /\ 1 \in DOMAIN stack
  BY <1>1, <1>2
<1>6. CASE Len(stack) = 1
  <2>1. stack' = <<>>
    BY <1>2, <1>6, EmptySeq
  <2>2. Top.kind # "action" => ~Opening' /\ ~Opening
    BY <1>2, <1>6, <2>1 DEF Opening
  <2>3. QED
    BY <1>2, <1>3, <1>4, <1>5, <2>2
<1>7. CASE Len(stack) # 1
  <2>1. 1 \in DOMAIN stack' /\ stack'[1] = stack[1]
    BY <1>3, <1>4, <1>5, <1>7
  <2>2. stack' # <<>>
    BY <1>2, <1>7, EmptySeq
  <2>3. QED
    BY <1>2, <1>3, <1>4, <1>5, <2>1, <2>2 DEF Opening
<1>8. QED
  BY <1>6, <1>7

\* The call on top goes on.
LEMMA ReplaceIs ==
  ASSUME IInv, stack # <<>>, NEW f \in Frames, stack' = [stack EXCEPT ![Len(stack)] = f]
  PROVE  /\ Len(stack') = Len(stack) /\ Len(stack) \in DOMAIN stack /\ stack[Len(stack)] = Top
         /\ DOMAIN stack' = DOMAIN stack /\ stack'[Len(stack)] = f
         /\ \A n \in DOMAIN stack : n # Len(stack) => stack'[n] = stack[n]
         /\ Top.kind # "action" /\ f.kind # "action" =>
              (Opening' <=> Opening) /\ (Opening => stack'[1] = stack[1])
<1>1. stack \in Seq(Frames) /\ Len(stack) \in Nat /\ DOMAIN stack = 1..Len(stack)
  BY StackIs
<1>2. Len(stack) \in Nat \ {0} /\ Top = stack[Len(stack)]
  BY <1>1, TopIs
<1>3. /\ Len(stack') = Len(stack) /\ DOMAIN stack' = DOMAIN stack
      /\ \A i \in 1..(Len(stack) - 1) : stack'[i] = stack[i]
      /\ stack'[Len(stack)] = f /\ stack' \in Seq(Frames)
  BY <1>1, Replaced
<1>4. \A n \in DOMAIN stack : n # Len(stack) => stack'[n] = stack[n]
  BY <1>1, <1>2, <1>3
<1>5. Len(stack) \in DOMAIN stack /\ 1 \in DOMAIN stack
  BY <1>1, <1>2
<1>6. stack' # <<>>
  BY <1>2, <1>3, EmptySeq
<1>7. CASE Len(stack) = 1
  BY <1>2, <1>3, <1>4, <1>5, <1>6, <1>7 DEF Opening
<1>8. CASE Len(stack) # 1
  <2>1. stack'[1] = stack[1]
    BY <1>4, <1>5, <1>8
  <2>2. QED
    BY <1>2, <1>3, <1>4, <1>5, <1>6, <2>1 DEF Opening
<1>9. QED
  BY <1>7, <1>8

\* A new call about another request.
LEMMA CallsPushed ==
  ASSUME IInv, CallsTyped, NEW f \in Frames, stack' = Append(stack, f), Waiting' \subseteq Waiting,
         Len(stack) < MaxDepth, CallTyped(f, Waiting'), \A n \in DOMAIN stack : stack[n].r # f.r
  PROVE  CallsTyped'
<1>1. /\ Len(stack') = Len(stack) + 1 /\ stack'[Len(stack) + 1] = f
      /\ \A n \in DOMAIN stack : stack'[n] = stack[n]
      /\ \A n \in DOMAIN stack' : n \in DOMAIN stack \/ n = Len(stack) + 1
  BY PushIs
<1>2. Len(stack) \in Nat /\ MaxDepth \in Nat
  BY StackIs, ShadowAssumption
<1>3. Len(stack') <= MaxDepth
  BY <1>1, <1>2
<1>4. ASSUME NEW n \in DOMAIN stack' PROVE CallTyped(stack'[n], Waiting')
  <2>1. CASE n \in DOMAIN stack
    <3>1. CallTyped(stack[n], Waiting)
      BY <2>1 DEF CallsTyped
    <3>2. QED
      BY <1>1, <2>1, <3>1 DEF CallTyped
  <2>2. QED
    BY <1>1, <1>4, <2>1
<1>5. ASSUME NEW n \in DOMAIN stack', NEW m \in DOMAIN stack', n # m PROVE stack'[n].r # stack'[m].r
  BY <1>1, <1>5 DEF CallsTyped
<1>6. QED
  BY <1>3, <1>4, <1>5 DEF CallsTyped

\* The call on top is over.
LEMMA CallsPopped ==
  ASSUME IInv, CallsTyped, stack # <<>>, stack' = Front(stack), Waiting' \subseteq Waiting
  PROVE  CallsTyped'
<1>1. /\ Len(stack') = Len(stack) - 1 /\ \A n \in DOMAIN stack' : n \in DOMAIN stack /\ stack'[n] = stack[n]
  BY PopIs
<1>2. Len(stack) \in Nat /\ MaxDepth \in Nat
  BY StackIs, ShadowAssumption
<1>3. Len(stack') <= MaxDepth
  BY <1>1, <1>2 DEF CallsTyped
<1>4. \A n \in DOMAIN stack' : CallTyped(stack'[n], Waiting')
  BY <1>1 DEF CallsTyped, CallTyped
<1>5. \A n, m \in DOMAIN stack' : n # m => stack'[n].r # stack'[m].r
  BY <1>1 DEF CallsTyped
<1>6. QED
  BY <1>3, <1>4, <1>5 DEF CallsTyped

\* The call on top goes on for its request.
LEMMA CallsReplaced ==
  ASSUME IInv, CallsTyped, stack # <<>>, NEW f \in Frames, stack' = [stack EXCEPT ![Len(stack)] = f],
         Waiting' \subseteq Waiting, CallTyped(f, Waiting'), f.r = Top.r
  PROVE  CallsTyped'
<1>1. /\ Len(stack') = Len(stack) /\ DOMAIN stack' = DOMAIN stack /\ stack'[Len(stack)] = f
      /\ \A n \in DOMAIN stack : n # Len(stack) => stack'[n] = stack[n]
      /\ stack[Len(stack)] = Top
  BY ReplaceIs
<1>2. Len(stack') <= MaxDepth
  BY <1>1 DEF CallsTyped
<1>3. ASSUME NEW n \in DOMAIN stack' PROVE CallTyped(stack'[n], Waiting') /\ stack'[n].r = stack[n].r
  <2>1. CASE n = Len(stack)
    BY <1>1, <2>1
  <2>2. CASE n # Len(stack)
    <3>1. CallTyped(stack[n], Waiting) /\ stack'[n] = stack[n]
      BY <1>1, <1>3, <2>2 DEF CallsTyped
    <3>2. QED
      BY <3>1 DEF CallTyped
  <2>3. QED
    BY <2>1, <2>2
<1>4. \A n, m \in DOMAIN stack' : n # m => stack'[n].r # stack'[m].r
  BY <1>1, <1>3 DEF CallsTyped
<1>5. QED
  BY <1>2, <1>3, <1>4 DEF CallsTyped

\* No call is in progress.
LEMMA NoCalls ==
  ASSUME stack' = <<>>
  PROVE  CallsTyped' /\ ~Opening'
<1>1. Len(<<>>) = 0 /\ DOMAIN <<>> = {}
  OBVIOUS
<1>2. 0 <= MaxDepth
  BY ShadowAssumption
<1>3. QED
  BY <1>1, <1>2 DEF CallsTyped, Opening

\* As many requests were called as there are, at most.
LEMMA CalledFinite ==
  ASSUME IsFiniteSet(Requests), IInv
  PROVE  /\ Called \subseteq Requests /\ IsFiniteSet(Called) /\ Cardinality(Called) \in Nat
         /\ Cardinality(Called) <= Cardinality(Requests)
         /\ Opening => Cardinality(Called) >= 1
<1>1. Called \subseteq Requests
  BY StackIs DEF Called, Frames
<1>2. IsFiniteSet(Called) /\ Cardinality(Called) \in Nat /\ Cardinality(Called) <= Cardinality(Requests)
  BY <1>1, FS_Subset, FS_CardinalityType
<1>3. Opening => Called # {}
  BY DEF Called
<1>4. Called # {} => Cardinality(Called) # 0
  BY <1>2, FS_EmptySet
<1>5. QED
  BY <1>1, <1>2, <1>3, <1>4

\* Calls are about requests, after a step as well.
LEMMA CalledNext == IInv' => Called' \subseteq Requests
<1> SUFFICES ASSUME IInv' PROVE Called' \subseteq Requests
  OBVIOUS
<1>1. stack' \in Seq(Frames) /\ Len(stack') \in Nat /\ DOMAIN stack' = 1..Len(stack')
  BY LenProperties DEF IInv, StackOK
<1>2. stack' # <<>> => Len(stack') # 0
  BY <1>1, EmptySeq
<1>3. Opening' => stack'[1] \in Frames
  BY <1>1, <1>2, ElementOfSeq DEF Opening
<1>4. QED
  BY <1>3 DEF Called, Frames

\* A count that grows by one at most, and then for a request not called before.
LEMMA CountsBounded ==
  ASSUME IsFiniteSet(Requests), IInv, IInv', ListTyped, Called \subseteq Called',
         SubscriptionList' \in [TopicSlots -> Records],
         \A i \in TopicSlots :
           \/ SubscriptionList'[i].count <= SubscriptionList[i].count
           \/ SubscriptionList'[i].count = 1 /\ Opening
           \/ SubscriptionList'[i].count = SubscriptionList[i].count + 1 /\ Called' \ Called # {}
  PROVE  ListTyped'
<1>1. /\ IsFiniteSet(Called) /\ Cardinality(Called) \in Nat
      /\ Opening => Cardinality(Called) >= 1
  BY CalledFinite
<1>2. IsFiniteSet(Requests) /\ IInv' => IsFiniteSet(Called') /\ Cardinality(Called') \in Nat
  <2>1. SUFFICES ASSUME IInv' PROVE IsFiniteSet(Called') /\ Cardinality(Called') \in Nat
    OBVIOUS
  <2>2. Called' \subseteq Requests
    BY CalledNext
  <2>3. QED
    BY <2>2, FS_Subset, FS_CardinalityType
<1>3. Cardinality(Called) <= Cardinality(Called')
  BY <1>2, FS_Subset
<1>4. Called' \ Called # {} => Cardinality(Called) + 1 <= Cardinality(Called')
  <2>1. SUFFICES ASSUME NEW r \in Called', r \notin Called PROVE Cardinality(Called) + 1 <= Cardinality(Called')
    OBVIOUS
  <2>2. Cardinality(Called \cup {r}) = Cardinality(Called) + 1
    BY <1>1, <2>1, FS_AddElement
  <2>3. Called \cup {r} \subseteq Called'
    BY <2>1
  <2>4. Cardinality(Called \cup {r}) <= Cardinality(Called')
    BY <1>2, <2>3, FS_Subset
  <2>5. QED
    BY <2>2, <2>4
<1>5. ASSUME NEW i \in TopicSlots PROVE SubscriptionList'[i].count <= Cardinality(Called')
  <2>1. SubscriptionList[i].count <= Cardinality(Called)
    BY DEF ListTyped
  <2>2. SubscriptionList[i] \in Records /\ SubscriptionList'[i] \in Records
    BY DEF ListTyped
  <2>3. SubscriptionList[i].count \in Nat /\ SubscriptionList'[i].count \in Nat
    BY <2>2 DEF Records
  <2>4. PICK n, m, c, d : n = SubscriptionList[i].count /\ m = SubscriptionList'[i].count /\ c = Cardinality(Called) /\ d = Cardinality(Called')
    OBVIOUS
  <2>5. /\ n \in Nat /\ m \in Nat /\ c \in Nat /\ d \in Nat /\ n <= c /\ c <= d
        /\ \/ m <= n
           \/ m = 1 /\ c >= 1
           \/ m = n + 1 /\ c + 1 <= d
    BY <1>1, <1>2, <1>3, <1>4, <2>1, <2>3, <2>4
  <2>6. m <= d
    BY <2>5
  <2>7. QED
    BY <2>4, <2>6
<1>6. QED
  BY <1>5 DEF ListTyped

-----------------------------------------------------------------------------
(* The types, action by action.                                            *)

\* What a look may do to a list.
LEMMA LookSays ==
  ASSUME NEW list \in [TopicSlots -> Records], NEW r, NEW answer \in Answers, NEW look, look = Look(list, r, answer)
  PROVE  /\ look.pc \in {"done", "unsubscribe"} /\ look.on = answer
         /\ look.list \in [TopicSlots -> Records]
         /\ look.pc = "unsubscribe" => look.a \in TopicSlots /\ look.list = list
         /\ \A i \in TopicSlots : look.list[i].count <= list[i].count
<1> DEFINE found == {i \in 1..MaxTopics : ~list[i].isFree /\ list[i].topic = Topic(r, answer)}
<1>a. PICK i : i = Min(found)
  OBVIOUS
<1>1. found # {} => i \in TopicSlots
  <2>1. found \in SUBSET Nat
    BY ShadowAssumption
  <2>2. found # {} => i \in found
    BY <1>a, <2>1, MinIn
  <2>3. QED
    BY <2>2 DEF TopicSlots
<1>2. \/ /\ found # {}
         /\ look = [pc |-> "unsubscribe", on |-> answer, a |-> i, list |-> list]
      \/ look = [pc |-> "done", on |-> answer, a |-> 0,
                 list |-> IF found # {} /\ list[i].count > 1 THEN [list EXCEPT ![i].count = @ - 1] ELSE list]
  BY <1>a, Zenon DEF Look
<1> HIDE DEF found
<1>3. \A j \in TopicSlots : list[j].count \in Nat /\ list[j].count <= list[j].count
  <2>1. \A j \in TopicSlots : list[j] \in Records
    OBVIOUS
  <2>2. QED
    BY <2>1 DEF Records
<1>4. CASE look = [pc |-> "unsubscribe", on |-> answer, a |-> i, list |-> list] /\ found # {}
  BY <1>1, <1>3, <1>4
<1>5. CASE look = [pc |-> "done", on |-> answer, a |-> 0, list |-> list]
  BY <1>3, <1>5
<1>6. CASE /\ found # {} /\ list[i].count > 1
           /\ look = [pc |-> "done", on |-> answer, a |-> 0, list |-> [list EXCEPT ![i].count = @ - 1]]
  <2>1. i \in TopicSlots /\ list[i] \in Records /\ list[i].count - 1 \in Nat /\ list[i].count - 1 <= list[i].count
    BY <1>1, <1>3, <1>6
  <2>2. PICK n : n = list[i].count - 1
    OBVIOUS
  <2>3. PICK rec : rec = [list[i] EXCEPT !.count = n]
    OBVIOUS
  <2>4. rec \in Records /\ rec.count = n
    BY <2>1, <2>2, <2>3 DEF Records
  <2>5. look.list = [list EXCEPT ![i] = rec]
    BY <1>6, <2>2, <2>3
  <2>6. look.list \in [TopicSlots -> Records]
    BY <2>1, <2>4, <2>5
  <2>7. \A j \in TopicSlots : look.list[j] = IF j = i THEN rec ELSE list[j]
    BY <2>1, <2>5
  <2>8. \A j \in TopicSlots : look.list[j].count <= list[j].count
    BY <1>3, <2>1, <2>2, <2>4, <2>7
  <2>9. look.pc = "done" /\ look.on = answer
    BY <1>6
  <2>10. QED
    BY <2>6, <2>8, <2>9
<1>7. QED
  BY <1>2, <1>4, <1>5, <1>6

\* The slot of a request is freed by its own call, if any.
LEMMA GoOnWaiting ==
  ASSUME IInv, stack # <<>>, Top.kind # "action", NEW look, look.pc \in {"done", "unsubscribe"}, GoOn(look)
  PROVE  /\ Top.r \in Requests /\ Top.kind \in {"ack", "expire"} /\ Top.pc \in {"callback", "unsubscribe"}
         /\ Waiting' \subseteq Waiting
         /\ \A q \in Requests : q # Top.r => (q \in Waiting' <=> q \in Waiting)
         /\ Top.kind = "ack" => (Top.r \in Waiting /\ (Top.r \in Waiting' <=> look.pc # "done"))
         /\ Top.kind = "expire" /\ Top.pc = "callback" => Top.r \in Waiting /\ Top.r \notin Waiting'
         /\ Top.kind = "expire" /\ Top.pc # "callback" => (Top.r \in Waiting' <=> Top.r \in Waiting)
<1>1. /\ Top \in Frames /\ FrameOK(Top) /\ RequestsTyped
      /\ Top.r \in Requests /\ Top.slot \in 1..MaxAcks /\ Top.kind \in {"ack", "expire"}
      /\ Top.pc \in {"callback", "unsubscribe"}
  <2>1. Top \in Frames /\ FrameOK(Top)
    BY TopCall
  <2>2. Top.r \in Requests /\ Top.slot \in 1..MaxAcks /\ Top.kind \in {"action", "ack", "expire"}
    BY <2>1 DEF Frames, Kinds
  <2>3. QED
    BY <2>1, <2>2 DEF FrameOK, IInv, RequestsOK
<1>2. PICK s : s = Top.slot
  OBVIOUS
<1>3. PICK r : r = Top.r
  OBVIOUS
<1>4. Top.kind = "ack" \/ Top.pc = "callback" => AckWaitList[s] = r
  BY <1>1, <1>2, <1>3 DEF FrameOK, Holds
<1>5. r \in Requests /\ s \in 1..MaxAcks /\ r # Free
  BY <1>1, <1>2, <1>3, FreeAssumption
<1>6. \A i \in 1..MaxAcks : AckWaitList[i] = AckWaitList[s] /\ AckWaitList[i] # Free => i = s
  BY <1>5 DEF IInv, RequestsOK
<1>7. CASE /\ AckWaitList' = [AckWaitList EXCEPT ![s] = Free]
           /\ IF Top.kind = "ack" THEN look.pc = "done" ELSE Top.pc = "callback"
  <2>1. \A i \in 1..MaxAcks : AckWaitList'[i] = IF i = s THEN Free ELSE AckWaitList[i]
    BY <1>1, <1>5, <1>7 DEF RequestsTyped
  <2>2. AckWaitList[s] = r
    BY <1>1, <1>4, <1>7
  <2>3. r \in Waiting /\ r \notin Waiting'
    BY <1>5, <1>6, <2>1, <2>2 DEF Waiting
  <2>4. \A q \in Requests : q # r => (q \in Waiting' <=> q \in Waiting)
    BY <1>5, <2>1, <2>2, FreeAssumption DEF Waiting
  <2>5. Waiting' \subseteq Waiting
    BY <2>3, <2>4 DEF Waiting
  <2>6. QED
    BY <1>1, <1>3, <1>7, <2>3, <2>4, <2>5
<1>8. CASE /\ AckWaitList' = AckWaitList
           /\ ~(IF Top.kind = "ack" THEN look.pc = "done" ELSE Top.pc = "callback")
  <2>1. Waiting' = Waiting
    BY <1>8 DEF Waiting
  <2>2. Top.kind = "ack" => r \in Waiting
    BY <1>4, <1>5 DEF Waiting
  <2>3. QED
    BY <1>1, <1>3, <1>8, <2>1, <2>2
<1>9. QED
  BY <1>2, <1>7, <1>8 DEF GoOn

\* The call that goes on, as it stands then.
LEMMA GoOnFrame ==
  ASSUME IInv, stack # <<>>, Top.kind # "action", NEW look, look.pc = "unsubscribe", look.on \in Answers,
         look.a \in TopicSlots, GoOn(look)
  PROVE  \E g \in Frames :
           /\ g.kind = Top.kind /\ g.r = Top.r /\ g.pc = "unsubscribe" /\ g.on = look.on /\ g.a = look.a
           /\ stack' = [stack EXCEPT ![Len(stack)] = g]
<1>1. PICK g : g = [Top EXCEPT !.pc = look.pc, !.on = look.on, !.a = look.a]
  OBVIOUS
<1>2. Top \in Frames
  BY TopCall
<1>3. look.a \in Places
  BY ShadowAssumption DEF TopicSlots, Places
<1>4. g \in Frames /\ g.kind = Top.kind /\ g.r = Top.r /\ g.pc = "unsubscribe" /\ g.on = look.on /\ g.a = look.a
  BY <1>1, <1>2, <1>3 DEF Frames, Calls
<1>5. stack' = [stack EXCEPT ![Len(stack)] = g]
  BY <1>1 DEF GoOn
<1>6. QED
  BY <1>4, <1>5

\* The types after a look.
LEMMA GoOnTyped ==
  ASSUME IsFiniteSet(Requests), IInv, IInv', CallsTyped, ListTyped, stack # <<>>, Top.kind # "action",
         NEW look, look.pc \in {"done", "unsubscribe"}, look.on \in Answers,
         look.pc = "unsubscribe" => look.a \in TopicSlots,
         look.list \in [TopicSlots -> Records],
         \A i \in TopicSlots : look.list[i].count <= SubscriptionList[i].count,
         GoOn(look), UNCHANGED rc
  PROVE  CallsTyped' /\ ListTyped'
<1>1. /\ Waiting' \subseteq Waiting
      /\ Top.kind = "expire" /\ Top.pc = "callback" => Top.r \notin Waiting'
  BY GoOnWaiting
<1>2. CallTyped(Top, Waiting) /\ Top.pc \in {"callback", "unsubscribe"}
  <2>1. Top = stack[Len(stack)] /\ Len(stack) \in DOMAIN stack
    BY StackIs, TopIs
  <2>2. QED
    BY <2>1, GoOnWaiting DEF CallsTyped
<1>3. SubscriptionList' = look.list
  BY DEF GoOn
<1>4. CASE look.pc = "done"
  <2>1. stack' = Front(stack)
    BY <1>4 DEF GoOn
  <2>2. CallsTyped' /\ (Opening' <=> Opening) /\ (Opening => stack'[1] = stack[1])
    BY <1>1, <2>1, CallsPopped, PopIs
  <2>3. Called \subseteq Called'
    BY <2>2 DEF Called
  <2>4. ListTyped'
    BY <1>3, <2>3, CountsBounded
  <2>5. QED
    BY <2>2, <2>4
<1>5. CASE look.pc = "unsubscribe"
  <2>1. PICK g \in Frames :
           /\ g.kind = Top.kind /\ g.r = Top.r /\ g.pc = "unsubscribe" /\ g.on = look.on /\ g.a = look.a
           /\ stack' = [stack EXCEPT ![Len(stack)] = g]
    BY <1>5, GoOnFrame
  <2>2. CallTyped(g, Waiting')
    BY <1>1, <1>2, <1>5, <2>1 DEF CallTyped
  <2>3. CallsTyped' /\ (Opening' <=> Opening) /\ (Opening => stack'[1] = stack[1])
    BY <1>1, <2>1, <2>2, CallsReplaced, ReplaceIs
  <2>4. Called \subseteq Called'
    BY <2>3 DEF Called
  <2>5. ListTyped'
    BY <1>3, <2>4, CountsBounded
  <2>6. QED
    BY <2>3, <2>5
<1>6. QED
  BY <1>4, <1>5

\* After a callback the types are as before.
LEMMA CallbackReturnsTyped ==
  ASSUME IsFiniteSet(Requests), IInv, IInv', RecordsTyped, CallbackReturns
  PROVE  RecordsTyped'
<1>1. /\ stack # <<>> /\ Top.pc = "callback" /\ UNCHANGED rc
      /\ UNCHANGED <<handlers, subscribed, persistent, faults>>
  BY DEF CallbackReturns, At, topics, ghosts
<1>2. Top.kind # "action"
  BY <1>1, TopCall DEF FrameOK
<1>3. PICK look : look = LookBoth(SubscriptionList, Top.r) /\ GoOn(look)
  BY DEF CallbackReturns
<1>4. SubscriptionList \in [TopicSlots -> Records]
  BY DEF RecordsTyped, ListTyped
<1>5. PICK first : first = Look(SubscriptionList, Top.r, "accepted")
  OBVIOUS
<1>6. /\ first.pc \in {"done", "unsubscribe"} /\ first.on \in Answers
      /\ first.list \in [TopicSlots -> Records]
      /\ first.pc = "unsubscribe" => first.a \in TopicSlots
      /\ \A i \in TopicSlots : first.list[i].count <= SubscriptionList[i].count
  <2>1. "accepted" \in Answers
    BY DEF Answers
  <2>2. QED
    BY <1>4, <1>5, <2>1, LookSays
<1>7. CASE look = first
  <2>1. CallsTyped' /\ ListTyped'
    BY <1>1, <1>2, <1>3, <1>6, <1>7, GoOnTyped DEF RecordsTyped
  <2>2. QED
    BY <1>1, <2>1 DEF RecordsTyped, TopicsTyped
<1>8. CASE look = Look(first.list, Top.r, "rejected")
  <2>1. "rejected" \in Answers
    BY DEF Answers
  <2>2. /\ look.pc \in {"done", "unsubscribe"} /\ look.on \in Answers
        /\ look.list \in [TopicSlots -> Records]
        /\ look.pc = "unsubscribe" => look.a \in TopicSlots
        /\ \A i \in TopicSlots : look.list[i].count <= first.list[i].count
    BY <1>6, <1>8, <2>1, LookSays
  <2>3. \A i \in TopicSlots : look.list[i].count <= SubscriptionList[i].count
    <3>1. \A i \in TopicSlots : look.list[i] \in Records /\ first.list[i] \in Records /\ SubscriptionList[i] \in Records
      BY <1>4, <1>6, <2>2
    <3>2. QED
      BY <1>6, <2>2, <3>1 DEF Records
  <2>4. CallsTyped' /\ ListTyped'
    BY <1>1, <1>2, <1>3, <2>2, <2>3, GoOnTyped DEF RecordsTyped
  <2>5. QED
    BY <1>1, <2>4 DEF RecordsTyped, TopicsTyped
<1>9. QED
  BY <1>3, <1>5, <1>7, <1>8 DEF LookBoth

\* An unsubscribe leaves the types as they are.
LEMMA UnsubscribeTyped ==
  ASSUME IsFiniteSet(Requests), IInv, IInv', RecordsTyped, NEW answer \in Answers, Unsubscribe(answer)
  PROVE  RecordsTyped'
<1>1. stack # <<>> /\ Top.pc = "unsubscribe" /\ UNCHANGED <<rc, persistent>>
  BY DEF Unsubscribe, At
<1>2. Top.kind # "action" /\ Top.a \in TopicSlots
  <2>1. Top = stack[Len(stack)] /\ Len(stack) \in DOMAIN stack
    BY <1>1, StackIs, TopIs
  <2>2. CallTyped(Top, Waiting)
    BY <2>1 DEF RecordsTyped, CallsTyped
  <2>3. QED
    BY <1>1, <2>2, TopCall DEF FrameOK, CallTyped
<1>3. SubscriptionList \in [TopicSlots -> Records] /\ \A i \in TopicSlots : SubscriptionList[i] \in Records
  BY DEF RecordsTyped, ListTyped
<1>4. PICK look, list :
        /\ look = LookOn(list, answer) /\ GoOn(look)
        /\ list = [SubscriptionList EXCEPT ![Top.a].isFree = TRUE] \/ list = SubscriptionList
  BY DEF Unsubscribe
<1>5. list \in [TopicSlots -> Records] /\ \A i \in TopicSlots : list[i].count = SubscriptionList[i].count
  <2>1. CASE list = SubscriptionList
    BY <1>3, <2>1
  <2>2. CASE list = [SubscriptionList EXCEPT ![Top.a].isFree = TRUE]
    <3>1. PICK rec : rec = [SubscriptionList[Top.a] EXCEPT !.isFree = TRUE]
      OBVIOUS
    <3>2. rec \in Records /\ rec.count = SubscriptionList[Top.a].count
      BY <1>2, <1>3, <3>1 DEF Records
    <3>3. list = [SubscriptionList EXCEPT ![Top.a] = rec]
      BY <2>2, <3>1
    <3>4. QED
      BY <1>2, <1>3, <3>2, <3>3
  <2>3. QED
    BY <1>4, <2>1, <2>2
<1>6. /\ look.pc \in {"done", "unsubscribe"} /\ look.on \in Answers
      /\ look.list \in [TopicSlots -> Records]
      /\ look.pc = "unsubscribe" => look.a \in TopicSlots
      /\ \A i \in TopicSlots : look.list[i].count <= list[i].count
  <2>1. "rejected" \in Answers
    BY DEF Answers
  <2>2. CASE look = Look(list, Top.r, "rejected")
    BY <1>5, <2>1, <2>2, LookSays
  <2>3. CASE look = [pc |-> "done", on |-> answer, a |-> 0, list |-> list]
    <3>1. \A i \in TopicSlots : list[i].count \in Nat
      BY <1>5 DEF Records
    <3>2. look.pc = "done" /\ look.on = answer /\ look.list = list
      BY <2>3
    <3>3. QED
      BY <1>5, <3>1, <3>2
  <2>4. QED
    BY <1>4, <2>2, <2>3 DEF LookOn
<1>7. \A i \in TopicSlots : look.list[i].count <= SubscriptionList[i].count
  BY <1>5, <1>6
<1>8. CallsTyped' /\ ListTyped'
  BY <1>1, <1>2, <1>4, <1>6, <1>7, GoOnTyped DEF RecordsTyped
<1>9. /\ handlers' \subseteq handlers /\ subscribed' \subseteq subscribed /\ faults' \in {faults, faults + 1}
  BY DEF Unsubscribe, Forgets, Fault, topics
<1>10. QED
  BY <1>1, <1>8, <1>9 DEF RecordsTyped, TopicsTyped

\* Told, a request's callback is one more call.
LEMMA CallBackTyped ==
  ASSUME IsFiniteSet(Requests), IInv, IInv', RecordsTyped, NEW kind \in {"ack", "expire"}, NEW r \in Requests,
         NEW slot \in 1..MaxAcks, NEW outcome, CallBack(kind, r, slot, outcome), Len(stack) < MaxDepth,
         \A n \in DOMAIN stack : stack[n].r # r,
         UNCHANGED <<AckWaitList, SubscriptionList, rc, handlers, subscribed, persistent, faults>>
  PROVE  RecordsTyped'
<1> DEFINE f == [kind |-> kind, pc |-> "callback", on |-> "accepted", r |-> r, slot |-> slot,
                 a |-> 0, b |-> 0]
<1>1. f \in Frames /\ f.kind # "action" /\ f.pc = "callback" /\ f.on = "accepted" /\ f.r = r
  <2>1. 0 \in Places
    BY ShadowAssumption DEF Places
  <2>2. QED
    BY <2>1 DEF Frames, Kinds, Calls, Answers
<1>2. stack' = Append(stack, f)
  BY DEF CallBack
<1> HIDE DEF f
<1>3. Waiting' = Waiting
  BY DEF Waiting
<1>4. CallTyped(f, Waiting')
  BY <1>1 DEF CallTyped
<1>5. CallsTyped'
  BY <1>1, <1>2, <1>3, <1>4, CallsPushed DEF RecordsTyped
<1>6. (Opening' <=> Opening) /\ (Opening => stack'[1] = stack[1])
  BY <1>1, <1>2, PushIs
<1>7. Called' = Called
  BY <1>6 DEF Called
<1>8. QED
  BY <1>5, <1>7 DEF RecordsTyped, ListTyped, TopicsTyped

\* No call in progress is about a request whose time is over, or whose answer is told.
LEMMA NotInCall ==
  ASSUME IInv, RecordsTyped, Blocked, NEW r \in Requests, r \in Waiting, told[r] = <<>>
  PROVE  \A n \in DOMAIN stack : stack[n].r # r
<1> SUFFICES ASSUME NEW n \in DOMAIN stack, stack[n].r = r PROVE FALSE
  OBVIOUS
<1>1. FrameOK(stack[n]) /\ stack[n].pc # "callback" /\ stack[n] \in Frames
  BY NoCallback, StackIs DEF IInv, StackOK
<1>2. stack[n].kind = "ack" => FALSE
  BY <1>1 DEF FrameOK, Holds
<1>3. rc[r] = "SUCCESS"
  BY FreeAssumption DEF IInv, RequestsOK, Waiting
<1>4. stack[n].kind = "action" => FALSE
  BY <1>1, <1>3 DEF FrameOK
<1>5. CallTyped(stack[n], Waiting)
  BY DEF RecordsTyped, CallsTyped
<1>6. stack[n].kind \in Kinds
  BY <1>1 DEF Frames
<1>7. QED
  BY <1>1, <1>2, <1>4, <1>5, <1>6 DEF FrameOK, CallTyped, Kinds

\* Who is told an answer, if anyone.
LEMMA AnswerTold ==
  ASSUME IInv, RecordsTyped, AckStatusCallback
  PROVE  \/ UNCHANGED stack
         \/ \E r \in Requests, slot \in 1..MaxAcks :
              /\ CallBack("ack", r, slot, decision[r]) /\ r \in Waiting /\ told[r] = <<>>
              /\ \A n \in DOMAIN stack : stack[n].r # r
<1>1. Blocked
  BY DEF AckStatusCallback, Reads
<1>2. PICK r \in inbox :
        IF HandlersOf(Topic(r, decision[r])) # {} /\ WaitingFor(r) # {}
        THEN CallBack("ack", AckWaitList[Min(WaitingFor(r))], Min(WaitingFor(r)), decision[r])
        ELSE UNCHANGED <<told, stack>>
  BY DEF AckStatusCallback
<1>3. r \in Requests /\ r # Free
  BY FreeAssumption DEF IInv, RequestsOK, RequestsTyped
<1>4. CASE HandlersOf(Topic(r, decision[r])) # {} /\ WaitingFor(r) # {}
  <2>1. PICK slot \in 1..MaxAcks : slot = Min(WaitingFor(r)) /\ AckWaitList[slot] = r
    BY <1>3, <1>4, SlotIs
  <2>2. CallBack("ack", r, slot, decision[r]) /\ r \in Waiting
    BY <1>2, <1>3, <1>4, <2>1 DEF Waiting
  <2>3. told[r] = <<>>
    <3>1. SUFFICES ASSUME told[r] # <<>> PROVE FALSE
      OBVIOUS
    <3>2. PICK n \in DOMAIN stack : Holds(stack[n]) /\ stack[n].r = r
      BY <1>3, <2>1, <3>1 DEF IInv, RequestsOK
    <3>3. FrameOK(stack[n]) /\ stack[n].pc # "callback"
      BY <1>1, NoCallback DEF IInv, StackOK
    <3>4. QED
      BY <1>2, <3>2, <3>3 DEF FrameOK, Holds
  <2>4. \A n \in DOMAIN stack : stack[n].r # r
    BY <1>1, <1>3, <2>2, <2>3, NotInCall
  <2>5. QED
    BY <1>3, <2>2, <2>3, <2>4
<1>5. QED
  BY <1>2, <1>4

\* An answer, told or not.
LEMMA AckStatusCallbackTyped ==
  ASSUME IsFiniteSet(Requests), IInv, IInv', RecordsTyped, AckStatusCallback
  PROVE  RecordsTyped'
<1>1. /\ Len(stack) < MaxDepth
      /\ UNCHANGED <<AckWaitList, SubscriptionList, rc, handlers, subscribed, persistent, faults>>
  BY DEF AckStatusCallback, Reads, records, topics, ghosts
<1>2. CASE UNCHANGED stack
  BY <1>1, <1>2 DEF RecordsTyped, CallsTyped, ListTyped, TopicsTyped, Waiting, Called, Opening
<1>3. ASSUME NEW r \in Requests, NEW slot \in 1..MaxAcks, CallBack("ack", r, slot, decision[r]),
             \A n \in DOMAIN stack : stack[n].r # r
      PROVE  RecordsTyped'
  <2>1. "ack" \in {"ack", "expire"}
    OBVIOUS
  <2>2. QED
    BY <1>1, <1>3, <2>1, CallBackTyped
<1>4. QED
  BY <1>2, <1>3, AnswerTold

\* A timeout is told when nothing else is in progress.
LEMMA HandleExpiredTyped ==
  ASSUME IsFiniteSet(Requests), IInv, IInv', RecordsTyped, NEW slot \in 1..MaxAcks, HandleExpired(slot)
  PROVE  RecordsTyped'
<1>1. PICK r : r = AckWaitList[slot]
  OBVIOUS
<1>2. /\ stack = <<>> /\ r # Free /\ CallBack("expire", r, slot, "timeout")
      /\ UNCHANGED <<AckWaitList, SubscriptionList, rc, handlers, subscribed, persistent, faults>>
  BY <1>1 DEF HandleExpired, records, topics, ghosts
<1>3. r \in Requests
  BY <1>1, <1>2 DEF IInv, RequestsOK, RequestsTyped
<1>4. Len(stack) < MaxDepth /\ \A n \in DOMAIN stack : stack[n].r # r
  BY <1>2, ShadowAssumption
<1>5. "expire" \in {"ack", "expire"}
  OBVIOUS
<1>6. QED
  BY <1>2, <1>3, <1>4, <1>5, CallBackTyped

\* What the first subscribe writes.
LEMMA FirstWritten ==
  ASSUME NEW a, NEW b, NEW s, NEW t, a = Top.a, b = Top.b, s = Top.r[3], t = Topic(Top.r, "rejected"),
         SubscriptionList \in [TopicSlots -> Records], a \in TopicSlots, b \in TopicSlots, a # b,
         s \in BOOLEAN, t \in AllTopics,
         SubscriptionList' = [SubscriptionList EXCEPT ![Top.a].count = 1, ![Top.a].isSticky = Top.r[3],
                                                      ![Top.b].topic = Topic(Top.r, "rejected")]
  PROVE  /\ SubscriptionList' \in [TopicSlots -> Records]
         /\ \A i \in TopicSlots :
              /\ SubscriptionList'[i].isFree = SubscriptionList[i].isFree
              /\ SubscriptionList'[i].topic = (IF i = b THEN t ELSE SubscriptionList[i].topic)
              /\ SubscriptionList'[i].isSticky = (IF i = a THEN s ELSE SubscriptionList[i].isSticky)
              /\ SubscriptionList'[i].count = (IF i = a THEN 1 ELSE SubscriptionList[i].count)
              /\ i # a /\ i # b => SubscriptionList'[i] = SubscriptionList[i]
<1>1. /\ SubscriptionList[a] \in Records /\ SubscriptionList[b] \in Records
      /\ DOMAIN SubscriptionList = TopicSlots
  OBVIOUS
<1>2. PICK z : z = [SubscriptionList[a] EXCEPT !.count = 1]
  OBVIOUS
<1>3. PICK x : x = [z EXCEPT !.isSticky = s]
  OBVIOUS
<1>4. PICK y : y = [SubscriptionList[b] EXCEPT !.topic = t]
  OBVIOUS
<1>5. z \in Records /\ z.count = 1 /\ z.topic = SubscriptionList[a].topic /\ z.isFree = SubscriptionList[a].isFree
  BY <1>1, <1>2 DEF Records
<1>6. /\ x \in Records /\ x.count = 1 /\ x.isSticky = s
      /\ x.topic = SubscriptionList[a].topic /\ x.isFree = SubscriptionList[a].isFree
  BY <1>3, <1>5 DEF Records
<1>7. /\ y \in Records /\ y.topic = t /\ y.count = SubscriptionList[b].count
      /\ y.isSticky = SubscriptionList[b].isSticky /\ y.isFree = SubscriptionList[b].isFree
  BY <1>1, <1>4 DEF Records
<1>8. SubscriptionList' = [SubscriptionList EXCEPT ![a] = x, ![b] = y]
  BY <1>1, <1>2, <1>3, <1>4
<1>9. \A i \in TopicSlots : SubscriptionList'[i] = IF i = b THEN y ELSE IF i = a THEN x ELSE SubscriptionList[i]
  BY <1>1, <1>8
<1>10. SubscriptionList' \in [TopicSlots -> Records]
  BY <1>1, <1>6, <1>7, <1>8
<1>11. QED
  BY <1>6, <1>7, <1>9, <1>10

\* What the second writes.
LEMMA SecondWritten ==
  ASSUME NEW list \in [TopicSlots -> Records], NEW b \in TopicSlots, NEW s \in BOOLEAN, NEW list2,
         list2 = [list EXCEPT ![b].count = 1, ![b].isSticky = s]
  PROVE  /\ list2 \in [TopicSlots -> Records]
         /\ \A i \in TopicSlots : /\ list2[i].isFree = list[i].isFree /\ list2[i].topic = list[i].topic
                                  /\ list2[i].isSticky = (IF i = b THEN s ELSE list[i].isSticky)
                                  /\ list2[i].count = (IF i = b THEN 1 ELSE list[i].count)
                                  /\ i # b => list2[i] = list[i]
<1>1. list[b] \in Records /\ DOMAIN list = TopicSlots
  OBVIOUS
<1>2. PICK z : z = [list[b] EXCEPT !.count = 1]
  OBVIOUS
<1>3. PICK x : x = [z EXCEPT !.isSticky = s]
  OBVIOUS
<1>4. z \in Records /\ z.count = 1 /\ z.topic = list[b].topic /\ z.isFree = list[b].isFree
  BY <1>1, <1>2 DEF Records
<1>5. x \in Records /\ x.count = 1 /\ x.isSticky = s /\ x.topic = list[b].topic /\ x.isFree = list[b].isFree
  BY <1>3, <1>4 DEF Records
<1>6. list2 = [list EXCEPT ![b] = x]
  BY <1>1, <1>2, <1>3
<1>7. \A i \in TopicSlots : list2[i] = IF i = b THEN x ELSE list[i]
  BY <1>1, <1>6
<1>8. list2 \in [TopicSlots -> Records]
  BY <1>1, <1>5, <1>6
<1>9. QED
  BY <1>5, <1>7, <1>8

\* One more user, in the records of both topics.
LEMMA CountsWritten ==
  ASSUME NEW r \in Requests, SubscriptionList \in [TopicSlots -> Records], incrementSubscriptionCnt(r)
  PROVE  /\ SubscriptionList' \in [TopicSlots -> Records]
         /\ \A i \in TopicSlots :
              LET up == \E answer \in Answers : i \in IndexesOf(Topic(r, answer)) IN
              /\ SubscriptionList'[i].isFree = SubscriptionList[i].isFree
              /\ SubscriptionList'[i].topic = SubscriptionList[i].topic
              /\ SubscriptionList'[i].isSticky = (IF up THEN r[3] ELSE SubscriptionList[i].isSticky)
              /\ SubscriptionList'[i].count = (IF up THEN SubscriptionList[i].count + 1 ELSE SubscriptionList[i].count)
<1> DEFINE up(i) == \E answer \in Answers : i \in IndexesOf(Topic(r, answer))
           new(i) == [SubscriptionList[i] EXCEPT !.count = @ + 1, !.isSticky = r[3]]
<1>1. SubscriptionList' = [i \in TopicSlots |-> IF up(i) THEN new(i) ELSE SubscriptionList[i]]
  BY DEF incrementSubscriptionCnt, TopicSlots
<1>2. ASSUME NEW i \in TopicSlots
      PROVE  /\ new(i) \in Records /\ new(i).isFree = SubscriptionList[i].isFree
             /\ new(i).topic = SubscriptionList[i].topic /\ new(i).isSticky = r[3]
             /\ new(i).count = SubscriptionList[i].count + 1
  <2>1. SubscriptionList[i] \in Records /\ r[3] \in BOOLEAN
    BY StickyAssumption
  <2>2. PICK n : n = SubscriptionList[i].count + 1
    OBVIOUS
  <2>3. PICK z : z = [SubscriptionList[i] EXCEPT !.count = n]
    OBVIOUS
  <2>4. n \in Nat
    BY <2>1, <2>2 DEF Records
  <2>5. z \in Records /\ z.count = n /\ z.topic = SubscriptionList[i].topic /\ z.isFree = SubscriptionList[i].isFree
    BY <2>1, <2>3, <2>4 DEF Records
  <2>6. new(i) = [z EXCEPT !.isSticky = r[3]]
    BY <2>2, <2>3
  <2>7. PICK x : x = [z EXCEPT !.isSticky = r[3]]
    OBVIOUS
  <2>8. x \in Records /\ x.count = n /\ x.topic = z.topic /\ x.isFree = z.isFree /\ x.isSticky = r[3]
    BY <2>1, <2>5, <2>7 DEF Records
  <2>9. QED
    BY <2>2, <2>5, <2>6, <2>7, <2>8
<1> HIDE DEF up, new
<1>3. SubscriptionList' \in [TopicSlots -> Records]
  BY <1>1, <1>2
<1>4. \A i \in TopicSlots : SubscriptionList'[i] = IF up(i) THEN new(i) ELSE SubscriptionList[i]
  BY <1>1
<1>5. \A i \in TopicSlots :
        /\ SubscriptionList'[i].isFree = SubscriptionList[i].isFree
        /\ SubscriptionList'[i].topic = SubscriptionList[i].topic
        /\ SubscriptionList'[i].isSticky = (IF up(i) THEN r[3] ELSE SubscriptionList[i].isSticky)
        /\ SubscriptionList'[i].count = (IF up(i) THEN SubscriptionList[i].count + 1 ELSE SubscriptionList[i].count)
  BY <1>2, <1>4
<1>6. QED
  BY <1>3, <1>5 DEF up

\* Slots that are given back.
LEMMA FreesIs ==
  ASSUME NEW S, SubscriptionList \in [TopicSlots -> Records], Frees(S)
  PROVE  /\ SubscriptionList' \in [TopicSlots -> Records]
         /\ \A i \in TopicSlots : SubscriptionList'[i].count = SubscriptionList[i].count
<1>1. SubscriptionList' = [i \in TopicSlots |-> [SubscriptionList[i] EXCEPT !.isFree = @ \/ i \in S]]
  BY DEF Frees, TopicSlots
<1>2. ASSUME NEW i \in TopicSlots, NEW x, x = [SubscriptionList[i] EXCEPT !.isFree = SubscriptionList[i].isFree \/ i \in S]
      PROVE  x \in Records /\ x.count = SubscriptionList[i].count
  <2>1. SubscriptionList[i] \in Records
    OBVIOUS
  <2>2. PICK v \in BOOLEAN : v = (SubscriptionList[i].isFree \/ i \in S)
    OBVIOUS
  <2>3. x = [SubscriptionList[i] EXCEPT !.isFree = v]
    BY <1>2, <2>2
  <2>4. QED
    BY <2>1, <2>3 DEF Records
<1>3. \A i \in TopicSlots : SubscriptionList'[i] \in Records /\ SubscriptionList'[i].count = SubscriptionList[i].count
  BY <1>1, <1>2
<1>4. QED
  BY <1>1, <1>3

\* What a publish leaves, done or not.
LEMMA PublishIs ==
  ASSUME IInv, TopicsTyped, NEW r \in Requests, NEW slot, Publish(r, slot, <<>>)
  PROVE  /\ stack' = <<>> /\ persistent' \subseteq Keys /\ faults' \in Nat
         /\ rc'[r] # "none" /\ \A q \in Requests : rc[q] # "none" => rc'[q] # "none"
<1>1. DOMAIN rc = Requests /\ r[1] \in Keys
  BY DEF IInv, RequestsOK, RequestsTyped, Keys
<1>2. stack' = <<>>
  BY DEF Publish
<1>3. persistent' \subseteq Keys /\ faults' \in Nat
  BY <1>1 DEF Publish, TopicsTyped, Fault
<1>4. rc' = [rc EXCEPT ![r] = "SUCCESS"] \/ rc' = [rc EXCEPT ![r] = "FAILURE"]
  BY DEF Publish
<1>5. QED
  BY <1>1, <1>2, <1>3, <1>4

\* An action that ends, its request let in or not.
LEMMA EndTyped ==
  ASSUME IsFiniteSet(Requests), IInv, IInv', ListTyped, stack' = <<>>,
         SubscriptionList' \in [TopicSlots -> Records],
         \A q \in Requests : rc[q] # "none" => rc'[q] # "none",
         Opening => rc'[stack[1].r] # "none",
         \A i \in TopicSlots : SubscriptionList'[i].count <= SubscriptionList[i].count \/ (SubscriptionList'[i].count = 1 /\ Opening)
  PROVE  CallsTyped' /\ ListTyped'
<1>1. CallsTyped'
  BY NoCalls
<1>2. Opening => stack[1].r \in Requests
  BY StackIs DEF Frames
<1>3. Called \subseteq Called'
  BY <1>2 DEF Called
<1>4. ListTyped'
  BY <1>3, CountsBounded
<1>5. QED
  BY <1>1, <1>4

\* The call on top of an action.
LEMMA OpeningTop ==
  ASSUME IInv, CallsTyped, stack # <<>>, Top.pc \in {"subscribe", "undo"}
  PROVE  /\ Opening /\ Top = stack[1] /\ Len(stack) = 1 /\ DOMAIN stack = {1} /\ Top \in Frames
         /\ Top.kind = "action" /\ Top.r \in Requests /\ Top.a \in TopicSlots
         /\ Top.pc = "subscribe" => Top.b \in TopicSlots /\ Top.a # Top.b
         /\ rc[Top.r] = "none" /\ AckWaitList[Top.slot] = Free /\ Front(stack) = <<>>
<1>1. /\ Top.kind = "action" /\ Top.r \in Requests /\ Front(stack) = <<>>
      /\ rc[Top.r] = "none" /\ AckWaitList[Top.slot] = Free
  BY ActionIs
<1>2. Top \in Frames /\ Len(stack) = 1
  BY <1>1, TopCall
<1>3. Top = stack[Len(stack)] /\ DOMAIN stack = 1..Len(stack)
  BY TopIs, StackIs
<1>4. DOMAIN stack = {1} /\ Top = stack[1]
  BY <1>2, <1>3
<1>5. CallTyped(Top, Waiting)
  BY <1>4 DEF CallsTyped
<1>6. QED
  BY <1>1, <1>2, <1>4, <1>5 DEF CallTyped, Opening

\* An action goes on to its next MQTT call.
LEMMA GotoTyped ==
  ASSUME IsFiniteSet(Requests), IInv, IInv', CallsTyped, ListTyped, stack # <<>>, Top.pc = "subscribe",
         NEW pc \in {"subscribe", "undo"}, NEW answer \in Answers, Goto(pc, answer),
         UNCHANGED <<AckWaitList, rc>>, SubscriptionList' \in [TopicSlots -> Records],
         \A i \in TopicSlots : SubscriptionList'[i].count <= SubscriptionList[i].count \/ SubscriptionList'[i].count = 1
  PROVE  CallsTyped' /\ ListTyped' /\ Opening' /\ stack'[1] = [stack[1] EXCEPT !.pc = pc, !.on = answer] /\ DOMAIN stack' = {1}
<1>1. /\ Opening /\ Top = stack[1] /\ Len(stack) = 1 /\ DOMAIN stack = {1} /\ Top \in Frames
      /\ Top.kind = "action" /\ Top.a \in TopicSlots /\ Top.b \in TopicSlots /\ Top.a # Top.b
  BY OpeningTop
<1>2. PICK g : g = [Top EXCEPT !.pc = pc, !.on = answer]
  OBVIOUS
<1>3. g \in Frames /\ g.kind = "action" /\ g.pc = pc /\ g.r = Top.r /\ g.a = Top.a /\ g.b = Top.b
  BY <1>1, <1>2 DEF Frames, Calls
<1>4. stack' = [stack EXCEPT ![Len(stack)] = g]
  BY <1>1, <1>2 DEF Goto
<1>5. CallTyped(g, Waiting')
  BY <1>1, <1>3 DEF CallTyped
<1>6. Waiting' = Waiting
  BY DEF Waiting
<1>7. CallsTyped' /\ stack'[1] = g /\ DOMAIN stack' = {1}
  BY <1>1, <1>3, <1>4, <1>5, <1>6, CallsReplaced, ReplaceIs
<1>8. Opening'
  <2>1. DOMAIN <<>> = {}
    OBVIOUS
  <2>2. stack' # <<>>
    BY <1>7, <2>1
  <2>3. QED
    BY <1>3, <1>7, <2>2 DEF Opening
<1>9. Called \subseteq Called'
  BY <1>1, <1>3, <1>7, <1>8 DEF Called
<1>10. ListTyped'
  BY <1>1, <1>9, CountsBounded
<1>11. QED
  BY <1>1, <1>2, <1>7, <1>8, <1>10

\* A subscribe.
LEMMA SubscribeTyped ==
  ASSUME IsFiniteSet(Requests), IInv, IInv', RecordsTyped, NEW answer \in Answers, Subscribe(answer)
  PROVE  RecordsTyped'
<1>1. /\ stack # <<>> /\ Top.pc = "subscribe" /\ Top.on = answer
      /\ subscribed' = subscribed \cup {Topic(Top.r, answer)}
      /\ handlers' = handlers \cup {IF answer = "accepted" THEN Top.a ELSE Top.b}
  BY DEF Subscribe, At
<1>2. /\ Opening /\ Top = stack[1] /\ Top \in Frames /\ Top.r \in Requests
      /\ Top.a \in TopicSlots /\ Top.b \in TopicSlots /\ Top.a # Top.b /\ Front(stack) = <<>>
  BY <1>1, OpeningTop DEF RecordsTyped
<1>3. /\ \A t \in Answers : Topic(Top.r, t) \in AllTopics
      /\ "rejected" \in Answers /\ "accepted" \in Answers /\ Top.r[3] \in BOOLEAN
  BY <1>2, StickyAssumption DEF Topic, AllTopics, Keys, Answers
<1>4. handlers' \subseteq TopicSlots /\ subscribed' \subseteq AllTopics
  BY <1>1, <1>2, <1>3 DEF RecordsTyped, TopicsTyped
<1>5. SubscriptionList \in [TopicSlots -> Records] /\ \A i \in TopicSlots : SubscriptionList[i].count \in Nat
  <2>1. SubscriptionList \in [TopicSlots -> Records]
    BY DEF RecordsTyped, ListTyped
  <2>2. \A i \in TopicSlots : SubscriptionList[i] \in Records
    BY <2>1
  <2>3. QED
    BY <2>1, <2>2 DEF Records
<1>6. CASE answer = "accepted"
  <2>1. /\ SubscriptionList' = [SubscriptionList EXCEPT ![Top.a].count = 1, ![Top.a].isSticky = Top.r[3],
                                                        ![Top.b].topic = Topic(Top.r, "rejected")]
        /\ Goto("subscribe", "rejected") /\ UNCHANGED <<AckWaitList, rc, persistent, faults>>
    BY <1>6 DEF Subscribe
  <2>2. /\ SubscriptionList' \in [TopicSlots -> Records]
        /\ \A i \in TopicSlots : SubscriptionList'[i].count = IF i = Top.a THEN 1 ELSE SubscriptionList[i].count
    <3>1. PICK a, b, s, t : a = Top.a /\ b = Top.b /\ s = Top.r[3] /\ t = Topic(Top.r, "rejected")
      OBVIOUS
    <3>2. a \in TopicSlots /\ b \in TopicSlots /\ a # b /\ s \in BOOLEAN /\ t \in AllTopics
      BY <1>2, <1>3, <3>1
    <3>3. /\ SubscriptionList' \in [TopicSlots -> Records]
          /\ \A i \in TopicSlots : SubscriptionList'[i].count = IF i = a THEN 1 ELSE SubscriptionList[i].count
      BY <1>5, <2>1, <3>1, <3>2, FirstWritten
    <3>4. QED
      BY <3>1, <3>3
  <2>3. \A i \in TopicSlots : SubscriptionList'[i].count <= SubscriptionList[i].count \/ SubscriptionList'[i].count = 1
    BY <1>5, <2>2
  <2>4. CallsTyped' /\ ListTyped'
    BY <1>1, <1>3, <2>1, <2>2, <2>3, GotoTyped DEF RecordsTyped
  <2>5. QED
    BY <1>4, <2>1, <2>4 DEF RecordsTyped, TopicsTyped
<1>7. CASE answer # "accepted"
  <2>1. /\ SubscriptionList' = [SubscriptionList EXCEPT ![Top.b].count = 1, ![Top.b].isSticky = Top.r[3]]
        /\ Publish(Top.r, Top.slot, <<>>)
    BY <1>2, <1>7 DEF Subscribe
  <2>2. /\ SubscriptionList' \in [TopicSlots -> Records]
        /\ \A i \in TopicSlots : SubscriptionList'[i].count = IF i = Top.b THEN 1 ELSE SubscriptionList[i].count
    BY <1>2, <1>3, <1>5, <2>1, SecondWritten
  <2>3. \A i \in TopicSlots : SubscriptionList'[i].count <= SubscriptionList[i].count \/ SubscriptionList'[i].count = 1
    BY <1>5, <2>2
  <2>4. /\ stack' = <<>> /\ persistent' \subseteq Keys /\ faults' \in Nat
        /\ rc'[Top.r] # "none" /\ \A q \in Requests : rc[q] # "none" => rc'[q] # "none"
    BY <1>2, <2>1, PublishIs DEF RecordsTyped
  <2>5. CallsTyped' /\ ListTyped'
    BY <1>2, <2>2, <2>3, <2>4, EndTyped DEF RecordsTyped
  <2>6. QED
    BY <1>4, <2>4, <2>5 DEF RecordsTyped, TopicsTyped
<1>8. QED
  BY <1>6, <1>7

\* A subscribe that fails.
LEMMA SubscribeFailsTyped ==
  ASSUME IsFiniteSet(Requests), IInv, IInv', RecordsTyped, SubscribeFails
  PROVE  RecordsTyped'
<1>1. /\ stack # <<>> /\ Top.pc = "subscribe" /\ UNCHANGED <<AckWaitList, handlers, subscribed, persistent>>
      /\ faults' = faults + 1
  BY DEF SubscribeFails, At, Fault, topics
<1>2. /\ Opening /\ Top = stack[1] /\ Top.on \in Answers /\ Front(stack) = <<>> /\ Top.r \in Requests
      /\ SubscriptionList \in [TopicSlots -> Records]
  BY <1>1, OpeningTop, ActionIs DEF RecordsTyped, ListTyped
<1>3. TopicsTyped'
  BY <1>1 DEF RecordsTyped, TopicsTyped
<1>4. \A i \in TopicSlots : SubscriptionList[i].count \in Nat
  BY <1>2 DEF Records
<1>5. CASE Frees({Top.a}) /\ Goto("undo", Top.on) /\ UNCHANGED rc
  <2>1. /\ SubscriptionList' \in [TopicSlots -> Records]
        /\ \A i \in TopicSlots : SubscriptionList'[i].count <= SubscriptionList[i].count
    BY <1>2, <1>4, <1>5, FreesIs
  <2>2. CallsTyped' /\ ListTyped'
    BY <1>1, <1>2, <1>5, <2>1, GotoTyped DEF RecordsTyped
  <2>3. QED
    BY <1>3, <2>2 DEF RecordsTyped
<1>6. CASE Frees({Top.a, Top.b}) /\ Fails
  <2>1. /\ SubscriptionList' \in [TopicSlots -> Records]
        /\ \A i \in TopicSlots : SubscriptionList'[i].count <= SubscriptionList[i].count
    BY <1>2, <1>4, <1>6, FreesIs
  <2>2. /\ stack' = <<>> /\ \A q \in Requests : rc[q] # "none" => rc'[q] # "none"
        /\ rc'[Top.r] # "none"
    BY <1>2, <1>6 DEF Fails, IInv, RequestsOK, RequestsTyped
  <2>3. CallsTyped' /\ ListTyped'
    BY <1>2, <2>1, <2>2, EndTyped DEF RecordsTyped
  <2>4. QED
    BY <1>3, <2>3 DEF RecordsTyped
<1>7. QED
  BY <1>5, <1>6 DEF SubscribeFails

\* The first topic undone.
LEMMA UndoTyped ==
  ASSUME IsFiniteSet(Requests), IInv, IInv', RecordsTyped, Undo
  PROVE  RecordsTyped'
<1>1. /\ stack # <<>> /\ Top.pc = "undo" /\ handlers' \subseteq handlers /\ subscribed' \subseteq subscribed
  BY DEF Undo, At, Forgets, topics
<1>2. /\ Opening /\ Top = stack[1] /\ Front(stack) = <<>> /\ Top.r \in Requests
      /\ SubscriptionList \in [TopicSlots -> Records]
  BY <1>1, OpeningTop DEF RecordsTyped, ListTyped
<1>3. \A i \in TopicSlots : SubscriptionList[i].count \in Nat
  BY <1>2 DEF Records
<1>4. CASE Publish(Top.r, Top.slot, <<>>) /\ UNCHANGED SubscriptionList
  <2>1. /\ stack' = <<>> /\ persistent' \subseteq Keys /\ faults' \in Nat
        /\ rc'[Top.r] # "none" /\ \A q \in Requests : rc[q] # "none" => rc'[q] # "none"
    BY <1>2, <1>4, PublishIs DEF RecordsTyped
  <2>2. CallsTyped' /\ ListTyped'
    BY <1>2, <1>3, <1>4, <2>1, EndTyped DEF RecordsTyped
  <2>3. QED
    BY <1>1, <2>1, <2>2 DEF RecordsTyped, TopicsTyped
<1>5. CASE Fails /\ Frees({Top.b}) /\ UNCHANGED <<persistent, faults>>
  <2>1. /\ SubscriptionList' \in [TopicSlots -> Records]
        /\ \A i \in TopicSlots : SubscriptionList'[i].count <= SubscriptionList[i].count
    BY <1>2, <1>3, <1>5, FreesIs
  <2>2. /\ stack' = <<>> /\ \A q \in Requests : rc[q] # "none" => rc'[q] # "none"
        /\ rc'[Top.r] # "none"
    BY <1>2, <1>5 DEF Fails, IInv, RequestsOK, RequestsTyped
  <2>3. CallsTyped' /\ ListTyped'
    BY <1>2, <2>1, <2>2, EndTyped DEF RecordsTyped
  <2>4. QED
    BY <1>1, <1>5, <2>3 DEF RecordsTyped, TopicsTyped
<1>6. QED
  BY <1>2, <1>4, <1>5 DEF Undo

\* The slots an action chooses.
LEMMA SlotsChosen ==
  ASSUME NEW a, NEW b, a = Min(FreeTopics), b = Min(FreeTopics \ {a})
  PROVE  /\ FreeTopics # {} =>
              a \in FreeTopics /\ a \in TopicSlots /\ \A s \in FreeTopics : s # a => a < s
         /\ FreeTopics \ {a} # {} =>
              b \in FreeTopics /\ b \in TopicSlots /\ b # a /\ \A s \in FreeTopics : s # a /\ s # b => b < s
         /\ Cardinality(FreeTopics) >= 2 => FreeTopics # {} /\ FreeTopics \ {a} # {}
         /\ Cardinality(FreeTopics) = 1 => FreeTopics # {}
<1>1. FreeTopics \in SUBSET Nat /\ FreeTopics \subseteq TopicSlots /\ FreeTopics \ {a} \in SUBSET Nat
  BY ShadowAssumption DEF FreeTopics, TopicSlots
<1>2. ASSUME NEW S \in SUBSET Nat, S # {}
      PROVE  Min(S) \in S /\ \A s \in S : s # Min(S) => Min(S) < s
  <2>1. Min(S) \in S
    BY <1>2, MinIn
  <2>2. PICK m \in S : m = Min(S)
    BY <2>1
  <2>3. \E x \in S : \A y \in S : x <= y
    <3> DEFINE R == {ss \in Nat \X Nat : ss[1] < ss[2]}
    <3>1. IsWellFoundedOn(R, Nat)
      BY NatLessThanWellFounded DEF OpToRel
    <3>2. PICK x \in S : \A y \in S : ~(<<y, x>> \in R)
      BY <1>2, <3>1, WFMin
    <3>3. ASSUME NEW y \in S PROVE x <= y
      <4>1. <<y, x>> \in Nat \X Nat /\ <<y, x>>[1] = y /\ <<y, x>>[2] = x
        OBVIOUS
      <4>2. ~(y < x)
        BY <3>2, <4>1
      <4>3. QED
        BY <4>2
    <3>4. QED
      BY <3>3
  <2>4. \A y \in S : m <= y
    <3>1. m = CHOOSE x \in S : \A y \in S : x <= y
      BY <2>2 DEF Min
    <3>2. QED
      BY <2>3, <3>1
  <2>5. \A s \in S : s # m => m < s
    BY <2>4
  <2>6. QED
    BY <2>2, <2>5
<1>3. FreeTopics # {} => a \in FreeTopics /\ a \in TopicSlots /\ \A s \in FreeTopics : s # a => a < s
  BY <1>1, <1>2
<1>4. ASSUME FreeTopics \ {a} # {}
      PROVE  b \in FreeTopics /\ b \in TopicSlots /\ b # a /\ \A s \in FreeTopics : s # a /\ s # b => b < s
  <2>1. b \in FreeTopics \ {a} /\ \A s \in FreeTopics \ {a} : s # b => b < s
    BY <1>1, <1>2, <1>4
  <2>2. QED
    BY <1>1, <2>1
<1>5. /\ Cardinality(FreeTopics) >= 2 => FreeTopics # {} /\ FreeTopics \ {a} # {}
      /\ Cardinality(FreeTopics) = 1 => FreeTopics # {}
  <2>1. Cardinality({}) = 0 /\ Cardinality({a}) = 1
    BY FS_EmptySet, FS_Singleton
  <2>2. FreeTopics # {} /\ FreeTopics \ {a} = {} => FreeTopics = {a}
    OBVIOUS
  <2>3. QED
    BY <2>1, <2>2
<1>6. QED
  BY <1>3, <1>4, <1>5

\* Both slots taken, the second topic not written yet.
TakesBoth(r, slot, a, b) ==
  /\ a \in TopicSlots /\ b \in TopicSlots /\ a # b
  /\ SubscriptionList' \in [TopicSlots -> Records]
  /\ \A i \in TopicSlots :
       /\ SubscriptionList'[i].isFree = (IF i \in {a, b} THEN FALSE ELSE SubscriptionList[i].isFree)
       /\ SubscriptionList'[i].topic = (IF i = a THEN Topic(r, "accepted") ELSE SubscriptionList[i].topic)
       /\ SubscriptionList'[i].count = SubscriptionList[i].count
       /\ i # a /\ i # b => SubscriptionList'[i] = SubscriptionList[i]
  /\ stack' = Append(stack, [kind |-> "action", pc |-> "subscribe", on |-> "accepted", r |-> r,
                             slot |-> slot, a |-> a, b |-> b])
  /\ UNCHANGED <<AckWaitList, rc, persistent, faults>>

\* How an action begins: refused, a user more of its topics, their first user, or without
\* room for both.
Begun(r, slot, a, b) ==
  /\ a = Min(FreeTopics) /\ b = Min(FreeTopics \ {a})
  /\ \/ rc' = [rc EXCEPT ![r] = "FAILURE"] /\ UNCHANGED <<records, stack, persistent, faults>>
     \/ /\ isSubscriptionPresent(r) /\ incrementSubscriptionCnt(r)
        /\ Publish(r, slot, <<>>) /\ AckWaitList[slot] = Free
     \/ /\ ~isSubscriptionPresent(r) /\ Cardinality(FreeTopics) >= 2 /\ TakesBoth(r, slot, a, b)
     \/ /\ ~isSubscriptionPresent(r) /\ (FreeTopics = {} \/ Cardinality(FreeTopics) = 1)
        /\ Publish(r, slot, <<>>) /\ UNCHANGED SubscriptionList
     \/ /\ ~isSubscriptionPresent(r) /\ Cardinality(FreeTopics) = 1
        /\ stack' = Append(stack, [kind |-> "action", pc |-> "undo", on |-> "accepted", r |-> r,
                                   slot |-> slot, a |-> a, b |-> 0])
        /\ UNCHANGED <<records, rc, persistent, faults>>

\* How an action may begin.
LEMMA ActionBegins ==
  ASSUME IInv, ListTyped, stack = <<>>, NEW r \in Requests, Action(r)
  PROVE  \E slot \in 1..MaxAcks : \E a, b : Begun(r, slot, a, b)
<1>1. PICK slot, a, b : slot = Min(FreeAcks) /\ a = Min(FreeTopics) /\ b = Min(FreeTopics \ {a})
  OBVIOUS
<1>2. FreeAcks # {} => slot \in 1..MaxAcks /\ AckWaitList[slot] = Free
  <2>1. FreeAcks \in SUBSET Nat
    BY ShadowAssumption DEF FreeAcks
  <2>2. FreeAcks # {} => slot \in FreeAcks
    BY <1>1, <2>1, MinIn
  <2>3. QED
    BY <2>2 DEF FreeAcks
<1>3. 1 \in 1..MaxAcks
  BY ShadowAssumption
<1>4. CASE FreeAcks = {}
  BY <1>1, <1>3, <1>4, Zenon DEF Action, Begun
<1>5. ASSUME Cardinality(FreeTopics) >= 2,
             SubscriptionList' = [SubscriptionList EXCEPT ![a].isFree = FALSE,
                                                          ![a].topic = Topic(r, "accepted"),
                                                          ![b].isFree = FALSE]
      PROVE  /\ a \in TopicSlots /\ b \in TopicSlots /\ a # b
             /\ SubscriptionList' \in [TopicSlots -> Records]
             /\ \A i \in TopicSlots :
                  /\ SubscriptionList'[i].isFree = (IF i \in {a, b} THEN FALSE ELSE SubscriptionList[i].isFree)
                  /\ SubscriptionList'[i].topic = (IF i = a THEN Topic(r, "accepted") ELSE SubscriptionList[i].topic)
                  /\ SubscriptionList'[i].count = SubscriptionList[i].count
                  /\ i # a /\ i # b => SubscriptionList'[i] = SubscriptionList[i]
  <2>1. a \in TopicSlots /\ b \in TopicSlots /\ a # b
    BY <1>1, <1>5, SlotsChosen
  <2>2. PICK t \in AllTopics : t = Topic(r, "accepted")
    BY DEF Topic, AllTopics, Keys, Answers
  <2>3. /\ SubscriptionList \in [TopicSlots -> Records] /\ DOMAIN SubscriptionList = TopicSlots
        /\ SubscriptionList[a] \in Records /\ SubscriptionList[b] \in Records
    BY <2>1 DEF ListTyped
  <2>4. PICK z : z = [SubscriptionList[a] EXCEPT !.isFree = FALSE]
    OBVIOUS
  <2>5. PICK x : x = [z EXCEPT !.topic = t]
    OBVIOUS
  <2>6. PICK y : y = [SubscriptionList[b] EXCEPT !.isFree = FALSE]
    OBVIOUS
  <2>7. z \in Records /\ z.isFree = FALSE /\ z.count = SubscriptionList[a].count
    BY <2>3, <2>4 DEF Records
  <2>8. x \in Records /\ x.isFree = FALSE /\ x.count = SubscriptionList[a].count /\ x.topic = t
    BY <2>5, <2>7 DEF Records
  <2>9. /\ y \in Records /\ y.isFree = FALSE /\ y.count = SubscriptionList[b].count
        /\ y.topic = SubscriptionList[b].topic
    BY <2>3, <2>6 DEF Records
  <2>10. SubscriptionList' = [SubscriptionList EXCEPT ![a] = x, ![b] = y]
    BY <1>5, <2>1, <2>2, <2>3, <2>4, <2>5, <2>6
  <2>11. \A i \in TopicSlots : SubscriptionList'[i] = IF i = b THEN y ELSE IF i = a THEN x ELSE SubscriptionList[i]
    BY <2>3, <2>10
  <2>12. SubscriptionList' \in [TopicSlots -> Records]
    BY <2>3, <2>8, <2>9, <2>10
  <2>13. /\ SubscriptionList'[a] = x /\ SubscriptionList'[b] = y
         /\ \A i \in TopicSlots : i # a /\ i # b => SubscriptionList'[i] = SubscriptionList[i]
    BY <2>1, <2>11
  <2>14. ASSUME NEW i \in TopicSlots
         PROVE  /\ SubscriptionList'[i].isFree = (IF i \in {a, b} THEN FALSE ELSE SubscriptionList[i].isFree)
                /\ SubscriptionList'[i].topic = (IF i = a THEN t ELSE SubscriptionList[i].topic)
                /\ SubscriptionList'[i].count = SubscriptionList[i].count
    <3>1. CASE i = a
      <4>1. /\ SubscriptionList'[a].isFree = FALSE /\ SubscriptionList'[a].topic = t
            /\ SubscriptionList'[a].count = SubscriptionList[a].count
        BY <2>8, <2>13
      <4>2. QED
        BY <3>1, <4>1
    <3>2. CASE i = b
      <4>1. /\ SubscriptionList'[b].isFree = FALSE /\ SubscriptionList'[b].topic = SubscriptionList[b].topic
            /\ SubscriptionList'[b].count = SubscriptionList[b].count
        BY <2>9, <2>13
      <4>2. QED
        BY <2>1, <3>2, <4>1
    <3>3. CASE i # a /\ i # b
      BY <2>13, <3>3
    <3>4. QED
      BY <3>1, <3>2, <3>3
  <2>15. QED
    BY <2>1, <2>2, <2>12, <2>13, <2>14
<1>6. CASE FreeAcks # {}
  <2>1. \/ isSubscriptionPresent(r) /\ incrementSubscriptionCnt(r) /\ Publish(r, slot, <<>>)
        \/ /\ ~isSubscriptionPresent(r) /\ Cardinality(FreeTopics) >= 2
           /\ SubscriptionList' = [SubscriptionList EXCEPT ![a].isFree = FALSE,
                                                           ![a].topic = Topic(r, "accepted"),
                                                           ![b].isFree = FALSE]
           /\ stack' = Append(stack, [kind |-> "action", pc |-> "subscribe", on |-> "accepted", r |-> r,
                                      slot |-> slot, a |-> a, b |-> b])
           /\ UNCHANGED <<AckWaitList, rc, persistent, faults>>
        \/ /\ ~isSubscriptionPresent(r) /\ (FreeTopics = {} \/ Cardinality(FreeTopics) = 1)
           /\ Publish(r, slot, <<>>) /\ UNCHANGED SubscriptionList
        \/ /\ ~isSubscriptionPresent(r) /\ Cardinality(FreeTopics) = 1
           /\ stack' = Append(stack, [kind |-> "action", pc |-> "undo", on |-> "accepted", r |-> r,
                                      slot |-> slot, a |-> a, b |-> 0])
           /\ UNCHANGED <<records, rc, persistent, faults>>
    BY <1>1, <1>6, Zenon DEF Action
  <2>2. CASE isSubscriptionPresent(r) /\ incrementSubscriptionCnt(r) /\ Publish(r, slot, <<>>)
    BY <1>1, <1>2, <1>6, <2>2, Zenon DEF Begun
  <2>3. CASE /\ ~isSubscriptionPresent(r) /\ Cardinality(FreeTopics) >= 2
             /\ SubscriptionList' = [SubscriptionList EXCEPT ![a].isFree = FALSE,
                                                             ![a].topic = Topic(r, "accepted"),
                                                             ![b].isFree = FALSE]
             /\ stack' = Append(stack, [kind |-> "action", pc |-> "subscribe", on |-> "accepted", r |-> r,
                                        slot |-> slot, a |-> a, b |-> b])
             /\ UNCHANGED <<AckWaitList, rc, persistent, faults>>
    <3>1. slot \in 1..MaxAcks
      BY <1>2, <1>6
    <3>2. /\ a \in TopicSlots /\ b \in TopicSlots /\ a # b
          /\ SubscriptionList' \in [TopicSlots -> Records]
          /\ \A i \in TopicSlots :
               /\ SubscriptionList'[i].isFree = (IF i \in {a, b} THEN FALSE ELSE SubscriptionList[i].isFree)
               /\ SubscriptionList'[i].topic = (IF i = a THEN Topic(r, "accepted") ELSE SubscriptionList[i].topic)
               /\ SubscriptionList'[i].count = SubscriptionList[i].count
               /\ i # a /\ i # b => SubscriptionList'[i] = SubscriptionList[i]
      <4>1. /\ Cardinality(FreeTopics) >= 2
            /\ SubscriptionList' = [SubscriptionList EXCEPT ![a].isFree = FALSE,
                                                            ![a].topic = Topic(r, "accepted"),
                                                            ![b].isFree = FALSE]
        BY <2>3
      <4>2. QED
        BY ONLY <1>5, <4>1
    <3>3. TakesBoth(r, slot, a, b)
      BY <2>3, <3>2, Zenon DEF TakesBoth
    <3>4. QED
      BY <1>1, <2>3, <3>1, <3>3, Zenon DEF Begun
  <2>4. CASE \/ /\ ~isSubscriptionPresent(r) /\ (FreeTopics = {} \/ Cardinality(FreeTopics) = 1)
                /\ Publish(r, slot, <<>>) /\ UNCHANGED SubscriptionList
             \/ /\ ~isSubscriptionPresent(r) /\ Cardinality(FreeTopics) = 1
                /\ stack' = Append(stack, [kind |-> "action", pc |-> "undo", on |-> "accepted", r |-> r,
                                           slot |-> slot, a |-> a, b |-> 0])
                /\ UNCHANGED <<records, rc, persistent, faults>>
    BY <1>1, <1>2, <1>6, <2>4, Zenon DEF Begun
  <2>5. QED
    BY <2>1, <2>2, <2>3, <2>4
<1>7. QED
  BY <1>4, <1>6

\* A new action.
LEMMA NewCallTyped ==
  ASSUME ~CallbacksCall, IsFiniteSet(Requests), IInv, IInv', RecordsTyped, Call
  PROVE  RecordsTyped'
<1>1. stack = <<>> /\ UNCHANGED <<handlers, subscribed>>
  BY DEF Call, MayCall, topics
<1>2. PICK r \in Requests : rc[r] = "none" /\ Action(r)
  BY DEF Call
<1>20. PICK slot \in 1..MaxAcks : \E a, b : Begun(r, slot, a, b)
  BY <1>1, <1>2, ActionBegins DEF RecordsTyped
<1>21. PICK a, b : Begun(r, slot, a, b)
  BY <1>20
<1>3. /\ a = Min(FreeTopics) /\ b = Min(FreeTopics \ {a})
      /\ \/ rc' = [rc EXCEPT ![r] = "FAILURE"] /\ UNCHANGED <<records, stack, persistent, faults>>
         \/ /\ isSubscriptionPresent(r) /\ incrementSubscriptionCnt(r)
            /\ Publish(r, slot, <<>>) /\ AckWaitList[slot] = Free
         \/ /\ ~isSubscriptionPresent(r) /\ Cardinality(FreeTopics) >= 2 /\ TakesBoth(r, slot, a, b)
         \/ /\ ~isSubscriptionPresent(r) /\ (FreeTopics = {} \/ Cardinality(FreeTopics) = 1)
            /\ Publish(r, slot, <<>>) /\ UNCHANGED SubscriptionList
         \/ /\ ~isSubscriptionPresent(r) /\ Cardinality(FreeTopics) = 1
            /\ stack' = Append(stack, [kind |-> "action", pc |-> "undo", on |-> "accepted", r |-> r,
                                       slot |-> slot, a |-> a, b |-> 0])
            /\ UNCHANGED <<records, rc, persistent, faults>>
  BY <1>21 DEF Begun
<1>4. /\ SubscriptionList \in [TopicSlots -> Records] /\ ~Opening /\ DOMAIN rc = Requests
      /\ \A i \in TopicSlots : SubscriptionList[i].count \in Nat
  <2>1. SubscriptionList \in [TopicSlots -> Records] /\ ~Opening /\ DOMAIN rc = Requests
    BY <1>1 DEF RecordsTyped, ListTyped, Opening, IInv, RequestsOK, RequestsTyped
  <2>2. \A i \in TopicSlots : SubscriptionList[i] \in Records
    BY <2>1
  <2>3. QED
    BY <2>1, <2>2 DEF Records
<1>5. r \notin Called
  BY <1>2, <1>4 DEF Called
<1>6. CASE rc' = [rc EXCEPT ![r] = "FAILURE"] /\ UNCHANGED <<records, stack, persistent, faults>>
  <2>1. stack' = <<>> /\ UNCHANGED <<SubscriptionList, persistent, faults>>
    BY <1>1, <1>6 DEF records
  <2>2. \A q \in Requests : rc[q] # "none" => rc'[q] # "none"
    BY <1>4, <1>6
  <2>3. CallsTyped' /\ ListTyped'
    BY <1>4, <2>1, <2>2, EndTyped DEF RecordsTyped
  <2>4. QED
    BY <1>1, <2>1, <2>3 DEF RecordsTyped, TopicsTyped
<1>7. CASE incrementSubscriptionCnt(r) /\ Publish(r, slot, <<>>)
  <2>1. /\ SubscriptionList' \in [TopicSlots -> Records]
        /\ \A i \in TopicSlots : SubscriptionList'[i].count = SubscriptionList[i].count
                                 \/ SubscriptionList'[i].count = SubscriptionList[i].count + 1
    BY <1>4, <1>7, CountsWritten
  <2>2. /\ stack' = <<>> /\ persistent' \subseteq Keys /\ faults' \in Nat
        /\ rc'[r] # "none" /\ \A q \in Requests : rc[q] # "none" => rc'[q] # "none"
    BY <1>7, PublishIs DEF RecordsTyped
  <2>3. Called \subseteq Called' /\ r \in Called'
    BY <1>4, <2>2 DEF Called
  <2>4. \A i \in TopicSlots :
           \/ SubscriptionList'[i].count <= SubscriptionList[i].count
           \/ SubscriptionList'[i].count = SubscriptionList[i].count + 1 /\ Called' \ Called # {}
    BY <1>4, <1>5, <2>1, <2>3
  <2>5. ListTyped'
    BY <2>1, <2>3, <2>4, CountsBounded DEF RecordsTyped
  <2>6. CallsTyped'
    BY <2>2, NoCalls
  <2>7. QED
    BY <1>1, <2>2, <2>5, <2>6 DEF RecordsTyped, TopicsTyped
<1>8. CASE Publish(r, slot, <<>>) /\ UNCHANGED SubscriptionList
  <2>1. /\ stack' = <<>> /\ persistent' \subseteq Keys /\ faults' \in Nat
        /\ \A q \in Requests : rc[q] # "none" => rc'[q] # "none"
    BY <1>8, PublishIs DEF RecordsTyped
  <2>2. CallsTyped' /\ ListTyped'
    BY <1>4, <1>8, <2>1, EndTyped DEF RecordsTyped
  <2>3. QED
    BY <1>1, <2>1, <2>2 DEF RecordsTyped, TopicsTyped
<1>9. ASSUME NEW pc \in {"subscribe", "undo"}, NEW second \in Places, a \in TopicSlots,
             pc = "subscribe" => second \in TopicSlots /\ a # second,
             stack' = Append(stack, [kind |-> "action", pc |-> pc, on |-> "accepted", r |-> r,
                                     slot |-> slot, a |-> a, b |-> second]),
             UNCHANGED <<AckWaitList, rc, persistent, faults>>,
             SubscriptionList' \in [TopicSlots -> Records],
             \A i \in TopicSlots : SubscriptionList'[i].count = SubscriptionList[i].count
      PROVE  RecordsTyped'
  <2>1. PICK f : f = [kind |-> "action", pc |-> pc, on |-> "accepted", r |-> r,
                      slot |-> slot, a |-> a, b |-> second]
    OBVIOUS
  <2>2. a \in Places
    BY <1>9, ShadowAssumption DEF Places, TopicSlots
  <2>3. f \in Frames /\ f.kind = "action" /\ f.pc = pc /\ f.r = r /\ f.a = a /\ f.b = second
    BY <1>9, <2>1, <2>2 DEF Frames, Kinds, Calls, Answers
  <2>4. Waiting' = Waiting
    BY <1>9 DEF Waiting
  <2>5. CallTyped(f, Waiting')
    BY <1>9, <2>3 DEF CallTyped
  <2>6. Len(stack) < MaxDepth /\ \A n \in DOMAIN stack : stack[n].r # f.r
    BY <1>1, ShadowAssumption
  <2>7. CallsTyped'
    BY <1>9, <2>1, <2>3, <2>4, <2>5, <2>6, CallsPushed DEF RecordsTyped
  <2>8. Called \subseteq Called'
    BY <1>4, <1>9 DEF Called
  <2>9. \A i \in TopicSlots : SubscriptionList'[i].count <= SubscriptionList[i].count
    BY <1>4, <1>9
  <2>10. ListTyped'
    BY <1>9, <2>8, <2>9, CountsBounded DEF RecordsTyped
  <2>11. QED
    BY <1>1, <1>9, <2>7, <2>10 DEF RecordsTyped, TopicsTyped
<1>10. CASE TakesBoth(r, slot, a, b)
  <2>1. /\ a \in TopicSlots /\ b \in TopicSlots /\ a # b
        /\ SubscriptionList' \in [TopicSlots -> Records]
        /\ \A i \in TopicSlots : SubscriptionList'[i].count = SubscriptionList[i].count
        /\ stack' = Append(stack, [kind |-> "action", pc |-> "subscribe", on |-> "accepted", r |-> r,
                                   slot |-> slot, a |-> a, b |-> b])
        /\ UNCHANGED <<AckWaitList, rc, persistent, faults>>
    BY <1>10, Zenon DEF TakesBoth
  <2>2. "subscribe" \in {"subscribe", "undo"} /\ b \in Places
    BY <2>1, ShadowAssumption DEF TopicSlots, Places
  <2>3. QED
    BY <1>9, <2>1, <2>2
<1>11. CASE /\ Cardinality(FreeTopics) = 1
            /\ stack' = Append(stack, [kind |-> "action", pc |-> "undo", on |-> "accepted", r |-> r,
                                       slot |-> slot, a |-> a, b |-> 0])
            /\ UNCHANGED <<records, rc, persistent, faults>>
  <2>1. a \in TopicSlots
    BY <1>3, <1>11, SlotsChosen
  <2>2. 0 \in Places /\ "undo" \in {"subscribe", "undo"} /\ "undo" # "subscribe"
    BY ShadowAssumption DEF Places
  <2>3. UNCHANGED <<AckWaitList, SubscriptionList>>
    BY <1>11 DEF records
  <2>4. QED
    BY <1>4, <1>9, <1>11, <2>1, <2>2, <2>3
<1>12. QED
  BY <1>3, <1>6, <1>7, <1>8, <1>10, <1>11

\* A new connection starts with free records.
LEMMA ShadowConnectTyped ==
  ASSUME IsFiniteSet(Requests), IInv, IInv', RecordsTyped, ShadowConnect
  PROVE  RecordsTyped'
<1>1. /\ stack' = <<>> /\ stack = <<>> /\ UNCHANGED rc /\ handlers' = {} /\ subscribed' = {} /\ persistent' = {} /\ faults' = 0
      /\ SubscriptionList' = [i \in TopicSlots |->
                                [SubscriptionList[i] EXCEPT !.isFree = TRUE, !.count = 0, !.isSticky = FALSE]]
  BY DEF ShadowConnect, TopicSlots
<1>2. SubscriptionList \in [TopicSlots -> Records] /\ \A i \in TopicSlots : SubscriptionList[i].count \in Nat
  <2>1. SubscriptionList \in [TopicSlots -> Records]
    BY DEF RecordsTyped, ListTyped
  <2>2. \A i \in TopicSlots : SubscriptionList[i] \in Records
    BY <2>1
  <2>3. QED
    BY <2>1, <2>2 DEF Records
<1>3. ASSUME NEW i \in TopicSlots
      PROVE  SubscriptionList'[i] \in Records /\ SubscriptionList'[i].count = 0 /\ SubscriptionList'[i].isFree = TRUE
  <2>1. SubscriptionList[i] \in Records
    BY <1>2
  <2>2. SubscriptionList'[i] = [[[SubscriptionList[i] EXCEPT !.isFree = TRUE] EXCEPT !.count = 0] EXCEPT !.isSticky = FALSE]
    BY <1>1
  <2>3. PICK x, y, z : /\ x = [SubscriptionList[i] EXCEPT !.isFree = TRUE]
                       /\ y = [x EXCEPT !.count = 0] /\ z = [y EXCEPT !.isSticky = FALSE]
    OBVIOUS
  <2>4. x \in Records /\ x.isFree = TRUE
    BY <2>1, <2>3 DEF Records
  <2>5. y \in Records /\ y.isFree = TRUE /\ y.count = 0
    BY <2>3, <2>4 DEF Records
  <2>6. z \in Records /\ z.isFree = TRUE /\ z.count = 0
    BY <2>3, <2>5 DEF Records
  <2>7. SubscriptionList'[i] = z
    BY <2>2, <2>3
  <2>8. QED
    BY <2>6, <2>7
<1>4. SubscriptionList' \in [TopicSlots -> Records]
  BY <1>1, <1>3
<1>5. \A i \in TopicSlots : SubscriptionList'[i].count <= SubscriptionList[i].count
  <2>1. \A n \in Nat : 0 <= n
    OBVIOUS
  <2>2. QED
    BY <1>2, <1>3, <2>1
<1>6. CallsTyped' /\ ~Opening' /\ ~Opening
  BY <1>1, NoCalls DEF Opening
<1>7. Called \subseteq Called'
  BY <1>1, <1>6 DEF Called
<1>8. ListTyped'
  BY <1>4, <1>5, <1>7, CountsBounded DEF RecordsTyped
<1>9. QED
  BY <1>1, <1>6, <1>8 DEF RecordsTyped, TopicsTyped

\* Every step keeps the types.
LEMMA TypedStep ==
  ASSUME ~CallbacksCall, IsFiniteSet(Requests), IInv, IInv', RecordsTyped, [ShadowNext]_shadowVars
  PROVE  RecordsTyped'
<1>1. CASE Call
  BY <1>1, NewCallTyped
<1>2. CASE Running
  BY <1>2, SubscribeTyped, UnsubscribeTyped, UndoTyped, CallbackReturnsTyped DEF Running
<1>3. CASE SubscribeFails
  BY <1>3, SubscribeFailsTyped
<1>4. CASE AckStatusCallback
  BY <1>4, AckStatusCallbackTyped
<1>5. CASE Expiring
  BY <1>5, HandleExpiredTyped DEF Expiring
<1>6. CASE ShadowConnect
  BY <1>6, ShadowConnectTyped
<1>7. CASE ServiceDecides \/ UNCHANGED shadowVars
  <2>1. UNCHANGED <<AckWaitList, SubscriptionList, stack, rc, handlers, subscribed, persistent, faults>>
    BY <1>7 DEF ServiceDecides, shadowVars, records, topics, ghosts
  <2>2. QED
    BY <2>1 DEF RecordsTyped, CallsTyped, ListTyped, TopicsTyped, Waiting, Called, Opening
<1>8. QED
  BY <1>1, <1>2, <1>3, <1>4, <1>5, <1>6, <1>7 DEF ShadowNext

\* At the start all slots are free.
LEMMA TypedInit == IsFiniteSet(Requests) /\ ShadowInit => RecordsTyped
<1> SUFFICES ASSUME IsFiniteSet(Requests), ShadowInit PROVE RecordsTyped
  OBVIOUS
<1>1. /\ stack = <<>> /\ handlers = {} /\ subscribed = {} /\ persistent = {} /\ faults = 0
      /\ SubscriptionList = [i \in TopicSlots |-> [topic |-> <<>>, count |-> 0, isSticky |-> FALSE, isFree |-> TRUE]]
  BY DEF ShadowInit, TopicSlots
<1>2. [topic |-> <<>>, count |-> 0, isSticky |-> FALSE, isFree |-> TRUE] \in Records
  BY DEF Records
<1>3. SubscriptionList \in [TopicSlots -> Records] /\ \A i \in TopicSlots : SubscriptionList[i].count = 0
  BY <1>1, <1>2
<1>4. Cardinality(Called) \in Nat
  BY StartsOK, CalledFinite
<1>5. ListTyped
  BY <1>3, <1>4 DEF ListTyped
<1>6. Len(<<>>) = 0 /\ DOMAIN <<>> = {} /\ 0 <= MaxDepth
  BY ShadowAssumption
<1>7. CallsTyped
  BY <1>1, <1>6 DEF CallsTyped
<1>8. QED
  BY <1>1, <1>5, <1>7 DEF RecordsTyped, TopicsTyped

\* What an earlier connection left are handlers of slots.
LEMMA LeftoversTyped ==
  ASSUME RecordsTyped, LeftByEarlier, [ShadowNext]_shadowVars
  PROVE  LeftByEarlier'
<1>1. SUFFICES leftovers' \subseteq leftovers \/ leftovers' = leftovers \cup handlers
  BY DEF RecordsTyped, TopicsTyped, LeftByEarlier
<1>2. \A topic : Forgets(topic) => leftovers' \subseteq leftovers
  BY DEF Forgets
<1>3. CASE Call \/ SubscribeFails \/ CallbackReturns \/ AckStatusCallback \/ Expiring \/ ServiceDecides
  BY <1>3 DEF Call, SubscribeFails, CallbackReturns, AckStatusCallback, Expiring, HandleExpired, ServiceDecides, topics
<1>4. ASSUME NEW answer \in Answers, Subscribe(answer) PROVE UNCHANGED leftovers
  BY <1>4 DEF Subscribe
<1>5. ASSUME NEW answer \in Answers, Unsubscribe(answer) PROVE leftovers' \subseteq leftovers
  BY <1>2, <1>5 DEF Unsubscribe, topics
<1>6. CASE Undo
  BY <1>2, <1>6 DEF Undo, topics
<1>7. CASE ShadowConnect
  BY <1>7 DEF ShadowConnect
<1>8. CASE UNCHANGED shadowVars
  BY <1>8 DEF shadowVars, topics
<1>9. QED
  BY <1>3, <1>4, <1>5, <1>6, <1>7, <1>8 DEF ShadowNext, Running

\* What the types say of the property.
LEMMA TypedIs ==
  ASSUME IsFiniteSet(Requests), IInv, RecordsTyped, LeftByEarlier
  PROVE  ShadowTypeOK
<1>1. \A i \in 1..MaxAcks : AckWaitList[i] \in Requests \cup {Free}
  BY DEF IInv, RequestsOK, RequestsTyped
<1>2. ASSUME NEW i \in 1..MaxTopics PROVE SubscriptionList[i].count \in 0..Cardinality(Requests)
  <2>1. i \in TopicSlots /\ SubscriptionList \in [TopicSlots -> Records]
    BY <1>2 DEF TopicSlots, RecordsTyped, ListTyped
  <2>2. SubscriptionList[i] \in Records
    BY <2>1
  <2>3. SubscriptionList[i].count \in Nat /\ SubscriptionList[i].count <= Cardinality(Called)
    BY <2>1, <2>2 DEF Records, RecordsTyped, ListTyped
  <2>4. Cardinality(Requests) \in Nat
    BY FS_CardinalityType
  <2>5. QED
    BY <2>3, <2>4, CalledFinite
<1>3. ASSUME NEW r \in Requests PROVE told[r] \in Seq(Outcomes)
  <2>1. told[r] = <<>> \/ \E o \in Outcomes : told[r] = <<o>>
    BY DEF IInv, RequestsOK, RequestsTyped
  <2>2. <<>> \in Seq(Outcomes) /\ \A o \in Outcomes : <<o>> \in Seq(Outcomes)
    OBVIOUS
  <2>3. QED
    BY <2>1, <2>2
<1>4. QED
  BY <1>1, <1>2, <1>3 DEF ShadowTypeOK, RecordsTyped, CallsTyped, TopicsTyped, LeftByEarlier, TopicSlots, AllTopics,
                              IInv, RequestsOK, RequestsTyped

\* Whatever fails, the records stay within their slots, no count passes the number of
\* requests, and the calls in progress their depth, for any finite set of requests, when
\* no callback calls an action.
THEOREM ShadowTyped ==
  ASSUME ~CallbacksCall, IsFiniteSet(Requests)
  PROVE  ShadowSpec => []ShadowTypeOK
<1>1. ShadowInit => IInv /\ RecordsTyped /\ LeftByEarlier
  BY StartsOK, TypedInit DEF ShadowInit, LeftByEarlier
<1>2. IInv /\ RecordsTyped /\ LeftByEarlier /\ [ShadowNext]_shadowVars
        => IInv' /\ RecordsTyped' /\ LeftByEarlier'
  BY StepOK, TypedStep, LeftoversTyped
<1>3. IInv /\ RecordsTyped /\ LeftByEarlier => ShadowTypeOK
  BY TypedIs
<1>4. QED
  BY <1>1, <1>2, <1>3, PTL DEF ShadowSpec

-----------------------------------------------------------------------------
(* The agreement of the records and the subscriptions, action by action.   *)

\* Where the agreement leads after a step, in the state it leads to.
LEMMA AgreeNext ==
  ASSUME NEW list2, NEW claim2, NEW hand2, NEW uses2, NEW kept2, NEW leaving2,
         SubscriptionList' = list2, Claims' = claim2, handlers' = hand2, Uses' = uses2, Kept' = kept2,
         Leaving' = leaving2, subscribed' = {claim2[i] : i \in hand2},
         RecordsAgree(list2, claim2, hand2, uses2, kept2),
         PairsAgree(list2, claim2, hand2, leaving2), CallsAgree'
  PROVE  AllAgree'
  BY DEF AllAgree

\* The same of the calls.
LEMMA CallsNext ==
  ASSUME NEW list2, NEW claim2, NEW hand2, NEW halves2,
         SubscriptionList' = list2, Claims' = claim2, handlers' = hand2, Halves' = halves2,
         Owned(list2) \ hand2 = halves2,
         \A n \in DOMAIN stack' : CallAgrees(stack'[n], list2, claim2, hand2),
         Opening' => \A n \in DOMAIN stack' : n # 1 => stack'[n].r[1] # stack'[1].r[1]
  PROVE  CallsAgree'
  BY DEF CallsAgree

\* A key has two topics, and a topic one key.
LEMMA KeyTopics ==
  /\ \A k \in Keys : <<k, "accepted">> \in AllTopics /\ <<k, "rejected">> \in AllTopics
  /\ \A k : <<k, "accepted">>[1] = k /\ <<k, "rejected">>[1] = k /\ <<k, "accepted">> # <<k, "rejected">>
  /\ \A t \in AllTopics : t = <<t[1], "accepted">> \/ t = <<t[1], "rejected">>
  /\ \A r \in Requests : /\ r[1] \in Keys
                         /\ Topic(r, "accepted") = <<r[1], "accepted">>
                         /\ Topic(r, "rejected") = <<r[1], "rejected">>
  BY DEF AllTopics, Answers, Keys, Topic

\* A new user of both topics of its key.
LEMMA BothBegin ==
  ASSUME IsFiniteSet(Requests), NEW list \in [TopicSlots -> Records], NEW list2 \in [TopicSlots -> Records],
         NEW claim, NEW hand, NEW uses \in SUBSET (Requests \X Answers), NEW kept, NEW more, NEW leaving,
         RecordsAgree(list, claim, hand, uses, kept), PairsAgree(list, claim, hand, leaving),
         NEW r \in Requests, <<r, "accepted">> \notin uses, <<r, "rejected">> \notin uses,
         NEW oa \in hand, NEW ob \in hand, claim[oa] = <<r[1], "accepted">>, claim[ob] = <<r[1], "rejected">>,
         r[1] \notin kept \cup more => ~list2[oa].isSticky, list2[oa].isSticky = list2[ob].isSticky,
         Raises(list, list2, {oa, ob})
  PROVE  /\ RecordsAgree(list2, claim, hand, uses \cup {<<r, "accepted">>, <<r, "rejected">>}, kept \cup more)
         /\ PairsAgree(list2, claim, hand, leaving) /\ Owned(list2) = Owned(list)
<1>0. PICK kept2 : kept2 = kept \cup more /\ kept \subseteq kept2 /\ (r[1] \notin kept2 => ~list2[oa].isSticky)
  OBVIOUS
<1>1. PICK pa \in Requests \X Answers : pa = <<r, "accepted">> /\ Topic(pa[1], pa[2]) = claim[oa]
  BY KeyTopics DEF Answers
<1>2. PICK pb \in Requests \X Answers : pb = <<r, "rejected">> /\ Topic(pb[1], pb[2]) = claim[ob] /\ pb # pa
  BY <1>1, KeyTopics DEF Answers
<1>3. oa # ob /\ oa \in TopicSlots /\ ob \in TopicSlots /\ claim[oa][1] = r[1] /\ claim[ob][1] = r[1]
  BY KeyTopics DEF RecordsAgree, Owned
<1>4. PICK mid : mid = [list EXCEPT ![oa] = list2[oa]]
  OBVIOUS
<1>5. /\ mid \in [TopicSlots -> Records] /\ mid[oa] = list2[oa] /\ mid[ob] = list[ob]
      /\ \A i \in TopicSlots : i # oa => mid[i] = list[i]
  BY <1>3, <1>4
<1>6. Raises(list, mid, {oa})
  BY <1>3, <1>5 DEF Raises
<1>7. "accepted" \in Answers /\ "rejected" \in Answers /\ pa \notin uses /\ pb \notin uses /\ claim[oa] = Topic(pa[1], pa[2]) /\ claim[ob] = Topic(pb[1], pb[2])
      /\ (claim[oa][1] \notin kept2 => ~mid[oa].isSticky)
      /\ (claim[ob][1] \notin kept2 => ~list2[ob].isSticky) /\ kept2 \subseteq kept2
  BY <1>0, <1>1, <1>2, <1>3, <1>5 DEF Answers
<1>8. PICK half : half = uses \cup {pa} /\ half \in SUBSET (Requests \X Answers) /\ pb \notin half
                  /\ RecordsAgree(mid, claim, hand, half, kept2)
  <2>1. RecordsAgree(mid, claim, hand, uses \cup {pa}, kept2)
    BY <1>0, <1>1, <1>6, <1>7, UseBegins
  <2>2. uses \cup {pa} \in SUBSET (Requests \X Answers) /\ pb \notin uses \cup {pa}
    BY <1>2, <1>7
  <2>3. QED
    BY <2>1, <2>2
<1>9. Raises(mid, list2, {ob})
  BY <1>3, <1>5 DEF Raises
<1>10. RecordsAgree(list2, claim, hand, half \cup {pb}, kept2)
  BY <1>2, <1>5, <1>7, <1>8, <1>9, UseBegins
<1>11. Owned(list2) = Owned(list)
  BY DEF Owned, Raises
<1>12. \A i, j \in hand : claim[i][1] = claim[j][1] =>
          list2[i].count = list2[j].count /\ list2[i].isSticky = list2[j].isSticky
  <2>1. \A i \in hand : i \in TopicSlots /\ i \in Owned(list) /\ claim[i] \in AllTopics
    BY DEF RecordsAgree, Owned
  <2>2. \A i \in hand : claim[i][1] = r[1] => i \in {oa, ob}
    <3>1. ASSUME NEW i \in hand, claim[i][1] = r[1] PROVE claim[i] = claim[oa] \/ claim[i] = claim[ob]
      BY <2>1, <3>1, KeyTopics
    <3>2. QED
      BY <2>1, <3>1 DEF RecordsAgree
  <2>3. ASSUME NEW i \in hand, NEW j \in hand, claim[i][1] = claim[j][1]
        PROVE  /\ list[i].count = list[j].count /\ list[i].isSticky = list[j].isSticky
               /\ i \in {oa, ob} <=> j \in {oa, ob}
    BY <1>3, <2>2, <2>3 DEF PairsAgree
  <2>4. QED
    BY <1>3, <2>1, <2>3 DEF Raises
<1>13. PairsAgree(list2, claim, hand, leaving)
  BY <1>11, <1>12, PairsCount
<1>14. half \cup {pb} = uses \cup {<<r, "accepted">>, <<r, "rejected">>}
  BY <1>1, <1>2, <1>8
<1>15. QED
  BY <1>0, <1>10, <1>11, <1>13, <1>14

\* A user of both topics that is not the last is taken off both counts.
TakesOff(list, list2, claim, hand, uses, r, oa, ob) ==
  /\ r \in Requests /\ <<r, "accepted">> \in uses /\ <<r, "rejected">> \in uses
  /\ oa \in hand /\ ob \in hand /\ claim[oa] = <<r[1], "accepted">> /\ claim[ob] = <<r[1], "rejected">>
  /\ ~SoleUse(list[oa]) /\ Lowers(list, list2, {oa, ob})

\* Then the records agree with the users that are left.
LEMMA BothEnd ==
  ASSUME IsFiniteSet(Requests), NEW list \in [TopicSlots -> Records], NEW list2 \in [TopicSlots -> Records],
         NEW claim, NEW hand, NEW uses \in SUBSET (Requests \X Answers), NEW kept, NEW leaving,
         RecordsAgree(list, claim, hand, uses, kept), PairsAgree(list, claim, hand, leaving),
         NEW r, NEW oa, NEW ob, TakesOff(list, list2, claim, hand, uses, r, oa, ob)
  PROVE  /\ RecordsAgree(list2, claim, hand, uses \ {<<r, "accepted">>, <<r, "rejected">>}, kept)
         /\ PairsAgree(list2, claim, hand, leaving) /\ Owned(list2) = Owned(list)
<1>0. /\ r \in Requests /\ <<r, "accepted">> \in uses /\ <<r, "rejected">> \in uses
      /\ oa \in hand /\ ob \in hand /\ claim[oa] = <<r[1], "accepted">> /\ claim[ob] = <<r[1], "rejected">>
      /\ ~SoleUse(list[oa]) /\ Lowers(list, list2, {oa, ob})
  BY DEF TakesOff
<1>1. PICK pa \in uses : pa = <<r, "accepted">> /\ Topic(pa[1], pa[2]) = claim[oa]
  BY <1>0, KeyTopics
<1>2. PICK pb \in uses : pb = <<r, "rejected">> /\ Topic(pb[1], pb[2]) = claim[ob] /\ pb # pa
  BY <1>0, <1>1, KeyTopics
<1>3. /\ oa \in hand /\ ob \in hand /\ oa # ob /\ oa \in TopicSlots /\ ob \in TopicSlots /\ claim[oa][1] = r[1] /\ claim[ob][1] = r[1]
      /\ list[oa].count = list[ob].count /\ list[oa].isSticky = list[ob].isSticky
  <2>1. oa # ob /\ oa \in TopicSlots /\ ob \in TopicSlots /\ claim[oa][1] = r[1] /\ claim[ob][1] = r[1]
    BY <1>0, KeyTopics DEF RecordsAgree, Owned
  <2>2. QED
    BY <1>0, <2>1 DEF PairsAgree
<1>4. ~SoleUse(list[ob])
  BY <1>0, <1>3 DEF SoleUse
<1>5. PICK mid : mid = [list EXCEPT ![oa] = list2[oa]]
  OBVIOUS
<1>6. /\ mid \in [TopicSlots -> Records] /\ mid[oa] = list2[oa] /\ mid[ob] = list[ob]
      /\ \A i \in TopicSlots : i # oa => mid[i] = list[i]
  BY <1>3, <1>5
<1>7. Lowers(list, mid, {oa})
  BY <1>0, <1>6 DEF Lowers
<1>8. PICK half : half = uses \ {pa} /\ half \in SUBSET (Requests \X Answers) /\ pb \in half
  BY <1>1, <1>2
<1>9. RecordsAgree(mid, claim, hand, half, kept)
  BY <1>0, <1>1, <1>3, <1>7, <1>8, UseEnds
<1>10. Lowers(mid, list2, {ob})
  BY <1>0, <1>3, <1>6 DEF Lowers
<1>11. ~SoleUse(mid[ob])
  BY <1>4, <1>6
<1>12. RecordsAgree(list2, claim, hand, half \ {pb}, kept)
  BY <1>2, <1>3, <1>6, <1>8, <1>9, <1>10, <1>11, UseEnds
<1>13. Owned(list2) = Owned(list)
  BY <1>0 DEF Owned, Lowers
<1>14. \A i, j \in hand : claim[i][1] = claim[j][1] =>
          list2[i].count = list2[j].count /\ list2[i].isSticky = list2[j].isSticky
  <2>1. \A i \in hand : i \in TopicSlots /\ i \in Owned(list) /\ claim[i] \in AllTopics
    BY DEF RecordsAgree, Owned
  <2>2. \A i \in hand : claim[i][1] = r[1] => i \in {oa, ob}
    <3>1. ASSUME NEW i \in hand, claim[i][1] = r[1] PROVE claim[i] = claim[oa] \/ claim[i] = claim[ob]
      BY <1>0, <2>1, <3>1, KeyTopics
    <3>2. QED
      BY <1>0, <2>1, <3>1 DEF RecordsAgree
  <2>3. ASSUME NEW i \in hand, NEW j \in hand, claim[i][1] = claim[j][1]
        PROVE  /\ list[i].count = list[j].count /\ list[i].isSticky = list[j].isSticky
               /\ i \in {oa, ob} <=> j \in {oa, ob}
    BY <1>0, <1>3, <2>2, <2>3 DEF PairsAgree
  <2>4. QED
    BY <1>0, <2>1, <2>3 DEF Lowers
<1>15. PairsAgree(list2, claim, hand, leaving)
  BY <1>13, <1>14, PairsCount
<1>16. half \ {pb} = uses \ {<<r, "accepted">>, <<r, "rejected">>}
  BY <1>1, <1>2, <1>8
<1>17. QED
  BY <1>12, <1>13, <1>15, <1>16

\* What the records are for when no call is in progress.
LEMMA QuietIs ==
  ASSUME stack = <<>>, SubscriptionList \in [TopicSlots -> Records]
  PROVE  /\ ~Opening /\ Halves = {} /\ Kept = persistent /\ Leaving = {} /\ Uses = Waiting \X Answers
         /\ Claims = [i \in TopicSlots |-> SubscriptionList[i].topic]
<1>1. ~Opening /\ \A r, answer : ~Ending(r, answer)
  BY DEF Opening, Ending
<1>2. Waiting \subseteq Requests
  BY DEF Waiting
<1>3. Uses = Waiting \X Answers
  BY <1>1, <1>2 DEF Uses
<1>4. QED
  BY <1>1, <1>3 DEF Halves, Kept, Leaving, Claims

\* And after a step.
LEMMA QuietNext ==
  ASSUME stack' = <<>>
  PROVE  /\ ~Opening' /\ Halves' = {} /\ Kept' = persistent' /\ Leaving' = {} /\ Uses' = Waiting' \X Answers
         /\ Claims' = [i \in TopicSlots |-> SubscriptionList'[i].topic]
<1>1. ~Opening' /\ \A r, answer : ~Ending(r, answer)'
  BY DEF Opening, Ending
<1>2. Waiting' \subseteq Requests
  BY DEF Waiting
<1>3. Uses' = Waiting' \X Answers
  BY <1>1, <1>2 DEF Uses
<1>4. QED
  BY <1>1, <1>3 DEF Halves, Kept, Leaving, Claims

\* Nothing the agreement is about has changed.
LEMMA AgreeStays ==
  ASSUME AllAgree, UNCHANGED <<records, stack, handlers, subscribed, persistent>>
  PROVE  AllAgree'
  BY DEF AllAgree, CallsAgree, Claims, Halves, Uses, Kept, Leaving, Waiting, Opening, Ending, records

\* A request gets its slot when it is let in.
LEMMA LetIn ==
  ASSUME IInv, NEW r \in Requests, rc[r] = "none", NEW slot \in 1..MaxAcks, AckWaitList[slot] = Free,
         AckWaitList' = [AckWaitList EXCEPT ![slot] = r]
  PROVE  r \notin Waiting /\ Waiting' = Waiting \cup {r}
<1>1. AckWaitList \in [1..MaxAcks -> Requests \cup {Free}] /\ r # Free
  BY FreeAssumption DEF IInv, RequestsOK, RequestsTyped
<1>2. \A i \in 1..MaxAcks : AckWaitList'[i] = IF i = slot THEN r ELSE AckWaitList[i]
  BY <1>1
<1>3. \A i \in 1..MaxAcks : AckWaitList[i] # r
  BY <1>1 DEF IInv, RequestsOK
<1>4. Free \notin Requests
  BY FreeAssumption
<1>5. QED
  BY <1>2, <1>3, <1>4 DEF Waiting

\* An action on topics that are subscribed already.
LEMMA PresentAgrees ==
  ASSUME IsFiniteSet(Requests), IInv, RecordsTyped, RecordsTyped', AllAgree, stack = <<>>,
         NEW r \in Requests, rc[r] = "none", NEW slot \in 1..MaxAcks, AckWaitList[slot] = Free,
         isSubscriptionPresent(r), incrementSubscriptionCnt(r), Publish(r, slot, <<>>),
         UNCHANGED <<handlers, subscribed, faults>>
  PROVE  AllAgree'
<1>1. PICK list : list = SubscriptionList /\ list \in [TopicSlots -> Records]
  BY DEF RecordsTyped, ListTyped
<1>2. PICK list2 : list2 = SubscriptionList' /\ list2 \in [TopicSlots -> Records]
  BY DEF RecordsTyped, ListTyped
<1>3. PICK claim, hand, uses, kept : claim = Claims /\ hand = handlers /\ uses = Uses /\ kept = Kept
  OBVIOUS
<1>4. /\ claim = [i \in TopicSlots |-> list[i].topic] /\ uses = Waiting \X Answers /\ kept = persistent
      /\ Leaving = {} /\ Halves = {} /\ uses \in SUBSET (Requests \X Answers)
  BY <1>1, <1>3, QuietIs DEF Waiting
<1>5. /\ RecordsAgree(list, claim, hand, uses, kept) /\ PairsAgree(list, claim, hand, {})
      /\ Owned(list) \ hand = {} /\ subscribed = {claim[i] : i \in hand}
  <2>1. Leaving = {} /\ Halves = {}
    BY <1>4
  <2>2. QED
    BY <1>1, <1>3, <2>1 DEF AllAgree, CallsAgree
<1>6. /\ stack' = <<>> /\ AckWaitList' = [AckWaitList EXCEPT ![slot] = r]
      /\ persistent' = IF r[3] THEN persistent \cup {r[1]} ELSE persistent
  <2>1. faults' # faults + 1
    BY DEF RecordsTyped, TopicsTyped
  <2>2. QED
    BY <2>1 DEF Publish, Fault
<1>7. r \notin Waiting /\ Waiting' = Waiting \cup {r}
  BY <1>6, LetIn
<1>8. PICK oa \in Owned(list) : list[oa].topic = <<r[1], "accepted">>
  BY <1>1, KeyTopics DEF isSubscriptionPresent, IndexesOf, Owned, TopicSlots, Answers
<1>9. PICK ob \in Owned(list) : list[ob].topic = <<r[1], "rejected">>
  BY <1>1, KeyTopics DEF isSubscriptionPresent, IndexesOf, Owned, TopicSlots, Answers
<1>10. \A i \in Owned(list) : i \in TopicSlots /\ claim[i] = list[i].topic /\ i \in hand
  BY <1>4, <1>5 DEF Owned
<1>11. \A i \in TopicSlots : (\E answer \in Answers : i \in IndexesOf(Topic(r, answer))) <=> i \in {oa, ob}
  <2>1. ASSUME NEW i \in TopicSlots, NEW answer \in Answers, i \in IndexesOf(Topic(r, answer))
        PROVE  i \in {oa, ob}
    <3>1. i \in Owned(list) /\ list[i].topic = Topic(r, answer)
      BY <1>1, <2>1 DEF IndexesOf, Owned
    <3>2. claim[i] = claim[oa] \/ claim[i] = claim[ob]
      BY <1>8, <1>9, <1>10, <3>1, KeyTopics DEF Answers
    <3>3. QED
      BY <1>5, <3>1, <3>2 DEF RecordsAgree
  <2>2. oa \in IndexesOf(Topic(r, "accepted")) /\ ob \in IndexesOf(Topic(r, "rejected"))
    BY <1>1, <1>8, <1>9, KeyTopics DEF IndexesOf, Owned, TopicSlots
  <2>3. QED
    BY <2>1, <2>2 DEF Answers
<1>12. \A i \in TopicSlots :
         /\ list2[i].isFree = list[i].isFree /\ list2[i].topic = list[i].topic
         /\ list2[i].isSticky = (IF i \in {oa, ob} THEN r[3] ELSE list[i].isSticky)
         /\ list2[i].count = (IF i \in {oa, ob} THEN list[i].count + 1 ELSE list[i].count)
  <2>1. \A i \in TopicSlots :
          LET up == \E answer \in Answers : i \in IndexesOf(Topic(r, answer)) IN
          /\ list2[i].isFree = list[i].isFree /\ list2[i].topic = list[i].topic
          /\ list2[i].isSticky = (IF up THEN r[3] ELSE list[i].isSticky)
          /\ list2[i].count = (IF up THEN list[i].count + 1 ELSE list[i].count)
    BY <1>1, <1>2, CountsWritten
  <2>2. QED
    BY <1>11, <2>1
<1>13. /\ Raises(list, list2, {oa, ob}) /\ list2[oa].isSticky = r[3] /\ list2[ob].isSticky = r[3]
       /\ \A i \in TopicSlots : list2[i].topic = list[i].topic
  BY <1>10, <1>12 DEF Raises
<1>14. PICK more : /\ kept \cup more = persistent' /\ (r[1] \notin kept \cup more => ~list2[oa].isSticky)
                    /\ list2[oa].isSticky = list2[ob].isSticky
  <2>1. PICK more : more = IF r[3] THEN {r[1]} ELSE {}
    OBVIOUS
  <2>2. kept \cup more = persistent' /\ (r[3] => r[1] \in kept \cup more)
    BY <1>4, <1>6, <2>1
  <2>3. QED
    BY <1>13, <2>2
<1>15. <<r, "accepted">> \notin uses /\ <<r, "rejected">> \notin uses
  BY <1>4, <1>7
<1>16. oa \in hand /\ ob \in hand /\ claim[oa] = <<r[1], "accepted">> /\ claim[ob] = <<r[1], "rejected">>
  BY <1>8, <1>9, <1>10
<1>17. /\ RecordsAgree(list2, claim, hand, uses \cup {<<r, "accepted">>, <<r, "rejected">>}, kept \cup more)
       /\ PairsAgree(list2, claim, hand, {}) /\ Owned(list2) = Owned(list)
  <2>1. /\ list \in [TopicSlots -> Records] /\ list2 \in [TopicSlots -> Records]
        /\ uses \in SUBSET (Requests \X Answers) /\ Raises(list, list2, {oa, ob})
    BY <1>1, <1>2, <1>4, <1>13
  <2>2. QED
    BY <1>5, <1>14, <1>15, <1>16, <2>1, BothBegin
<1>18. /\ Claims' = claim /\ Kept' = kept \cup more /\ Leaving' = {} /\ Halves' = {} /\ ~Opening'
       /\ Uses' = uses \cup {<<r, "accepted">>, <<r, "rejected">>} /\ handlers' = hand
  <2>1. Claims' = claim
    BY <1>2, <1>4, <1>6, <1>13, QuietNext
  <2>2. Uses' = (Waiting \cup {r}) \X Answers
    BY <1>6, <1>7, QuietNext
  <2>3. (Waiting \cup {r}) \X Answers = (Waiting \X Answers) \cup {<<r, "accepted">>, <<r, "rejected">>}
    BY DEF Answers
  <2>4. QED
    BY <1>3, <1>4, <1>6, <1>14, <2>1, <2>2, <2>3, QuietNext
<1>19. subscribed' = {claim[i] : i \in hand}
  BY <1>5
<1>20. CallsAgree'
  <2>1. Owned(list2) \ hand = {}
    BY <1>5, <1>17
  <2>2. DOMAIN stack' = {}
    BY <1>6
  <2>3. QED
    BY <1>2, <1>18, <2>1, <2>2, CallsNext
<1>21. QED
  BY <1>2, <1>17, <1>18, <1>19, <1>20, AgreeNext

\* What the records are for while an action subscribes, and nothing else is in progress.
LEMMA ActionAlone ==
  ASSUME NEW f \in Frames, f.kind = "action", stack # <<>>, DOMAIN stack = {1}, stack[1] = f
  PROVE  /\ Opening /\ Leaving = {}
         /\ Halves = IF f.on = "accepted" THEN {f.a, f.b} ELSE {f.b}
         /\ Kept = persistent \cup (IF f.r[3] THEN {f.r[1]} ELSE {})
         /\ Uses = (Waiting \X Answers) \cup (IF f.on = "rejected" THEN {<<f.r, "accepted">>} ELSE {})
         /\ Claims = [i \in TopicSlots |-> IF i = f.b THEN Topic(f.r, "rejected") ELSE SubscriptionList[i].topic]
<1>1. Opening /\ (\A r, answer : ~Ending(r, answer)) /\ f.r \in Requests
  BY DEF Opening, Ending, Frames
<1>2. Waiting \subseteq Requests
  BY DEF Waiting
<1>3. Uses = (Waiting \X Answers) \cup (IF f.on = "rejected" THEN {<<f.r, "accepted">>} ELSE {})
  BY <1>1, <1>2 DEF Uses, Answers
<1>4. QED
  BY <1>1, <1>3 DEF Halves, Kept, Leaving, Claims

\* And after a step.
LEMMA ActionAloneNext ==
  ASSUME NEW f \in Frames, f.kind = "action", stack' # <<>>, DOMAIN stack' = {1}, stack'[1] = f
  PROVE  /\ Opening' /\ Leaving' = {}
         /\ Halves' = IF f.on = "accepted" THEN {f.a, f.b} ELSE {f.b}
         /\ Kept' = persistent' \cup (IF f.r[3] THEN {f.r[1]} ELSE {})
         /\ Uses' = (Waiting' \X Answers) \cup (IF f.on = "rejected" THEN {<<f.r, "accepted">>} ELSE {})
         /\ Claims' = [i \in TopicSlots |-> IF i = f.b THEN Topic(f.r, "rejected") ELSE SubscriptionList'[i].topic]
<1>1. Opening' /\ (\A r, answer : ~Ending(r, answer)') /\ f.r \in Requests
  BY DEF Opening, Ending, Frames
<1>2. Waiting' \subseteq Requests
  BY DEF Waiting
<1>3. Uses' = (Waiting' \X Answers) \cup (IF f.on = "rejected" THEN {<<f.r, "accepted">>} ELSE {})
  BY <1>1, <1>2 DEF Uses, Answers
<1>4. QED
  BY <1>1, <1>3 DEF Halves, Kept, Leaving, Claims

\* A key whose topics are not both subscribed has none, when no call is in progress.
LEMMA NobodyHas ==
  ASSUME NEW list, NEW claim, NEW hand, NEW uses, NEW kept, RecordsAgree(list, claim, hand, uses, kept),
         PairsAgree(list, claim, hand, {}), Owned(list) \ hand = {}, list = SubscriptionList,
         NEW r \in Requests, ~isSubscriptionPresent(r)
  PROVE  \A i \in Owned(list) : claim[i] # <<r[1], "accepted">> /\ claim[i] # <<r[1], "rejected">>
<1>1. \A answer \in Answers, i \in Owned(list) :
         claim[i] = Topic(r, answer) => i \in IndexesOf(Topic(r, answer))
  BY DEF RecordsAgree, Owned, IndexesOf, TopicSlots
<1>2. ~(Has(list, claim, <<r[1], "accepted">>) /\ Has(list, claim, <<r[1], "rejected">>))
  BY <1>1, KeyTopics DEF Has, isSubscriptionPresent, Answers
<1>3. Has(list, claim, <<r[1], "accepted">>) <=> Has(list, claim, <<r[1], "rejected">>)
  BY KeyTopics DEF PairsAgree
<1>4. QED
  BY <1>2, <1>3 DEF Has

\* An action that takes both topics.
LEMMA TakenAgrees ==
  ASSUME IInv, RecordsTyped, RecordsTyped', AllAgree, stack = <<>>, NEW r \in Requests, NEW slot \in 1..MaxAcks,
         NEW a, NEW b, a = Min(FreeTopics), b = Min(FreeTopics \ {a}), Cardinality(FreeTopics) >= 2,
         ~isSubscriptionPresent(r), TakesBoth(r, slot, a, b), UNCHANGED <<handlers, subscribed>>
  PROVE  AllAgree'
<1>1. PICK list : list = SubscriptionList /\ list \in [TopicSlots -> Records]
  BY DEF RecordsTyped, ListTyped
<1>2. PICK list2 : list2 = SubscriptionList' /\ list2 \in [TopicSlots -> Records]
  BY DEF RecordsTyped, ListTyped
<1>3. PICK claim, hand, uses, kept : claim = Claims /\ hand = handlers /\ uses = Uses /\ kept = Kept
  OBVIOUS
<1>4. /\ claim = [i \in TopicSlots |-> list[i].topic] /\ uses = Waiting \X Answers /\ kept = persistent
      /\ Leaving = {} /\ Halves = {}
  BY <1>1, <1>3, QuietIs
<1>5. /\ RecordsAgree(list, claim, hand, uses, kept) /\ PairsAgree(list, claim, hand, {})
      /\ Owned(list) \ hand = {} /\ subscribed = {claim[i] : i \in hand}
  <2>1. Leaving = {} /\ Halves = {}
    BY <1>4
  <2>2. QED
    BY <1>1, <1>3, <2>1 DEF AllAgree, CallsAgree
<1>6. /\ a \in TopicSlots /\ b \in TopicSlots /\ a # b
      /\ \A i \in TopicSlots :
           /\ list2[i].isFree = (IF i \in {a, b} THEN FALSE ELSE list[i].isFree)
           /\ list2[i].topic = (IF i = a THEN Topic(r, "accepted") ELSE list[i].topic)
           /\ i # a /\ i # b => list2[i] = list[i]
      /\ UNCHANGED <<AckWaitList, persistent>>
  BY <1>1, <1>2 DEF TakesBoth
<1>7. PICK f \in Frames : /\ f.kind = "action" /\ f.pc = "subscribe" /\ f.on = "accepted" /\ f.r = r
                          /\ f.a = a /\ f.b = b /\ stack' = Append(stack, f)
  <2>1. a \in Places /\ b \in Places
    BY <1>6, ShadowAssumption DEF TopicSlots, Places
  <2>2. [kind |-> "action", pc |-> "subscribe", on |-> "accepted", r |-> r, slot |-> slot, a |-> a, b |-> b] \in Frames
    BY <2>1 DEF Frames, Kinds, Calls, Answers
  <2>3. QED
    BY <2>2 DEF TakesBoth
<1>8. stack' # <<>> /\ DOMAIN stack' = {1} /\ stack'[1] = f
  BY <1>7, PushIs
<1>9. PICK key \in Keys : /\ key = r[1] /\ Topic(r, "accepted") = <<key, "accepted">>
                          /\ Topic(r, "rejected") = <<key, "rejected">>
  BY KeyTopics
<1>10. PICK claim2 : claim2 = Claims' /\ claim2 = [i \in TopicSlots |-> IF i = b THEN <<key, "rejected">> ELSE list2[i].topic]
  BY <1>2, <1>7, <1>8, <1>9, ActionAloneNext
<1>11. /\ claim2[a] = <<key, "accepted">> /\ claim2[b] = <<key, "rejected">>
       /\ \A i \in TopicSlots : i \notin {a, b} => claim2[i] = claim[i]
  BY <1>4, <1>6, <1>9, <1>10
<1>12. PICK more : more = (IF r[3] THEN {r[1]} ELSE {}) /\ Kept' = kept \cup more
  BY <1>4, <1>6, <1>7, <1>8, ActionAloneNext
<1>13. /\ Uses' = uses /\ Halves' = {a, b} /\ Leaving' = {} /\ Opening'
  <2>1. Waiting' = Waiting
    BY <1>6 DEF Waiting
  <2>2. /\ Uses' = (Waiting' \X Answers) \cup (IF f.on = "rejected" THEN {<<f.r, "accepted">>} ELSE {})
        /\ Halves' = (IF f.on = "accepted" THEN {f.a, f.b} ELSE {f.b}) /\ Leaving' = {} /\ Opening'
    BY <1>7, <1>8, ActionAloneNext
  <2>3. QED
    BY <1>4, <1>7, <2>1, <2>2
<1>14. /\ \A i \in Owned(list) : claim[i] # <<key, "accepted">> /\ claim[i] # <<key, "rejected">>
       /\ hand = Owned(list)
  <2>1. hand \subseteq Owned(list)
    BY <1>5 DEF RecordsAgree
  <2>2. QED
    BY <1>1, <1>5, <1>9, <2>1, NobodyHas
<1>15. Takes(list, list2, claim, claim2, key, a, b)
  <2>1. /\ a \in FreeTopics /\ b \in FreeTopics
        /\ \A s \in FreeTopics : s # a => a < s /\ (s # b => b < s)
    <3>1. /\ FreeTopics # {} /\ FreeTopics \ {a} # {}
          /\ a \in FreeTopics /\ \A s \in FreeTopics : s # a => a < s
          /\ b \in FreeTopics /\ \A s \in FreeTopics : s # a /\ s # b => b < s
      BY SlotsChosen
    <3>2. QED
      BY <3>1
  <2>2. \A s \in TopicSlots : s \in FreeTopics <=> list[s].isFree
    BY <1>1 DEF FreeTopics, TopicSlots
  <2>3. \A i \in TopicSlots : list2[i].topic = (IF i = a THEN claim2[a] ELSE list[i].topic)
    BY <1>6, <1>9, <1>11
  <2>4. QED
    BY <1>6, <1>11, <1>14, <2>1, <2>2, <2>3 DEF Takes
<1>16. /\ RecordsAgree(list2, claim2, hand, uses, kept \cup more) /\ Owned(list2) = Owned(list) \cup {a, b}
       /\ a \notin Owned(list) /\ b \notin Owned(list)
  <2>1. RecordsAgree(list2, claim2, hand, uses, kept \cup more)
    BY <1>5, <1>9, <1>14, <1>15, SlotsTaken
  <2>2. QED
    BY <1>15, <2>1 DEF Takes, Owned
<1>17. /\ \A i \in Owned(list) : claim2[i] = claim[i]
       /\ \A i \in hand : list2[i] = list[i] /\ claim2[i] = claim[i]
  BY <1>6, <1>11, <1>14, <1>16 DEF Owned
<1>18. PairsAgree(list2, claim2, hand, {})
  BY <1>5, <1>14, <1>15, PairTaken
<1>19. subscribed' = {claim2[i] : i \in hand}
  BY <1>5, <1>17
<1>20. CallsAgree'
  <2>1. Owned(list2) \ hand = {a, b}
    BY <1>14, <1>16
  <2>2. CallAgrees(f, list2, claim2, hand)
    BY <1>6, <1>7 DEF CallAgrees
  <2>3. QED
    BY <1>2, <1>3, <1>8, <1>10, <1>13, <2>1, <2>2, CallsNext
<1>21. handlers' = hand
  BY <1>3
<1>22. QED
  BY <1>2, <1>10, <1>12, <1>13, <1>16, <1>18, <1>19, <1>20, <1>21, AgreeNext

\* A new action.
LEMMA NewCallAgrees ==
  ASSUME ~CallbacksCall, IsFiniteSet(Requests), 2 * Cardinality(Keys) <= MaxTopics,
         IInv, RecordsTyped, RecordsTyped', AllAgree, Call, UNCHANGED faults
  PROVE  AllAgree'
<1>1. stack = <<>> /\ UNCHANGED <<handlers, subscribed>>
  BY DEF Call, MayCall, topics
<1>2. PICK r \in Requests : rc[r] = "none" /\ Action(r)
  BY DEF Call
<1>20. PICK slot \in 1..MaxAcks : \E a, b : Begun(r, slot, a, b)
  BY <1>1, <1>2, ActionBegins DEF RecordsTyped
<1>21. PICK a, b : Begun(r, slot, a, b)
  BY <1>20
<1>3. /\ a = Min(FreeTopics) /\ b = Min(FreeTopics \ {a})
      /\ \/ rc' = [rc EXCEPT ![r] = "FAILURE"] /\ UNCHANGED <<records, stack, persistent, faults>>
         \/ /\ isSubscriptionPresent(r) /\ incrementSubscriptionCnt(r)
            /\ Publish(r, slot, <<>>) /\ AckWaitList[slot] = Free
         \/ /\ ~isSubscriptionPresent(r) /\ Cardinality(FreeTopics) >= 2 /\ TakesBoth(r, slot, a, b)
         \/ /\ ~isSubscriptionPresent(r) /\ (FreeTopics = {} \/ Cardinality(FreeTopics) = 1)
            /\ Publish(r, slot, <<>>) /\ UNCHANGED SubscriptionList
         \/ /\ ~isSubscriptionPresent(r) /\ Cardinality(FreeTopics) = 1
            /\ stack' = Append(stack, [kind |-> "action", pc |-> "undo", on |-> "accepted", r |-> r,
                                       slot |-> slot, a |-> a, b |-> 0])
            /\ UNCHANGED <<records, rc, persistent, faults>>
  BY <1>21 DEF Begun
<1>4. CASE rc' = [rc EXCEPT ![r] = "FAILURE"] /\ UNCHANGED <<records, stack, persistent, faults>>
  BY <1>1, <1>4, AgreeStays DEF topics
<1>5. CASE isSubscriptionPresent(r) /\ incrementSubscriptionCnt(r) /\ Publish(r, slot, <<>>) /\ AckWaitList[slot] = Free
  BY <1>1, <1>2, <1>5, PresentAgrees
<1>6. CASE ~isSubscriptionPresent(r) /\ Cardinality(FreeTopics) >= 2 /\ TakesBoth(r, slot, a, b)
  BY <1>1, <1>3, <1>6, TakenAgrees
<1>7. ~isSubscriptionPresent(r) => Cardinality(FreeTopics) >= 2
  <2>1. SUFFICES ASSUME ~isSubscriptionPresent(r) PROVE Cardinality(FreeTopics) >= 2
    OBVIOUS
  <2>2. PICK list, claim, hand, uses, kept :
          list = SubscriptionList /\ claim = Claims /\ hand = handlers /\ uses = Uses /\ kept = Kept
    OBVIOUS
  <2>3. Leaving = {} /\ Halves = {}
    BY <1>1, QuietIs DEF RecordsTyped, ListTyped
  <2>4. /\ RecordsAgree(list, claim, hand, uses, kept) /\ PairsAgree(list, claim, hand, {})
        /\ Owned(list) \ hand = {}
    BY <2>2, <2>3 DEF AllAgree, CallsAgree
  <2>5. \A i \in Owned(list) : claim[i] # <<r[1], "accepted">> /\ claim[i] # <<r[1], "rejected">>
    BY <2>1, <2>2, <2>4, NobodyHas
  <2>6. \A i \in Owned(list) : claim[i] \in AllTopics
    BY <2>4 DEF RecordsAgree
  <2>7. PICK k \in Keys : k = r[1]
    BY KeyTopics
  <2>8. \A i \in Owned(list) : claim[i] \in AllTopics /\ claim[i][1] # k
    BY <2>5, <2>6, <2>7, KeyTopics
  <2>9. \A i, j \in Owned(list) : claim[i] = claim[j] => i = j
    BY <2>4 DEF RecordsAgree
  <2>10. Cardinality({i \in 1..MaxTopics : list[i].isFree}) >= 2
    BY <2>8, <2>9, TwoAreFree
  <2>11. QED
    BY <2>2, <2>10 DEF FreeTopics
<1>8. ~(Cardinality(FreeTopics) >= 2 /\ (FreeTopics = {} \/ Cardinality(FreeTopics) = 1))
  BY FS_EmptySet
<1>9. QED
  BY <1>3, <1>4, <1>5, <1>6, <1>7, <1>8

-----------------------------------------------------------------------------
(* The topics are subscribed.                                              *)

\* What is known when an action subscribes.
LEMMA SubscribingIs ==
  ASSUME IInv, RecordsTyped, AllAgree, At("subscribe")
  PROVE  /\ stack # <<>> /\ DOMAIN stack = {1} /\ stack[1] = Top /\ Len(stack) = 1
         /\ Top \in Frames /\ Top.kind = "action" /\ Top.r \in Requests /\ Top.slot \in 1..MaxAcks
         /\ Top.a \in TopicSlots /\ Top.b \in TopicSlots /\ Top.a # Top.b
         /\ rc[Top.r] = "none" /\ AckWaitList[Top.slot] = Free /\ Front(stack) = <<>>
         /\ Top.r \notin Waiting /\ CallAgrees(Top, SubscriptionList, Claims, handlers)
<1>1. stack # <<>> /\ Top.pc = "subscribe"
  BY DEF At
<1>2. /\ Top = stack[1] /\ Len(stack) = 1 /\ DOMAIN stack = {1} /\ Top \in Frames
      /\ Top.kind = "action" /\ Top.r \in Requests /\ Top.a \in TopicSlots
      /\ Top.b \in TopicSlots /\ Top.a # Top.b
      /\ rc[Top.r] = "none" /\ AckWaitList[Top.slot] = Free /\ Front(stack) = <<>>
  BY <1>1, OpeningTop DEF RecordsTyped
<1>3. Top.slot \in 1..MaxAcks
  BY <1>2 DEF Frames
<1>4. Top.r \notin Waiting
  <2>1. \A i \in 1..MaxAcks : AckWaitList[i] # Top.r
    BY <1>2, FreeAssumption DEF IInv, RequestsOK
  <2>2. QED
    BY <2>1 DEF Waiting
<1>5. CallAgrees(Top, SubscriptionList, Claims, handlers)
  BY <1>2 DEF AllAgree, CallsAgree
<1>6. QED
  BY <1>1, <1>2, <1>3, <1>4, <1>5

\* The first topic is subscribed.
LEMMA FirstSubscribed ==
  ASSUME IsFiniteSet(Requests), IInv, RecordsTyped, RecordsTyped', AllAgree, Subscribe("accepted")
  PROVE  AllAgree'
<1>1. /\ At("subscribe") /\ Top.on = "accepted"
      /\ subscribed' = subscribed \cup {Topic(Top.r, "accepted")} /\ handlers' = handlers \cup {Top.a}
      /\ SubscriptionList' = [SubscriptionList EXCEPT ![Top.a].count = 1, ![Top.a].isSticky = Top.r[3],
                                                      ![Top.b].topic = Topic(Top.r, "rejected")]
      /\ Goto("subscribe", "rejected") /\ UNCHANGED <<AckWaitList, persistent>>
  BY DEF Subscribe
<1>2. PICK f \in Frames : f = Top
  BY <1>1, SubscribingIs
<1>3. /\ stack # <<>> /\ DOMAIN stack = {1} /\ stack[1] = f /\ Len(stack) = 1 /\ f.kind = "action"
      /\ f.r \in Requests /\ f.a \in TopicSlots /\ f.b \in TopicSlots /\ f.a # f.b /\ f.on = "accepted"
      /\ f.r \notin Waiting /\ CallAgrees(f, SubscriptionList, Claims, handlers)
  BY <1>1, <1>2, SubscribingIs
<1>4. PICK list : list = SubscriptionList /\ list \in [TopicSlots -> Records]
  BY DEF RecordsTyped, ListTyped
<1>5. PICK key \in Keys : /\ key = f.r[1] /\ Topic(f.r, "accepted") = <<key, "accepted">>
                          /\ Topic(f.r, "rejected") = <<key, "rejected">>
  BY <1>3, KeyTopics
<1>6. PICK list2 : list2 = SubscriptionList' /\ list2 \in [TopicSlots -> Records]
  BY DEF RecordsTyped, ListTyped
<1>7. \A i \in TopicSlots :
        /\ list2[i].isFree = list[i].isFree
        /\ list2[i].topic = (IF i = f.b THEN <<key, "rejected">> ELSE list[i].topic)
        /\ list2[i].isSticky = (IF i = f.a THEN f.r[3] ELSE list[i].isSticky)
        /\ list2[i].count = (IF i = f.a THEN 1 ELSE list[i].count)
        /\ i # f.a /\ i # f.b => list2[i] = list[i]
  <2>1. PICK a, b, s, t : a = Top.a /\ b = Top.b /\ s = Top.r[3] /\ t = Topic(Top.r, "rejected")
    OBVIOUS
  <2>2. s \in BOOLEAN /\ t \in AllTopics /\ a \in TopicSlots /\ b \in TopicSlots /\ a # b
    BY <1>2, <1>3, <1>5, <2>1, StickyAssumption, KeyTopics
  <2>3. \A i \in TopicSlots :
          /\ SubscriptionList'[i].isFree = SubscriptionList[i].isFree
          /\ SubscriptionList'[i].topic = (IF i = b THEN t ELSE SubscriptionList[i].topic)
          /\ SubscriptionList'[i].isSticky = (IF i = a THEN s ELSE SubscriptionList[i].isSticky)
          /\ SubscriptionList'[i].count = (IF i = a THEN 1 ELSE SubscriptionList[i].count)
          /\ i # a /\ i # b => SubscriptionList'[i] = SubscriptionList[i]
    BY <1>1, <1>4, <2>1, <2>2, FirstWritten
  <2>4. QED
    BY <1>2, <1>4, <1>5, <1>6, <2>1, <2>3
<1>8. PICK claim, hand, uses, kept : claim = Claims /\ hand = handlers /\ uses = Uses /\ kept = Kept
  OBVIOUS
<1>9. /\ claim = [i \in TopicSlots |-> IF i = f.b THEN <<key, "rejected">> ELSE list[i].topic]
      /\ uses = Waiting \X Answers /\ kept = persistent \cup (IF f.r[3] THEN {key} ELSE {})
      /\ Leaving = {} /\ Halves = {f.a, f.b} /\ uses \in SUBSET (Requests \X Answers)
  <2>1. /\ Claims = [i \in TopicSlots |-> IF i = f.b THEN Topic(f.r, "rejected") ELSE SubscriptionList[i].topic]
        /\ Kept = persistent \cup (IF f.r[3] THEN {f.r[1]} ELSE {})
        /\ Uses = (Waiting \X Answers) \cup (IF f.on = "rejected" THEN {<<f.r, "accepted">>} ELSE {})
        /\ Halves = (IF f.on = "accepted" THEN {f.a, f.b} ELSE {f.b}) /\ Leaving = {}
    BY <1>3, ActionAlone
  <2>2. Waiting \subseteq Requests
    BY DEF Waiting
  <2>3. QED
    BY <1>3, <1>4, <1>5, <1>8, <2>1, <2>2
<1>10. /\ RecordsAgree(list, claim, hand, uses, kept) /\ PairsAgree(list, claim, hand, {})
       /\ Owned(list) \ hand = {f.a, f.b} /\ subscribed = {claim[i] : i \in hand}
       /\ list[f.a].topic = <<key, "accepted">>
  <2>1. Leaving = {} /\ Halves = {f.a, f.b}
    BY <1>9
  <2>2. list[f.a].topic = <<key, "accepted">>
    BY <1>3, <1>4, <1>5 DEF CallAgrees
  <2>3. QED
    BY <1>4, <1>8, <2>1, <2>2 DEF AllAgree, CallsAgree
<1>11. claim[f.a] = <<key, "accepted">> /\ claim[f.b] = <<key, "rejected">>
  BY <1>3, <1>9, <1>10
<1>12. PICK g \in Frames : /\ g = [f EXCEPT !.pc = "subscribe", !.on = "rejected"] /\ DOMAIN stack' = {1}
                           /\ stack'[1] = g /\ stack' # <<>>
  <2>1. stack' = [stack EXCEPT ![1].pc = "subscribe", ![1].on = "rejected"]
    BY <1>1, <1>3 DEF Goto
  <2>2. PICK g : g = [f EXCEPT !.pc = "subscribe", !.on = "rejected"]
    OBVIOUS
  <2>3. g \in Frames
    BY <2>2 DEF Frames, Calls, Answers
  <2>4. DOMAIN stack' = {1} /\ stack'[1] = g
    BY <1>3, <2>1, <2>2
  <2>5. stack' # <<>>
    BY <2>4
  <2>6. QED
    BY <2>2, <2>3, <2>4, <2>5
<1>13. g.kind = "action" /\ g.pc = "subscribe" /\ g.on = "rejected" /\ g.r = f.r /\ g.a = f.a /\ g.b = f.b
  BY <1>3, <1>12 DEF Frames
<1>14. PICK p \in Requests \X Answers : p = <<f.r, "accepted">> /\ Topic(p[1], p[2]) = claim[f.a] /\ p \notin uses
  <2>1. <<f.r, "accepted">> \in Requests \X Answers
    BY <1>3 DEF Answers
  <2>2. PICK p \in Requests \X Answers : p = <<f.r, "accepted">>
    BY <2>1
  <2>3. p[1] = f.r /\ p[2] = "accepted" /\ p \notin uses
    BY <1>3, <1>9, <2>2
  <2>4. QED
    BY <1>5, <1>11, <2>2, <2>3
<1>15. /\ Claims' = claim /\ Kept' = kept /\ Leaving' = {} /\ Halves' = {f.b} /\ Uses' = uses \cup {p} /\ Opening'
  <2>1. Waiting' = Waiting
    BY <1>1 DEF Waiting
  <2>2. /\ Claims' = [i \in TopicSlots |-> IF i = g.b THEN Topic(g.r, "rejected") ELSE SubscriptionList'[i].topic]
        /\ Kept' = persistent' \cup (IF g.r[3] THEN {g.r[1]} ELSE {})
        /\ Uses' = (Waiting' \X Answers) \cup (IF g.on = "rejected" THEN {<<g.r, "accepted">>} ELSE {})
        /\ Halves' = (IF g.on = "accepted" THEN {g.a, g.b} ELSE {g.b}) /\ Leaving' = {} /\ Opening'
    BY <1>12, <1>13, ActionAloneNext
  <2>3. Claims' = claim
    BY <1>5, <1>6, <1>7, <1>9, <1>13, <2>2
  <2>4. Kept' = kept
    BY <1>1, <1>5, <1>9, <1>13, <2>2
  <2>5. Uses' = uses \cup {p} /\ Halves' = {f.b}
    BY <1>9, <1>13, <1>14, <2>1, <2>2
  <2>6. QED
    BY <2>2, <2>3, <2>4, <2>5
<1>16. /\ Opens(list, list2, claim, hand, kept, f.a)
       /\ list2[f.a].count = 1 /\ list2[f.a].isSticky = f.r[3]
  <2>1. f.a \in Owned(list) \ hand /\ f.b \in Owned(list) \ hand /\ hand \subseteq Owned(list)
    BY <1>10 DEF RecordsAgree
  <2>2. \A i \in hand : i \in TopicSlots /\ i # f.a /\ i # f.b
    BY <2>1 DEF Owned
  <2>3. list2[f.a].isSticky = f.r[3] /\ list2[f.a].count = 1
    BY <1>3, <1>7
  <2>4. f.r[3] => claim[f.a][1] \in kept
    BY <1>9, <1>11
  <2>5. Opens(list, list2, claim, hand, kept, f.a)
    BY <1>3, <1>7, <1>10, <1>11, <2>1, <2>2, <2>3, <2>4 DEF Opens
  <2>6. QED
    BY <2>3, <2>5
<1>17. PICK o : o = f.a /\ claim[o] = Topic(p[1], p[2]) /\ Opens(list, list2, claim, hand, kept, o)
  BY <1>14, <1>16
<1>18. RecordsAgree(list2, claim, hand \cup {f.a}, uses \cup {p}, kept) /\ Owned(list2) = Owned(list)
  <2>1. RecordsAgree(list2, claim, hand \cup {o}, uses \cup {p}, kept)
    BY <1>4, <1>9, <1>10, <1>14, <1>17, SlotOpens
  <2>2. Owned(list2) = Owned(list)
    BY <1>7 DEF Owned
  <2>3. QED
    BY <1>17, <2>1, <2>2
<1>19. PairsAgree(list2, claim, hand \cup {f.a}, {})
  <2>1. ASSUME NEW i \in hand PROVE claim[i][1] # key /\ list2[i] = list[i]
    <3>1. i \in Owned(list) /\ i # f.a /\ i # f.b /\ f.a \in Owned(list) /\ f.b \in Owned(list)
      BY <1>10 DEF RecordsAgree
    <3>2. claim[i] \in AllTopics /\ claim[i] # claim[f.a] /\ claim[i] # claim[f.b]
      BY <1>10, <3>1 DEF RecordsAgree
    <3>3. QED
      BY <1>7, <1>11, <3>1, <3>2, KeyTopics DEF Owned
  <2>2. claim[f.a][1] = key
    BY <1>11
  <2>3. \A i, j \in hand \cup {f.a} : claim[i][1] = claim[j][1] =>
          list2[i].count = list2[j].count /\ list2[i].isSticky = list2[j].isSticky
    BY <1>10, <2>1, <2>2 DEF PairsAgree
  <2>4. QED
    BY <1>10, <1>18, <2>3, PairsCount
<1>20. subscribed' = {claim[i] : i \in hand \cup {f.a}} /\ handlers' = hand \cup {f.a}
  BY <1>1, <1>2, <1>5, <1>8, <1>10, <1>11
<1>21. CallsAgree'
  <2>1. Owned(list2) \ (hand \cup {f.a}) = {f.b}
    BY <1>3, <1>10, <1>18
  <2>2. CallAgrees(g, list2, claim, hand \cup {f.a})
    <3>1. list2[f.a].topic = <<key, "accepted">> /\ list2[f.b].topic = <<key, "rejected">>
      BY <1>3, <1>7, <1>10
    <3>2. QED
      BY <1>5, <1>13, <1>16, <3>1 DEF CallAgrees, Sole
  <2>3. PICK hand2 : /\ hand2 = handlers' /\ Owned(list2) \ hand2 = {f.b}
                     /\ CallAgrees(g, list2, claim, hand2)
    BY <1>20, <2>1, <2>2
  <2>4. PICK halves : halves = Halves' /\ Owned(list2) \ hand2 = halves
    BY <1>15, <2>3
  <2>5. /\ \A n \in DOMAIN stack' : CallAgrees(stack'[n], list2, claim, hand2)
        /\ Opening' => \A n \in DOMAIN stack' : n # 1 => stack'[n].r[1] # stack'[1].r[1]
    BY <1>12, <2>3
  <2>6. QED
    BY <1>6, <1>15, <2>3, <2>4, <2>5, CallsNext
<1>22. QED
  BY <1>6, <1>15, <1>18, <1>19, <1>20, <1>21, AgreeNext

\* The second topic is subscribed, and the request let in.
LEMMA SecondSubscribed ==
  ASSUME IsFiniteSet(Requests), IInv, RecordsTyped, RecordsTyped', AllAgree, Subscribe("rejected"), UNCHANGED faults
  PROVE  AllAgree'
<1>1. /\ At("subscribe") /\ Top.on = "rejected"
      /\ subscribed' = subscribed \cup {Topic(Top.r, "rejected")} /\ handlers' = handlers \cup {Top.b}
      /\ SubscriptionList' = [SubscriptionList EXCEPT ![Top.b].count = 1, ![Top.b].isSticky = Top.r[3]]
      /\ Publish(Top.r, Top.slot, Front(stack))
  <2>1. "rejected" # "accepted"
    OBVIOUS
  <2>2. QED
    BY <2>1 DEF Subscribe
<1>2. PICK f \in Frames : f = Top
  BY <1>1, SubscribingIs
<1>3. /\ stack # <<>> /\ DOMAIN stack = {1} /\ stack[1] = f /\ f.kind = "action" /\ Front(stack) = <<>>
      /\ f.r \in Requests /\ f.a \in TopicSlots /\ f.b \in TopicSlots /\ f.a # f.b /\ f.on = "rejected"
      /\ f.r \notin Waiting /\ CallAgrees(f, SubscriptionList, Claims, handlers)
      /\ f.slot \in 1..MaxAcks /\ AckWaitList[f.slot] = Free /\ rc[f.r] = "none"
  BY <1>1, <1>2, SubscribingIs
<1>4. PICK list : list = SubscriptionList /\ list \in [TopicSlots -> Records]
  BY DEF RecordsTyped, ListTyped
<1>5. PICK key \in Keys : /\ key = f.r[1] /\ Topic(f.r, "accepted") = <<key, "accepted">>
                          /\ Topic(f.r, "rejected") = <<key, "rejected">>
  BY <1>3, KeyTopics
<1>6. PICK list2 : list2 = SubscriptionList' /\ list2 \in [TopicSlots -> Records]
  BY DEF RecordsTyped, ListTyped
<1>7. \A i \in TopicSlots :
        /\ list2[i].isFree = list[i].isFree /\ list2[i].topic = list[i].topic
        /\ list2[i].isSticky = (IF i = f.b THEN f.r[3] ELSE list[i].isSticky)
        /\ list2[i].count = (IF i = f.b THEN 1 ELSE list[i].count)
        /\ i # f.b => list2[i] = list[i]
  <2>1. PICK b, s : b = f.b /\ s = f.r[3]
    OBVIOUS
  <2>2. s \in BOOLEAN /\ b \in TopicSlots /\ list2 = [list EXCEPT ![b].count = 1, ![b].isSticky = s]
    BY <1>1, <1>2, <1>3, <1>4, <1>6, <2>1, StickyAssumption
  <2>3. \A i \in TopicSlots : /\ list2[i].isFree = list[i].isFree /\ list2[i].topic = list[i].topic
                              /\ list2[i].isSticky = (IF i = b THEN s ELSE list[i].isSticky)
                              /\ list2[i].count = (IF i = b THEN 1 ELSE list[i].count)
                              /\ i # b => list2[i] = list[i]
    BY <1>4, <2>2, SecondWritten
  <2>4. QED
    BY <2>1, <2>3
<1>8. PICK claim, hand, uses, kept : claim = Claims /\ hand = handlers /\ uses = Uses /\ kept = Kept
  OBVIOUS
<1>9. /\ claim = [i \in TopicSlots |-> IF i = f.b THEN <<key, "rejected">> ELSE list[i].topic]
      /\ uses = (Waiting \X Answers) \cup {<<f.r, "accepted">>}
      /\ kept = persistent \cup (IF f.r[3] THEN {key} ELSE {})
      /\ Leaving = {} /\ Halves = {f.b} /\ uses \in SUBSET (Requests \X Answers)
  <2>1. /\ Claims = [i \in TopicSlots |-> IF i = f.b THEN Topic(f.r, "rejected") ELSE SubscriptionList[i].topic]
        /\ Kept = persistent \cup (IF f.r[3] THEN {f.r[1]} ELSE {})
        /\ Uses = (Waiting \X Answers) \cup (IF f.on = "rejected" THEN {<<f.r, "accepted">>} ELSE {})
        /\ Halves = (IF f.on = "accepted" THEN {f.a, f.b} ELSE {f.b}) /\ Leaving = {}
    BY <1>3, ActionAlone
  <2>2. Waiting \subseteq Requests /\ <<f.r, "accepted">> \in Requests \X Answers
    BY <1>3 DEF Waiting, Answers
  <2>3. QED
    BY <1>3, <1>4, <1>5, <1>8, <2>1, <2>2
<1>10. /\ RecordsAgree(list, claim, hand, uses, kept) /\ PairsAgree(list, claim, hand, {})
       /\ Owned(list) \ hand = {f.b} /\ subscribed = {claim[i] : i \in hand}
       /\ Sole(list, hand, f.a, <<key, "accepted">>, f.r[3]) /\ list[f.b].topic = <<key, "rejected">>
  <2>1. Leaving = {} /\ Halves = {f.b}
    BY <1>9
  <2>2. Sole(list, hand, f.a, <<key, "accepted">>, f.r[3]) /\ list[f.b].topic = <<key, "rejected">>
    BY <1>3, <1>4, <1>5, <1>8 DEF CallAgrees
  <2>3. QED
    BY <1>4, <1>8, <2>1, <2>2 DEF AllAgree, CallsAgree
<1>11. claim[f.b] = <<key, "rejected">> /\ claim[f.a] = <<key, "accepted">> /\ f.a \in hand
  BY <1>3, <1>9, <1>10 DEF Sole
<1>12. /\ stack' = <<>> /\ AckWaitList' = [AckWaitList EXCEPT ![f.slot] = f.r]
       /\ persistent' = kept
  <2>1. faults' # faults + 1
    BY DEF RecordsTyped, TopicsTyped
  <2>2. persistent' = IF f.r[3] THEN persistent \cup {f.r[1]} ELSE persistent
    BY <1>1, <1>2, <2>1 DEF Publish, Fault
  <2>3. stack' = <<>> /\ AckWaitList' = [AckWaitList EXCEPT ![f.slot] = f.r]
    BY <1>1, <1>2, <1>3, <2>1 DEF Publish, Fault
  <2>4. QED
    BY <1>5, <1>9, <2>2, <2>3
<1>13. Waiting' = Waiting \cup {f.r}
  BY <1>3, <1>12, LetIn
<1>14. PICK p \in Requests \X Answers : p = <<f.r, "rejected">> /\ Topic(p[1], p[2]) = claim[f.b] /\ p \notin uses
  <2>1. <<f.r, "rejected">> \in Requests \X Answers
    BY <1>3 DEF Answers
  <2>2. PICK p \in Requests \X Answers : p = <<f.r, "rejected">>
    BY <2>1
  <2>3. p[1] = f.r /\ p[2] = "rejected" /\ p \notin uses
    BY <1>3, <1>9, <2>2
  <2>4. QED
    BY <1>5, <1>11, <2>2, <2>3
<1>15. /\ Claims' = claim /\ Kept' = kept /\ Leaving' = {} /\ Halves' = {} /\ Uses' = uses \cup {p} /\ ~Opening'
  <2>1. Claims' = [i \in TopicSlots |-> list2[i].topic]
    BY <1>6, <1>12, QuietNext
  <2>2. Claims' = claim
    <3>1. \A i \in TopicSlots : list2[i].topic = IF i = f.b THEN <<key, "rejected">> ELSE list[i].topic
      BY <1>7, <1>10
    <3>2. QED
      BY <1>9, <2>1, <3>1
  <2>3. Uses' = (Waiting \cup {f.r}) \X Answers
    BY <1>12, <1>13, QuietNext
  <2>4. (Waiting \cup {f.r}) \X Answers = (Waiting \X Answers) \cup {<<f.r, "accepted">>} \cup {<<f.r, "rejected">>}
    BY DEF Answers
  <2>5. Uses' = uses \cup {p}
    BY <1>9, <1>14, <2>3, <2>4
  <2>6. QED
    BY <1>12, <2>2, <2>5, QuietNext
<1>16. Opens(list, list2, claim, hand, kept, f.b) /\ list2[f.b].count = 1 /\ list2[f.b].isSticky = f.r[3]
  <2>1. f.b \in Owned(list) \ hand /\ hand \subseteq Owned(list)
    BY <1>10 DEF RecordsAgree
  <2>2. \A i \in hand : i \in TopicSlots /\ i # f.b
    BY <2>1 DEF Owned
  <2>3. list2[f.b].isSticky = f.r[3] /\ list2[f.b].count = 1 /\ list2[f.b].topic = claim[f.b]
    BY <1>3, <1>7, <1>10, <1>11
  <2>4. f.r[3] => claim[f.b][1] \in kept
    BY <1>9, <1>11
  <2>5. Opens(list, list2, claim, hand, kept, f.b)
    BY <1>7, <2>1, <2>2, <2>3, <2>4 DEF Opens
  <2>6. QED
    BY <2>3, <2>5
<1>17. PICK o : o = f.b /\ claim[o] = Topic(p[1], p[2]) /\ Opens(list, list2, claim, hand, kept, o)
  BY <1>14, <1>16
<1>18. RecordsAgree(list2, claim, hand \cup {f.b}, uses \cup {p}, kept) /\ Owned(list2) = Owned(list)
  <2>1. RecordsAgree(list2, claim, hand \cup {o}, uses \cup {p}, kept)
    BY <1>4, <1>9, <1>10, <1>14, <1>17, SlotOpens
  <2>2. Owned(list2) = Owned(list)
    BY <1>7 DEF Owned
  <2>3. QED
    BY <1>17, <2>1, <2>2
<1>19. PairsAgree(list2, claim, hand \cup {f.b}, {})
  <2>1. ASSUME NEW i \in hand
        PROVE  list2[i] = list[i] /\ (claim[i][1] = key => list[i].count = 1 /\ list[i].isSticky = f.r[3])
    <3>1. i \in Owned(list) /\ i # f.b /\ f.a \in Owned(list) /\ f.b \in Owned(list)
      BY <1>10, <1>11 DEF RecordsAgree
    <3>2. claim[i] \in AllTopics /\ claim[i] # claim[f.b] /\ (claim[i] = claim[f.a] => i = f.a)
      BY <1>10, <3>1 DEF RecordsAgree
    <3>3. claim[i][1] = key => claim[i] = claim[f.a]
      BY <1>11, <3>2, KeyTopics
    <3>4. list[f.a].count = 1 /\ list[f.a].isSticky = f.r[3]
      BY <1>10 DEF Sole
    <3>5. QED
      BY <1>7, <3>1, <3>2, <3>3, <3>4 DEF Owned
  <2>2. claim[f.b][1] = key
    BY <1>11
  <2>3. \A i, j \in hand \cup {f.b} : claim[i][1] = claim[j][1] =>
          list2[i].count = list2[j].count /\ list2[i].isSticky = list2[j].isSticky
    BY <1>10, <1>16, <2>1, <2>2 DEF PairsAgree
  <2>4. QED
    BY <1>10, <1>18, <2>3, PairsCount
<1>20. subscribed' = {claim[i] : i \in hand \cup {f.b}} /\ handlers' = hand \cup {f.b}
  BY <1>1, <1>2, <1>5, <1>8, <1>10, <1>11
<1>21. CallsAgree'
  <2>1. PICK hand2 : hand2 = handlers' /\ Owned(list2) \ hand2 = {}
    BY <1>10, <1>18, <1>20
  <2>2. \A n \in DOMAIN stack' : CallAgrees(stack'[n], list2, claim, hand2)
    BY <1>12
  <2>3. QED
    BY <1>6, <1>15, <2>1, <2>2, CallsNext
<1>22. QED
  BY <1>6, <1>15, <1>18, <1>19, <1>20, <1>21, AgreeNext

-----------------------------------------------------------------------------
(* A request is told its outcome.                                          *)

\* Calls that end a request, with one more.
LEMMA EndingPushed ==
  ASSUME IInv, NEW f \in Frames, f.kind # "action", stack' = Append(stack, f)
  PROVE  /\ \A q, answer : Ending(q, answer)' <=> Ending(q, answer) \/ (q = f.r /\ answer = f.on)
         /\ (Opening' <=> Opening) /\ (Opening => stack'[1] = stack[1])
<1>1. /\ Len(stack) + 1 \in DOMAIN stack' /\ stack'[Len(stack) + 1] = f
      /\ \A n \in DOMAIN stack : n \in DOMAIN stack' /\ stack'[n] = stack[n]
      /\ \A n \in DOMAIN stack' : n \in DOMAIN stack \/ n = Len(stack) + 1
      /\ (Opening' <=> Opening) /\ (Opening => stack'[1] = stack[1])
  BY PushIs
<1>2. ASSUME NEW q, NEW answer PROVE Ending(q, answer)' <=> Ending(q, answer) \/ (q = f.r /\ answer = f.on)
  BY <1>1 DEF Ending
<1>3. QED
  BY <1>1, <1>2

\* And without the call on top.
LEMMA EndingPopped ==
  ASSUME IInv, CallsTyped, stack # <<>>, Top.kind # "action", stack' = Front(stack)
  PROVE  /\ \A q, answer : Ending(q, answer)' <=> Ending(q, answer) /\ q # Top.r
         /\ Ending(Top.r, Top.on) /\ \A answer : Ending(Top.r, answer) => answer = Top.on
         /\ (Opening' <=> Opening) /\ (Opening => stack'[1] = stack[1] /\ stack[1].r # Top.r)
<1>1. /\ Len(stack) \in DOMAIN stack /\ stack[Len(stack)] = Top
      /\ Len(stack) \notin DOMAIN stack'
      /\ \A n \in DOMAIN stack' : n \in DOMAIN stack /\ stack'[n] = stack[n]
      /\ \A n \in DOMAIN stack : n # Len(stack) => n \in DOMAIN stack'
      /\ (Opening' <=> Opening) /\ (Opening => stack'[1] = stack[1])
  BY PopIs
<1>2. \A n \in DOMAIN stack : n # Len(stack) => stack[n].r # Top.r
  BY <1>1 DEF CallsTyped
<1>3. Opening => stack[1].r # Top.r
  BY <1>1, <1>2, StackIs DEF Opening
<1>4. ASSUME NEW q, NEW answer PROVE Ending(q, answer)' <=> Ending(q, answer) /\ q # Top.r
  BY <1>1, <1>2 DEF Ending
<1>5. Ending(Top.r, Top.on) /\ \A answer : Ending(Top.r, answer) => answer = Top.on
  BY <1>1, <1>2 DEF Ending
<1>6. QED
  BY <1>1, <1>3, <1>4, <1>5

\* And when the call on top goes on.
LEMMA EndingReplaced ==
  ASSUME IInv, CallsTyped, stack # <<>>, Top.kind # "action", NEW g \in Frames, g.kind = Top.kind, g.r = Top.r,
         stack' = [stack EXCEPT ![Len(stack)] = g]
  PROVE  /\ \A q, answer : Ending(q, answer)' <=> IF q = Top.r THEN answer = g.on ELSE Ending(q, answer)
         /\ Ending(Top.r, Top.on) /\ \A answer : Ending(Top.r, answer) => answer = Top.on
         /\ (Opening' <=> Opening) /\ (Opening => stack'[1] = stack[1] /\ stack[1].r # Top.r)
<1>1. /\ Len(stack) \in DOMAIN stack /\ stack[Len(stack)] = Top
      /\ DOMAIN stack' = DOMAIN stack /\ stack'[Len(stack)] = g
      /\ \A n \in DOMAIN stack : n # Len(stack) => stack'[n] = stack[n]
      /\ (Opening' <=> Opening) /\ (Opening => stack'[1] = stack[1])
  BY ReplaceIs
<1>2. \A n \in DOMAIN stack : n # Len(stack) => stack[n].r # Top.r
  BY <1>1 DEF CallsTyped
<1>3. Opening => stack[1].r # Top.r
  BY <1>1, <1>2, StackIs DEF Opening
<1>4. ASSUME NEW q, NEW answer
      PROVE  Ending(q, answer)' <=> IF q = Top.r THEN answer = g.on ELSE Ending(q, answer)
  <2>1. CASE q = Top.r
    BY <1>1, <1>2, <2>1 DEF Ending
  <2>2. CASE q # Top.r
    BY <1>1, <2>2 DEF Ending
  <2>3. QED
    BY <2>1, <2>2
<1>5. Ending(Top.r, Top.on) /\ \A answer : Ending(Top.r, answer) => answer = Top.on
  BY <1>1, <1>2 DEF Ending
<1>6. QED
  BY <1>1, <1>3, <1>4, <1>5

\* Outcomes leave an action in progress as it is.
LEMMA OpeningStays ==
  ASSUME Opening' <=> Opening, Opening => stack'[1] = stack[1], UNCHANGED persistent,
         \A i \in TopicSlots : SubscriptionList'[i].topic = SubscriptionList[i].topic
  PROVE  Halves' = Halves /\ Kept' = Kept /\ Claims' = Claims
<1>1. Halves' = Halves /\ Kept' = Kept
  BY DEF Halves, Kept
<1>2. Claims' = Claims
  <2>1. \A i \in TopicSlots :
          (IF Opening' /\ i = stack'[1].b THEN Topic(stack'[1].r, "rejected") ELSE SubscriptionList'[i].topic)
            = (IF Opening /\ i = stack[1].b THEN Topic(stack[1].r, "rejected") ELSE SubscriptionList[i].topic)
    OBVIOUS
  <2>2. QED
    BY <2>1 DEF Claims
<1>3. QED
  BY <1>1, <1>2

\* A request that is told an outcome counts on its topics as before.
LEMMA CallBackAgrees ==
  ASSUME IInv, RecordsTyped, AllAgree, NEW kind \in {"ack", "expire"}, NEW r \in Requests,
         NEW slot \in 1..MaxAcks, NEW outcome, CallBack(kind, r, slot, outcome), r \in Waiting,
         \A n \in DOMAIN stack : stack[n].r # r,
         UNCHANGED <<AckWaitList, SubscriptionList, handlers, subscribed, persistent>>
  PROVE  AllAgree'
<1>1. PICK f \in Frames : /\ stack' = Append(stack, f) /\ f.kind = kind /\ f.pc = "callback"
                          /\ f.on = "accepted" /\ f.r = r
  <2>1. PICK f : f = [kind |-> kind, pc |-> "callback", on |-> "accepted", r |-> r, slot |-> slot, a |-> 0, b |-> 0]
    OBVIOUS
  <2>2. 0 \in Places
    BY ShadowAssumption DEF Places
  <2>3. f \in Frames
    BY <2>1, <2>2 DEF Frames, Kinds, Calls, Answers
  <2>4. QED
    BY <2>1, <2>3 DEF CallBack
<1>2. /\ \A q, answer : Ending(q, answer)' <=> Ending(q, answer) \/ (q = r /\ answer = "accepted")
      /\ (Opening' <=> Opening) /\ (Opening => stack'[1] = stack[1])
  <2>1. f.kind # "action"
    BY <1>1
  <2>2. QED
    BY <1>1, <2>1, EndingPushed
<1>3. Waiting' = Waiting
  BY DEF Waiting
<1>4. \A answer : ~Ending(r, answer)
  BY DEF Ending
<1>5. Opening => stack[1].r # r
  BY StackIs DEF Opening
<1>6. Halves' = Halves /\ Kept' = Kept /\ Claims' = Claims
  BY <1>2, OpeningStays
<1>7. Leaving' = Leaving
  BY <1>2 DEF Leaving
<1>8. Uses' = Uses
  <2>1. ASSUME NEW p \in Requests \X Answers PROVE p \in Uses' <=> p \in Uses
    <3>1. CASE p[1] = r
      <4>1. p \in Uses
        BY <1>4, <3>1 DEF Uses
      <4>2. p \in Uses'
        BY <1>2, <1>3, <1>4, <3>1 DEF Uses
      <4>3. QED
        BY <4>1, <4>2
    <3>2. CASE p[1] # r
      BY <1>2, <1>3, <3>2 DEF Uses
    <3>3. QED
      BY <3>1, <3>2
  <2>2. Uses \subseteq Requests \X Answers /\ Uses' \subseteq Requests \X Answers
    BY DEF Uses
  <2>3. QED
    BY <2>1, <2>2
<1>9. /\ RecordsAgree(SubscriptionList, Claims, handlers, Uses, Kept)
      /\ subscribed = {Claims[i] : i \in handlers} /\ Owned(SubscriptionList) \ handlers = Halves
      /\ \A n \in DOMAIN stack : CallAgrees(stack[n], SubscriptionList, Claims, handlers)
      /\ Opening => \A n \in DOMAIN stack : n # 1 => stack[n].r[1] # stack[1].r[1]
  BY DEF AllAgree, CallsAgree
<1>10. Opening => r[1] # stack[1].r[1]
  <2>1. SUFFICES ASSUME Opening, r[1] = stack[1].r[1] PROVE FALSE
    OBVIOUS
  <2>2. PICK p \in Uses : p = <<r, "rejected">>
    <3>1. <<r, "rejected">> \in Requests \X Answers
      BY DEF Answers
    <3>2. <<r, "rejected">> \in Uses
      BY <1>4, <3>1 DEF Uses
    <3>3. QED
      BY <3>2
  <2>3. PICK o \in handlers : Claims[o] = Topic(p[1], p[2])
    BY <1>9, <2>2 DEF RecordsAgree
  <2>4. PICK b : b = stack[1].b /\ b \in Owned(SubscriptionList) \ handlers
    BY <1>9, <2>1 DEF Halves
  <2>5. Claims[b] = Topic(stack[1].r, "rejected")
    BY <2>1, <2>4 DEF Claims, Owned
  <2>6. Claims[b] = Claims[o]
    BY <2>1, <2>2, <2>3, <2>5 DEF Topic
  <2>7. o \in Owned(SubscriptionList)
    BY <1>9 DEF RecordsAgree
  <2>8. o = b
    BY <1>9, <2>4, <2>6, <2>7 DEF RecordsAgree
  <2>9. QED
    BY <2>4, <2>8
<1>11. CallsAgree'
  <2>1. /\ stack'[Len(stack) + 1] = f
        /\ \A n \in DOMAIN stack : n \in DOMAIN stack' /\ stack'[n] = stack[n] /\ n # Len(stack) + 1
        /\ \A n \in DOMAIN stack' : n \in DOMAIN stack \/ n = Len(stack) + 1
    BY <1>1, PushIs
  <2>2. CallAgrees(f, SubscriptionList, Claims, handlers)
    BY <1>1 DEF CallAgrees
  <2>3. PICK list, claim, hand : list = SubscriptionList /\ claim = Claims /\ hand = handlers
    OBVIOUS
  <2>4. \A n \in DOMAIN stack' : CallAgrees(stack'[n], list, claim, hand)
    BY <1>9, <2>1, <2>2, <2>3
  <2>5. Opening' => \A n \in DOMAIN stack' : n # 1 => stack'[n].r[1] # stack'[1].r[1]
    <3>1. SUFFICES ASSUME Opening', NEW n \in DOMAIN stack', n # 1 PROVE stack'[n].r[1] # stack'[1].r[1]
      OBVIOUS
    <3>2. Opening /\ stack'[1] = stack[1]
      BY <1>2, <3>1
    <3>3. CASE n \in DOMAIN stack
      BY <1>9, <2>1, <3>1, <3>2, <3>3
    <3>4. CASE n = Len(stack) + 1
      BY <1>1, <1>10, <2>1, <3>2, <3>4
    <3>5. QED
      BY <2>1, <3>3, <3>4
  <2>6. /\ SubscriptionList' = list /\ Claims' = claim /\ handlers' = hand
        /\ Owned(list) \ hand = Halves'
    BY <1>6, <1>9, <2>3
  <2>7. QED
    BY <2>4, <2>5, <2>6, CallsNext
<1>12. QED
  BY <1>6, <1>7, <1>8, <1>11 DEF AllAgree

\* A slot is the one that is found for a topic.
Finds(list, r, answer, o) ==
  LET found == {i \in 1..MaxTopics : ~list[i].isFree /\ list[i].topic = Topic(r, answer)}
  IN found # {} /\ Min(found) = o

\* What a look says that found a slot: the last user unsubscribes, any other is taken off.
Looked(list, look, answer, o) ==
  /\ look.on = answer
  /\ SoleUse(list[o]) => look.pc = "unsubscribe" /\ look.a = o /\ look.list = list
  /\ ~SoleUse(list[o]) => /\ look.pc = "done" /\ look.list \in [TopicSlots -> Records]
                          /\ Lowers(list, look.list, {o})
                          /\ \A i \in TopicSlots : i # o => look.list[i] = list[i]

\* What a look at a topic does that has a slot.
LEMMA LookFinds ==
  ASSUME NEW list \in [TopicSlots -> Records], NEW r, NEW answer, NEW o \in TopicSlots,
         Finds(list, r, answer, o), NEW look, look = Look(list, r, answer)
  PROVE  Looked(list, look, answer, o)
<1> USE DEF Looked
<1>1. look = IF SoleUse(list[o])
             THEN [pc |-> "unsubscribe", on |-> answer, a |-> o, list |-> list]
             ELSE [pc |-> "done", on |-> answer, a |-> 0,
                   list |-> IF list[o].count > 1 THEN [list EXCEPT ![o].count = @ - 1] ELSE list]
  BY DEF Look, Finds
<1>2. CASE SoleUse(list[o])
  BY <1>1, <1>2
<1>3. CASE ~SoleUse(list[o])
  <2>1. /\ look.on = answer /\ look.pc = "done"
        /\ look.list = IF list[o].count > 1 THEN [list EXCEPT ![o].count = @ - 1] ELSE list
    BY <1>1, <1>3
  <2>2. PICK z : z = [list[o] EXCEPT !.count = list[o].count - 1]
    OBVIOUS
  <2>3. list[o] \in Records /\ list[o].count \in Nat
    BY DEF Records
  <2>4. CASE list[o].count > 1
    <3>1. PICK n \in Nat : n = list[o].count - 1
      BY <2>3, <2>4
    <3>2. z \in Records /\ z.isFree = list[o].isFree /\ z.topic = list[o].topic
          /\ z.isSticky = list[o].isSticky /\ z.count = n
      BY <2>2, <2>3, <3>1 DEF Records
    <3>3. look.list = [list EXCEPT ![o] = z]
      BY <2>1, <2>2, <2>4
    <3>4. look.list \in [TopicSlots -> Records] /\ look.list[o] = z /\ \A i \in TopicSlots : i # o => look.list[i] = list[i]
      BY <3>2, <3>3
    <3>5. look.list[o].count = list[o].count - 1
      BY <3>1, <3>2, <3>4
    <3>6. ASSUME NEW i \in TopicSlots
          PROVE  /\ look.list[i].isFree = list[i].isFree /\ look.list[i].topic = list[i].topic
                 /\ look.list[i].isSticky = list[i].isSticky
                 /\ look.list[i].count = (IF i = o /\ list[o].count > 1 THEN list[i].count - 1 ELSE list[i].count)
      <4>1. CASE i = o
        BY <2>4, <3>2, <3>4, <3>5, <4>1
      <4>2. CASE i # o
        BY <3>4, <4>2
      <4>3. QED
        BY <4>1, <4>2
    <3>7. Lowers(list, look.list, {o})
      BY <3>6 DEF Lowers
    <3>8. QED
      BY <1>3, <2>1, <3>4, <3>7
  <2>5. CASE ~(list[o].count > 1)
    <3>1. look.list = list /\ Lowers(list, list, {o})
      BY <2>1, <2>5 DEF Lowers
    <3>2. QED
      BY <1>3, <2>1, <3>1
  <2>6. QED
    BY <2>4, <2>5
<1>4. QED
  BY <1>2, <1>3

\* The callback on top is about a request that counts on both its topics.
LEMMA ReturningIs ==
  ASSUME IInv, RecordsTyped, AllAgree, At("callback")
  PROVE  /\ stack # <<>> /\ Top.kind # "action" /\ Top.on = "accepted" /\ Top.r \in Requests
         /\ <<Top.r, "accepted">> \in Uses /\ <<Top.r, "rejected">> \in Uses
<1>1. stack # <<>> /\ Top.pc = "callback"
  BY DEF At
<1>2. Len(stack) \in DOMAIN stack /\ stack[Len(stack)] = Top /\ Top \in Frames
  BY <1>1, TopIs DEF IInv, StackOK
<1>3. Top.kind # "action"
  BY <1>1, <1>2, StackIs
<1>4. Top.on = "accepted"
  BY <1>1, <1>2 DEF RecordsTyped, CallsTyped, CallTyped
<1>5. Ending(Top.r, "accepted")
  BY <1>2, <1>3, <1>4 DEF Ending
<1>6. Top.r \in Requests
  BY <1>2 DEF Frames
<1>7. <<Top.r, "accepted">> \in Requests \X Answers /\ <<Top.r, "rejected">> \in Requests \X Answers
  BY <1>6 DEF Answers
<1>8. QED
  BY <1>1, <1>3, <1>4, <1>5, <1>6, <1>7 DEF Uses

\* The slots of a request's two topics.
OwnersAre(list, claim, hand, r, oa, ob) ==
  /\ oa \in hand /\ ob \in hand /\ oa \in TopicSlots /\ ob \in TopicSlots /\ oa # ob
  /\ claim[oa] = <<r[1], "accepted">> /\ claim[ob] = <<r[1], "rejected">>
  /\ list[oa].topic = Topic(r, "accepted") /\ list[ob].topic = Topic(r, "rejected")
  /\ Finds(list, r, "accepted", oa) /\ Finds(list, r, "rejected", ob)
  /\ list[oa].count = list[ob].count /\ list[oa].isSticky = list[ob].isSticky

\* A request that counts on both topics has them.
LEMMA BothOwners ==
  ASSUME NEW list \in [TopicSlots -> Records], NEW claim, NEW hand, NEW uses, NEW kept, NEW leaving,
         RecordsAgree(list, claim, hand, uses, kept), PairsAgree(list, claim, hand, leaving),
         NEW r \in Requests, <<r, "accepted">> \in uses, <<r, "rejected">> \in uses
  PROVE  \E oa, ob : OwnersAre(list, claim, hand, r, oa, ob)
<1>1. PICK pa \in uses : pa = <<r, "accepted">> /\ pa[1] = r /\ pa[2] = "accepted"
  OBVIOUS
<1>2. PICK pb \in uses : pb = <<r, "rejected">> /\ pb[1] = r /\ pb[2] = "rejected"
  OBVIOUS
<1>3. PICK oa \in hand :
        /\ oa \in Owned(list) /\ claim[oa] = Topic(pa[1], pa[2]) /\ list[oa].topic = Topic(pa[1], pa[2])
        /\ {i \in 1..MaxTopics : ~list[i].isFree /\ list[i].topic = Topic(pa[1], pa[2])} # {}
        /\ Min({i \in 1..MaxTopics : ~list[i].isFree /\ list[i].topic = Topic(pa[1], pa[2])}) = oa
  BY <1>1, OwnerIs
<1>4. PICK ob \in hand :
        /\ ob \in Owned(list) /\ claim[ob] = Topic(pb[1], pb[2]) /\ list[ob].topic = Topic(pb[1], pb[2])
        /\ {i \in 1..MaxTopics : ~list[i].isFree /\ list[i].topic = Topic(pb[1], pb[2])} # {}
        /\ Min({i \in 1..MaxTopics : ~list[i].isFree /\ list[i].topic = Topic(pb[1], pb[2])}) = ob
  BY <1>2, OwnerIs
<1>5. claim[oa] = <<r[1], "accepted">> /\ claim[ob] = <<r[1], "rejected">>
  BY <1>1, <1>2, <1>3, <1>4, KeyTopics
<1>6. /\ oa # ob /\ list[oa].count = list[ob].count /\ list[oa].isSticky = list[ob].isSticky
      /\ oa \in TopicSlots /\ ob \in TopicSlots
  <2>1. claim[oa] # claim[ob] /\ claim[oa][1] = claim[ob][1]
    BY <1>5, KeyTopics
  <2>2. QED
    BY <1>3, <1>4, <2>1 DEF PairsAgree, Owned
<1>7. Finds(list, r, "accepted", oa) /\ Finds(list, r, "rejected", ob)
  BY <1>1, <1>2, <1>3, <1>4 DEF Finds
<1>8. OwnersAre(list, claim, hand, r, oa, ob)
  BY <1>1, <1>2, <1>3, <1>4, <1>5, <1>6, <1>7 DEF OwnersAre
<1>9. QED
  BY <1>8

\* The last user of its topics goes on to unsubscribe the first.
LEMMA LastReturns ==
  ASSUME IInv, RecordsTyped, RecordsTyped', AllAgree, At("callback"), NEW look, GoOn(look), look.pc = "unsubscribe",
         look.on = "accepted", look.list = SubscriptionList, NEW oa \in handlers, oa \in TopicSlots, look.a = oa,
         SoleUse(SubscriptionList[oa]), SubscriptionList[oa].topic = Topic(Top.r, "accepted"),
         UNCHANGED <<handlers, subscribed, persistent>>
  PROVE  AllAgree'
<1>1. /\ stack # <<>> /\ Top.kind # "action" /\ Top.on = "accepted" /\ Top.r \in Requests
      /\ <<Top.r, "accepted">> \in Uses /\ <<Top.r, "rejected">> \in Uses
  BY ReturningIs
<1>2. PICK g \in Frames : /\ g.kind = Top.kind /\ g.r = Top.r /\ g.pc = "unsubscribe" /\ g.on = "accepted" /\ g.a = oa
                          /\ stack' = [stack EXCEPT ![Len(stack)] = g]
  <2>1. look.on \in Answers /\ look.a \in TopicSlots
    BY DEF Answers
  <2>2. QED
    BY <1>1, <2>1, GoOnFrame
<1>3. /\ \A q, answer : Ending(q, answer)' <=> IF q = Top.r THEN answer = "accepted" ELSE Ending(q, answer)
      /\ Ending(Top.r, "accepted") /\ \A answer : Ending(Top.r, answer) => answer = "accepted"
      /\ (Opening' <=> Opening) /\ (Opening => stack'[1] = stack[1] /\ stack[1].r # Top.r)
  BY <1>1, <1>2, EndingReplaced DEF RecordsTyped
<1>4. \A q, answer : Ending(q, answer)' <=> Ending(q, answer)
  BY <1>3
<1>5. \A q \in Requests : q # Top.r => (q \in Waiting' <=> q \in Waiting)
  BY <1>1, GoOnWaiting
<1>6. SubscriptionList' = SubscriptionList
  BY DEF GoOn
<1>7. Halves' = Halves /\ Kept' = Kept /\ Claims' = Claims
  BY <1>3, <1>6, OpeningStays
<1>8. Leaving' = Leaving
  BY <1>4 DEF Leaving
<1>9. Uses' = Uses
  <2>1. ASSUME NEW p \in Requests \X Answers PROVE p \in Uses' <=> p \in Uses
    <3>1. CASE p[1] = Top.r
      <4>1. p \in Uses
        BY <1>3, <3>1 DEF Uses
      <4>2. p \in Uses'
        BY <1>3, <1>4, <3>1 DEF Uses
      <4>3. QED
        BY <4>1, <4>2
    <3>2. CASE p[1] # Top.r
      BY <1>3, <1>4, <1>5, <3>2 DEF Uses
    <3>3. QED
      BY <3>1, <3>2
  <2>2. Uses \subseteq Requests \X Answers /\ Uses' \subseteq Requests \X Answers
    BY DEF Uses
  <2>3. QED
    BY <2>1, <2>2
<1>10. PICK list, claim, hand : list = SubscriptionList /\ claim = Claims /\ hand = handlers
  OBVIOUS
<1>11. /\ Owned(list) \ hand = Halves /\ list \in [TopicSlots -> Records]
       /\ \A n \in DOMAIN stack : CallAgrees(stack[n], list, claim, hand)
       /\ Opening => \A n \in DOMAIN stack : n # 1 => stack[n].r[1] # stack[1].r[1]
  BY <1>10 DEF AllAgree, CallsAgree, RecordsTyped, ListTyped
<1>12. CallsAgree'
  <2>1. /\ Len(stack) \in DOMAIN stack /\ stack[Len(stack)] = Top
        /\ DOMAIN stack' = DOMAIN stack /\ stack'[Len(stack)] = g
        /\ \A n \in DOMAIN stack : n # Len(stack) => stack'[n] = stack[n]
    BY <1>1, <1>2, ReplaceIs
  <2>2. list[oa].isSticky = FALSE /\ list[oa].count = 1 /\ list[oa].topic = Topic(g.r, g.on)
    <3>1. list[oa].isSticky \in BOOLEAN
      BY <1>11 DEF Records
    <3>2. QED
      BY <1>2, <1>10, <3>1 DEF SoleUse
  <2>3. CallAgrees(g, list, claim, hand)
    BY <1>1, <1>2, <1>10, <2>2 DEF CallAgrees, Sole
  <2>4. \A n \in DOMAIN stack' : CallAgrees(stack'[n], list, claim, hand)
    BY <1>11, <2>1, <2>3
  <2>5. Opening' => \A n \in DOMAIN stack' : n # 1 => stack'[n].r[1] # stack'[1].r[1]
    BY <1>2, <1>3, <1>11, <2>1
  <2>6. /\ SubscriptionList' = list /\ Claims' = claim /\ handlers' = hand
        /\ Owned(list) \ hand = Halves'
    BY <1>6, <1>7, <1>10, <1>11
  <2>7. QED
    BY <2>4, <2>5, <2>6, CallsNext
<1>13. QED
  BY <1>6, <1>7, <1>8, <1>9, <1>12 DEF AllAgree

\* Any other takes itself off both counts, and is done.
LEMMA OtherReturns ==
  ASSUME IsFiniteSet(Requests), IInv, RecordsTyped, RecordsTyped', AllAgree, At("callback"), NEW look, GoOn(look), look.pc = "done",
         NEW oa \in handlers, NEW ob \in handlers, ~SoleUse(SubscriptionList[oa]),
         Claims[oa] = <<Top.r[1], "accepted">>, Claims[ob] = <<Top.r[1], "rejected">>,
         Lowers(SubscriptionList, look.list, {oa, ob}),
         UNCHANGED <<handlers, subscribed, persistent>>
  PROVE  AllAgree'
<1>1. /\ stack # <<>> /\ Top.kind # "action" /\ Top.on = "accepted" /\ Top.r \in Requests
      /\ <<Top.r, "accepted">> \in Uses /\ <<Top.r, "rejected">> \in Uses
  BY ReturningIs
<1>2. stack' = Front(stack) /\ SubscriptionList' = look.list /\ Top.pc = "callback"
  BY DEF GoOn, At
<1>3. /\ \A q, answer : Ending(q, answer)' <=> Ending(q, answer) /\ q # Top.r
      /\ \A answer : Ending(Top.r, answer) => answer = "accepted"
      /\ (Opening' <=> Opening) /\ (Opening => stack'[1] = stack[1] /\ stack[1].r # Top.r)
  BY <1>1, <1>2, EndingPopped DEF RecordsTyped
<1>4. /\ \A q \in Requests : q # Top.r => (q \in Waiting' <=> q \in Waiting)
      /\ Top.r \notin Waiting'
  BY <1>1, <1>2, GoOnWaiting
<1>5. Halves' = Halves /\ Kept' = Kept /\ Claims' = Claims
  BY <1>2, <1>3, OpeningStays DEF Lowers
<1>6. Leaving' = Leaving
  <2>1. \A q : Ending(q, "rejected")' <=> Ending(q, "rejected")
    BY <1>3
  <2>2. QED
    BY <2>1 DEF Leaving
<1>7. PICK list, list2, claim, hand, uses, kept, leaving :
        /\ list = SubscriptionList /\ list2 = SubscriptionList' /\ claim = Claims /\ hand = handlers
        /\ uses = Uses /\ kept = Kept /\ leaving = Leaving
  OBVIOUS
<1>8. Uses' = uses \ {<<Top.r, "accepted">>, <<Top.r, "rejected">>}
  <2>1. ASSUME NEW p \in Requests \X Answers PROVE p \in Uses' <=> p \in Uses /\ p[1] # Top.r
    <3>1. CASE p[1] = Top.r
      BY <1>3, <1>4, <3>1 DEF Uses
    <3>2. CASE p[1] # Top.r
      BY <1>3, <1>4, <3>2 DEF Uses
    <3>3. QED
      BY <3>1, <3>2
  <2>2. Uses \subseteq Requests \X Answers /\ Uses' \subseteq Requests \X Answers
    BY DEF Uses
  <2>3. \A p \in Requests \X Answers : p[1] = Top.r <=> p \in {<<Top.r, "accepted">>, <<Top.r, "rejected">>}
    BY DEF Answers
  <2>4. QED
    BY <1>7, <2>1, <2>2, <2>3
<1>9. /\ Owned(list) \ hand = Halves /\ list \in [TopicSlots -> Records] /\ list2 \in [TopicSlots -> Records]
      /\ uses \in SUBSET (Requests \X Answers) /\ subscribed = {claim[i] : i \in hand}
      /\ RecordsAgree(list, claim, hand, uses, kept) /\ PairsAgree(list, claim, hand, leaving)
      /\ \A n \in DOMAIN stack : CallAgrees(stack[n], list, claim, hand)
      /\ Opening => \A n \in DOMAIN stack : n # 1 => stack[n].r[1] # stack[1].r[1]
  <2>1. list \in [TopicSlots -> Records] /\ list2 \in [TopicSlots -> Records]
    BY <1>7 DEF RecordsTyped, ListTyped
  <2>2. uses \in SUBSET (Requests \X Answers)
    BY <1>7 DEF Uses
  <2>3. QED
    BY <1>7, <2>1, <2>2 DEF AllAgree, CallsAgree
<1>10. PICK r \in Requests : r = Top.r
  BY <1>1
<1>11. Lowers(list, list2, {oa, ob})
  BY <1>2, <1>7
<1>12. /\ oa \in hand /\ ob \in hand /\ claim[oa] = <<r[1], "accepted">> /\ claim[ob] = <<r[1], "rejected">>
       /\ ~SoleUse(list[oa]) /\ <<r, "accepted">> \in uses /\ <<r, "rejected">> \in uses
  BY <1>1, <1>7, <1>10
<1>13. /\ TakesOff(list, list2, claim, hand, uses, r, oa, ob)
       /\ RecordsAgree(list2, claim, hand, uses \ {<<r, "accepted">>, <<r, "rejected">>}, kept)
       /\ PairsAgree(list2, claim, hand, leaving) /\ Owned(list2) = Owned(list)
  <2>1. TakesOff(list, list2, claim, hand, uses, r, oa, ob)
    BY <1>10, <1>11, <1>12 DEF TakesOff
  <2>2. QED
    BY <1>9, <2>1, BothEnd
<1>14. CallsAgree'
  <2>1. /\ \A n \in DOMAIN stack' : n \in DOMAIN stack /\ stack'[n] = stack[n]
    BY <1>1, <1>2, PopIs
  <2>2. \A i \in TopicSlots : list[i].count = 1 => list2[i].count = 1
    BY <1>9, <1>11 DEF Records, Lowers
  <2>3. ASSUME NEW i, NEW topic, NEW sticky, Sole(list, hand, i, topic, sticky) PROVE Sole(list2, hand, i, topic, sticky)
    <3>1. i \in TopicSlots
      BY <1>9, <2>3 DEF Sole, RecordsAgree, Owned
    <3>2. QED
      BY <1>11, <2>2, <2>3, <3>1 DEF Sole, Lowers
  <2>4. \A t : Has(list2, claim, t) <=> Has(list, claim, t)
    BY <1>13 DEF Has
  <2>5. ASSUME NEW n \in DOMAIN stack' PROVE CallAgrees(stack'[n], list2, claim, hand)
    <3>1. PICK f \in Frames : f = stack[n] /\ f = stack'[n] /\ CallAgrees(f, list, claim, hand)
      BY <1>9, <2>1, StackIs
    <3>2. f.kind = "action" => f.a \in TopicSlots /\ (f.on = "rejected" => f.b \in TopicSlots)
      <4>1. CallTyped(f, Waiting) /\ (f.kind = "action" => f.pc \in {"subscribe", "undo"}) /\ f.pc # "undo"
        BY <2>1, <3>1, StackIs DEF RecordsTyped, CallsTyped, CallAgrees
      <4>2. QED
        BY <4>1 DEF CallTyped
    <3>3. QED
      BY <1>11, <2>3, <2>4, <3>1, <3>2 DEF CallAgrees, Lowers
  <2>6. Opening' => \A n \in DOMAIN stack' : n # 1 => stack'[n].r[1] # stack'[1].r[1]
    BY <1>3, <1>9, <2>1
  <2>7. /\ SubscriptionList' = list2 /\ Claims' = claim /\ handlers' = hand
        /\ Owned(list2) \ hand = Halves'
    BY <1>5, <1>7, <1>9, <1>13
  <2>8. QED
    BY <2>5, <2>6, <2>7, CallsNext
<1>15. /\ SubscriptionList' = list2 /\ Claims' = claim /\ handlers' = hand /\ Kept' = kept /\ Leaving' = leaving
       /\ Uses' = uses \ {<<r, "accepted">>, <<r, "rejected">>} /\ subscribed' = {claim[i] : i \in hand}
  BY <1>5, <1>6, <1>7, <1>8, <1>9, <1>10
<1>16. QED
  BY <1>13, <1>14, <1>15, AgreeNext

\* A callback returns.
LEMMA CallbackReturnsAgrees ==
  ASSUME IsFiniteSet(Requests), IInv, RecordsTyped, RecordsTyped', AllAgree, CallbackReturns
  PROVE  AllAgree'
<1>1. /\ At("callback") /\ Top.r \in Requests
      /\ <<Top.r, "accepted">> \in Uses /\ <<Top.r, "rejected">> \in Uses
  BY ReturningIs DEF CallbackReturns
<1>2. /\ GoOn(LookBoth(SubscriptionList, Top.r))
      /\ UNCHANGED <<handlers, subscribed, persistent>>
  BY DEF CallbackReturns, topics, ghosts
<1>3. PICK look, first : /\ GoOn(look) /\ first = Look(SubscriptionList, Top.r, "accepted")
                         /\ look = IF first.pc = "done" THEN Look(first.list, Top.r, "rejected") ELSE first
  BY <1>2 DEF LookBoth
<1>4. PICK list, claim, hand, uses, kept, leaving :
        /\ list = SubscriptionList /\ claim = Claims /\ hand = handlers /\ uses = Uses /\ kept = Kept
        /\ leaving = Leaving
  OBVIOUS
<1>5. PICK r \in Requests : r = Top.r /\ <<r, "accepted">> \in uses /\ <<r, "rejected">> \in uses
  BY <1>1, <1>4
<1>6. /\ list \in [TopicSlots -> Records] /\ RecordsAgree(list, claim, hand, uses, kept)
      /\ PairsAgree(list, claim, hand, leaving)
  BY <1>4 DEF AllAgree, RecordsTyped, ListTyped
<1>7. PICK oa, ob : OwnersAre(list, claim, hand, r, oa, ob)
  BY <1>5, <1>6, BothOwners
<1>8. /\ oa \in hand /\ ob \in hand /\ oa \in TopicSlots /\ ob \in TopicSlots /\ oa # ob
      /\ claim[oa] = <<r[1], "accepted">> /\ claim[ob] = <<r[1], "rejected">>
      /\ list[oa].topic = Topic(r, "accepted")
      /\ list[oa].count = list[ob].count /\ list[oa].isSticky = list[ob].isSticky
  BY <1>7 DEF OwnersAre
<1>9. Finds(list, r, "accepted", oa) /\ Finds(list, r, "rejected", ob)
  BY <1>7 DEF OwnersAre
<1>10. first = Look(list, r, "accepted")
  BY <1>3, <1>4, <1>5
<1>11. Looked(list, first, "accepted", oa)
  BY <1>6, <1>8, <1>9, <1>10, LookFinds
<1>12. CASE SoleUse(list[oa])
  <2>1. look = first /\ look.pc = "unsubscribe" /\ look.on = "accepted" /\ look.a = oa /\ look.list = list
    BY <1>3, <1>11, <1>12 DEF Looked
  <2>2. oa \in handlers /\ look.list = SubscriptionList /\ SoleUse(SubscriptionList[oa])
        /\ SubscriptionList[oa].topic = Topic(Top.r, "accepted") /\ oa \in TopicSlots
    BY <1>4, <1>5, <1>8, <1>12, <2>1
  <2>3. QED
    BY <1>1, <1>2, <1>3, <2>1, <2>2, LastReturns
<1>13. CASE ~SoleUse(list[oa])
  <2>1. PICK mid : mid = first.list /\ mid \in [TopicSlots -> Records] /\ Lowers(list, mid, {oa})
                   /\ \A i \in TopicSlots : i # oa => mid[i] = list[i]
    BY <1>11, <1>13 DEF Looked
  <2>2. look = Look(mid, r, "rejected")
    BY <1>3, <1>5, <1>11, <1>13, <2>1 DEF Looked
  <2>3. mid[ob] = list[ob] /\ ~SoleUse(mid[ob])
    BY <1>8, <1>13, <2>1 DEF SoleUse
  <2>4. {i \in 1..MaxTopics : ~mid[i].isFree /\ mid[i].topic = Topic(r, "rejected")}
          = {i \in 1..MaxTopics : ~list[i].isFree /\ list[i].topic = Topic(r, "rejected")}
    BY <2>1 DEF Lowers, TopicSlots
  <2>5. Finds(mid, r, "rejected", ob)
    BY <1>9, <2>4 DEF Finds
  <2>6. Looked(mid, look, "rejected", ob)
    BY <1>8, <2>1, <2>2, <2>5, LookFinds
  <2>7. look.pc = "done" /\ Lowers(mid, look.list, {ob})
    BY <2>3, <2>6 DEF Looked
  <2>8. Lowers(list, look.list, {oa, ob})
    BY <1>8, <2>1, <2>3, <2>7 DEF Lowers
  <2>9. /\ oa \in handlers /\ ob \in handlers /\ ~SoleUse(SubscriptionList[oa])
        /\ Claims[oa] = <<Top.r[1], "accepted">> /\ Claims[ob] = <<Top.r[1], "rejected">>
        /\ Lowers(SubscriptionList, look.list, {oa, ob})
    BY <1>4, <1>5, <1>8, <1>13, <2>8
  <2>10. QED
    BY <1>1, <1>2, <1>3, <2>7, <2>9, OtherReturns
<1>14. QED
  BY <1>12, <1>13

-----------------------------------------------------------------------------
(* The topics are unsubscribed.                                            *)

\* A request's use of one of its topics.
LEMMA UseIs ==
  ASSUME NEW r \in Requests, NEW answer \in Answers
  PROVE  \E p \in Requests \X Answers : p = <<r, answer>> /\ p[1] = r /\ p[2] = answer
<1>1. <<r, answer>> \in Requests \X Answers /\ <<r, answer>>[1] = r /\ <<r, answer>>[2] = answer
  OBVIOUS
<1>2. QED
  BY <1>1

\* A slot that is marked free, and nothing else.
LEMMA MarkedFree ==
  ASSUME NEW list \in [TopicSlots -> Records], NEW o \in TopicSlots, NEW list2,
         list2 = [list EXCEPT ![o].isFree = TRUE]
  PROVE  list2 \in [TopicSlots -> Records] /\ Leaves(list, list2, o)
<1>1. PICK z : z = [list[o] EXCEPT !.isFree = TRUE]
  OBVIOUS
<1>2. /\ z \in Records /\ z.isFree = TRUE /\ z.topic = list[o].topic
      /\ z.isSticky = list[o].isSticky /\ z.count = list[o].count
  BY <1>1 DEF Records
<1>3. list2 = [list EXCEPT ![o] = z]
  BY <1>1
<1>4. list2 \in [TopicSlots -> Records] /\ list2[o] = z /\ \A i \in TopicSlots : i # o => list2[i] = list[i]
  BY <1>2, <1>3
<1>5. QED
  BY <1>2, <1>4 DEF Leaves

\* Who unsubscribes a topic is its last user, and has a handler for it.
Unsubscribing(answer, list, claim, hand, uses, r, o) ==
  /\ r \in Requests /\ o \in TopicSlots /\ o \in hand /\ claim[o] = Topic(r, answer)
  /\ list[o].topic = Topic(r, answer) /\ list[o].count = 1 /\ ~list[o].isSticky
  /\ <<r, answer>> \in uses

\* So the unsubscribe is acknowledged, as no call fails.
LEMMA UnsubscribingIs ==
  ASSUME IInv, RecordsTyped, AllAgree, NEW answer \in Answers, Unsubscribe(answer), UNCHANGED faults
  PROVE  /\ stack # <<>> /\ Top.kind # "action" /\ Top.pc = "unsubscribe" /\ Top.on = answer
         /\ Unsubscribing(answer, SubscriptionList, Claims, handlers, Uses, Top.r, Top.a)
         /\ CallAgrees(Top, SubscriptionList, Claims, handlers)
         /\ handlers' = handlers \ {Top.a} /\ subscribed' = {Claims[i] : i \in handlers \ {Top.a}}
         /\ GoOn(LookOn([SubscriptionList EXCEPT ![Top.a].isFree = TRUE], answer)) /\ UNCHANGED persistent
<1>1. stack # <<>> /\ Top.pc = "unsubscribe" /\ Top.on = answer /\ UNCHANGED persistent
  BY DEF Unsubscribe, At
<1>2. Len(stack) \in DOMAIN stack /\ stack[Len(stack)] = Top /\ Top \in Frames
  BY <1>1, TopIs DEF IInv, StackOK
<1>3. Top.kind # "action" /\ Top.r \in Requests
  <2>1. Top.r \in Requests
    BY <1>2 DEF Frames
  <2>2. Top.kind # "action"
    BY <1>1, <1>2, StackIs
  <2>3. QED
    BY <2>1, <2>2
<1>4. CallAgrees(Top, SubscriptionList, Claims, handlers)
  BY <1>2 DEF AllAgree, CallsAgree
<1>5. PICK list, claim, hand, r, o : /\ list = SubscriptionList /\ claim = Claims /\ hand = handlers
                                     /\ r = Top.r /\ o = Top.a
  OBVIOUS
<1>6. /\ o \in hand /\ list[o].topic = Topic(r, answer) /\ list[o].count = 1 /\ ~list[o].isSticky
  BY <1>1, <1>4, <1>5 DEF CallAgrees, Sole
<1>7. RecordsAgree(list, claim, hand, Uses, Kept) /\ subscribed = {claim[i] : i \in hand}
  BY <1>5 DEF AllAgree
<1>8. /\ hand \subseteq Owned(list) /\ \A i \in hand : list[i].topic = claim[i]
      /\ \A i, j \in hand : claim[i] = claim[j] => i = j
  BY <1>7 DEF RecordsAgree
<1>9. claim[o] = Topic(r, answer) /\ o \in TopicSlots
  BY <1>6, <1>8 DEF Owned
<1>10. <<r, answer>> \in Uses
  <2>1. Ending(r, answer)
    BY <1>1, <1>2, <1>3, <1>5 DEF Ending
  <2>2. PICK p \in Requests \X Answers : p = <<r, answer>> /\ p[1] = r /\ p[2] = answer
    BY <1>3, <1>5, UseIs
  <2>3. answer = "accepted" \/ answer = "rejected"
    BY DEF Answers
  <2>4. p \in Uses
    BY <2>1, <2>2, <2>3 DEF Uses
  <2>5. QED
    BY <2>2, <2>4
<1>11. HandlersOf(Topic(r, answer)) \cap hand = {o}
  BY <1>5, <1>6, <1>8, <1>9 DEF HandlersOf
<1>12. /\ Forgets(Topic(r, answer))
       /\ GoOn(LookOn([SubscriptionList EXCEPT ![Top.a].isFree = TRUE], answer))
  <2>1. faults' # faults + 1
    BY DEF RecordsTyped, TopicsTyped
  <2>2. HandlersOf(Topic(Top.r, answer)) # {}
    BY <1>5, <1>11
  <2>3. QED
    BY <1>5, <2>1, <2>2 DEF Unsubscribe, Fault
<1>13. handlers' = hand \ {o} /\ subscribed' = {claim[i] : i \in hand \ {o}}
  <2>1. handlers' = hand \ {o} /\ subscribed' = {claim[i] : i \in hand} \ {claim[o]}
    <3>1. handlers' = hand \ HandlersOf(Topic(r, answer)) /\ subscribed' = subscribed \ {Topic(r, answer)}
      BY <1>5, <1>12 DEF Forgets
    <3>2. QED
      BY <1>7, <1>9, <1>11, <3>1
  <2>2. {claim[i] : i \in hand} \ {claim[o]} = {claim[i] : i \in hand \ {o}}
    BY <1>6, <1>8
  <2>3. QED
    BY <2>1, <2>2
<1>14. Unsubscribing(answer, SubscriptionList, Claims, handlers, Uses, Top.r, Top.a)
  BY <1>3, <1>5, <1>6, <1>9, <1>10 DEF Unsubscribing
<1>15. QED
  BY <1>1, <1>3, <1>4, <1>5, <1>12, <1>13, <1>14

\* The slot that the last call gives back is no other call's.
LEMMA OthersKeep ==
  ASSUME IsFiniteSet(Requests), IInv, RecordsTyped, AllAgree, stack # <<>>, Top.kind # "action",
         NEW answer \in Answers, Top.on = answer,
         NEW list, NEW list2, NEW claim, NEW hand, NEW uses, NEW o,
         list = SubscriptionList, claim = Claims, hand = handlers, uses = Uses,
         Unsubscribing(answer, list, claim, hand, uses, Top.r, o), Leaves(list, list2, o),
         NEW n \in DOMAIN stack, n # Len(stack)
  PROVE  CallAgrees(stack[n], list2, claim, hand \ {o})
<1>1. /\ Len(stack) \in DOMAIN stack /\ stack[Len(stack)] = Top /\ Len(stack) \in Nat
      /\ DOMAIN stack = 1..Len(stack)
  BY TopIs DEF IInv, StackOK
<1>2. PICK f \in Frames : f = stack[n] /\ CallAgrees(f, list, claim, hand) /\ f.r # Top.r
  <2>1. stack[n] \in Frames
    BY StackIs
  <2>2. stack[n].r # Top.r
    BY <1>1 DEF RecordsTyped, CallsTyped
  <2>3. QED
    BY <2>1, <2>2 DEF AllAgree, CallsAgree
<1>3. /\ o \in TopicSlots /\ o \in hand /\ list[o].topic = Topic(Top.r, answer) /\ list[o].count = 1
      /\ claim[o] = Topic(Top.r, answer) /\ <<Top.r, answer>> \in uses
  BY DEF Unsubscribing
<1>4. f.kind = "action" => /\ f.a \in TopicSlots /\ (f.on = "rejected" => f.b \in TopicSlots)
                           /\ f.r[1] # Top.r[1]
  <2>1. SUFFICES ASSUME f.kind = "action"
                 PROVE  /\ f.a \in TopicSlots /\ (f.on = "rejected" => f.b \in TopicSlots)
                        /\ f.r[1] # Top.r[1]
    OBVIOUS
  <2>2. f.pc \in {"subscribe", "undo"} /\ n = 1 /\ f.pc # "undo" /\ CallTyped(f, Waiting)
    BY <1>2, <2>1, StackIs DEF RecordsTyped, CallsTyped, CallAgrees
  <2>3. Opening /\ Len(stack) # 1 /\ f = stack[1]
    BY <1>2, <2>1, <2>2 DEF Opening
  <2>4. f.r[1] # Top.r[1]
    BY <1>1, <2>3 DEF AllAgree, CallsAgree
  <2>5. QED
    BY <2>2, <2>4 DEF CallTyped
<1>5. f.kind = "action" /\ f.on = "rejected" => f.a # o
  <2>1. Topic(f.r, "accepted") = Topic(Top.r, answer) => f.r[1] = Top.r[1]
    BY DEF Topic
  <2>2. f.kind = "action" /\ f.on = "rejected" => list[f.a].topic = Topic(f.r, "accepted")
    BY <1>2 DEF CallAgrees
  <2>3. QED
    BY <1>3, <1>4, <2>1, <2>2
<1>6. f.pc = "unsubscribe" => f.a # o
  <2>1. SUFFICES ASSUME f.pc = "unsubscribe", f.a = o PROVE FALSE
    OBVIOUS
  <2>2. list[o].topic = Topic(f.r, f.on) /\ f.kind # "action"
    BY <1>2, <2>1, StackIs DEF CallAgrees, Sole
  <2>3. f.r \in Requests /\ f.on \in Answers
    BY DEF Frames
  <2>4. Ending(f.r, f.on)
    BY <1>2, <2>2 DEF Ending
  <2>5. PICK p \in Requests \X Answers : p = <<f.r, f.on>> /\ p[1] = f.r /\ p[2] = f.on
    BY <2>3, UseIs
  <2>6. f.on = "accepted" \/ f.on = "rejected"
    BY <2>3 DEF Answers
  <2>7. p \in uses
    BY <2>4, <2>5, <2>6 DEF Uses
  <2>8. PICK q \in uses : q = <<Top.r, answer>> /\ q[1] = Top.r /\ q[2] = answer
    BY <1>3
  <2>9. Topic(q[1], q[2]) = Topic(p[1], p[2]) /\ claim[o] = Topic(q[1], q[2])
    BY <1>3, <2>2, <2>5, <2>8
  <2>10. Counts(list[o], Users(uses, claim[o]), claim[o][1] \in Kept)
    BY <1>3 DEF AllAgree, RecordsAgree
  <2>11. Cardinality(Users(uses, Topic(q[1], q[2]))) <= 1
    BY <1>3, <2>9, <2>10 DEF Counts
  <2>12. uses \in SUBSET (Requests \X Answers)
    BY DEF Uses
  <2>13. q = p
    BY <2>7, <2>8, <2>9, <2>11, <2>12, OnlyUser
  <2>14. QED
    BY <1>2, <2>5, <2>8, <2>13
<1>7. /\ \A i \in TopicSlots : list2[i].topic = list[i].topic
      /\ \A i, topic, sticky : i # o /\ Sole(list, hand, i, topic, sticky) => Sole(list2, hand \ {o}, i, topic, sticky)
      /\ \A topic : Has(list2, claim, topic) => Has(list, claim, topic)
  <2>1. hand \subseteq TopicSlots
    BY DEF AllAgree, RecordsAgree, Owned
  <2>2. \A topic : Has(list2, claim, topic) => Has(list, claim, topic)
    BY DEF Has, Owned, Leaves
  <2>3. \A i, topic, sticky : i # o /\ Sole(list, hand, i, topic, sticky) => Sole(list2, hand \ {o}, i, topic, sticky)
    BY <2>1 DEF Sole, Leaves
  <2>4. QED
    BY <2>2, <2>3 DEF Leaves
<1>8. CallAgrees(f, list2, claim, hand \ {o})
  BY <1>2, <1>4, <1>5, <1>6, <1>7 DEF CallAgrees
<1>9. QED
  BY <1>2, <1>8

\* The first topic is unsubscribed; its last user is the last one of the second.
LEMMA FirstUnsubscribed ==
  ASSUME IsFiniteSet(Requests), IInv, RecordsTyped, RecordsTyped', AllAgree, Unsubscribe("accepted"), UNCHANGED faults
  PROVE  AllAgree'
<1>1. PICK list, claim, hand, uses, kept, leaving, halves :
        /\ list = SubscriptionList /\ claim = Claims /\ hand = handlers /\ uses = Uses /\ kept = Kept
        /\ leaving = Leaving /\ halves = Halves
  OBVIOUS
<1>2. PICK r, o : r = Top.r /\ o = Top.a
  OBVIOUS
<1>3. /\ stack # <<>> /\ Top.kind # "action" /\ Top.pc = "unsubscribe" /\ Top.on = "accepted"
      /\ Unsubscribing("accepted", list, claim, hand, uses, r, o)
      /\ handlers' = hand \ {o} /\ subscribed' = {claim[i] : i \in hand \ {o}}
      /\ GoOn(LookOn([SubscriptionList EXCEPT ![Top.a].isFree = TRUE], "accepted")) /\ UNCHANGED persistent
  BY <1>1, <1>2, UnsubscribingIs DEF Answers
<1>4. /\ r \in Requests /\ o \in TopicSlots /\ o \in hand /\ claim[o] = <<r[1], "accepted">>
      /\ list[o].count = 1 /\ ~list[o].isSticky
  BY <1>3, KeyTopics DEF Unsubscribing
<1>5. /\ list \in [TopicSlots -> Records] /\ RecordsAgree(list, claim, hand, uses, kept)
      /\ PairsAgree(list, claim, hand, leaving) /\ uses \in SUBSET (Requests \X Answers)
      /\ Owned(list) \ hand = halves
  BY <1>1 DEF AllAgree, RecordsTyped, ListTyped, CallsAgree, Uses
<1>6. PICK mid : mid = [list EXCEPT ![o].isFree = TRUE] /\ mid \in [TopicSlots -> Records] /\ Leaves(list, mid, o)
  BY <1>4, <1>5, MarkedFree
<1>7. PICK look : look = Look(mid, r, "rejected") /\ GoOn(look)
  BY <1>1, <1>2, <1>3, <1>6 DEF LookOn
<1>8. PICK p \in uses : p = <<r, "accepted">> /\ claim[o] = Topic(p[1], p[2])
  BY <1>3 DEF Unsubscribing
<1>9. RecordsAgree(mid, claim, hand \ {o}, uses \ {p}, kept) /\ Owned(mid) = Owned(list) \ {o}
  <2>1. PICK x \in hand : x = o /\ claim[x] = Topic(p[1], p[2]) /\ list[x].count = 1 /\ Leaves(list, mid, x)
    BY <1>4, <1>6, <1>8
  <2>2. RecordsAgree(mid, claim, hand \ {x}, uses \ {p}, kept)
    BY <1>5, <1>8, <2>1, SlotFreed
  <2>3. Owned(mid) = Owned(list) \ {o}
    BY <1>6 DEF Leaves, Owned
  <2>4. QED
    BY <2>1, <2>2, <2>3
<1>10. Ending(r, "accepted")
  <2>1. Len(stack) \in DOMAIN stack /\ stack[Len(stack)] = Top
    BY <1>3, TopIs DEF IInv, StackOK
  <2>2. QED
    BY <1>2, <1>3, <2>1 DEF Ending
<1>11. PICK q \in uses \ {p} : q = <<r, "rejected">> /\ q[1] = r /\ q[2] = "rejected"
  <2>1. PICK q \in Requests \X Answers : q = <<r, "rejected">> /\ q[1] = r /\ q[2] = "rejected"
    BY <1>4, UseIs DEF Answers
  <2>2. q \in uses
    BY <1>1, <1>10, <2>1 DEF Uses
  <2>3. q # p
    BY <1>8, <2>1
  <2>4. QED
    BY <2>1, <2>2, <2>3
<1>12. PICK rest, after : rest = hand \ {o} /\ after = uses \ {p}
  OBVIOUS
<1>13. PICK ob \in rest :
         /\ claim[ob] = Topic(q[1], q[2]) /\ mid[ob].topic = Topic(q[1], q[2]) /\ ob \in Owned(mid)
         /\ {i \in 1..MaxTopics : ~mid[i].isFree /\ mid[i].topic = Topic(q[1], q[2])} # {}
         /\ Min({i \in 1..MaxTopics : ~mid[i].isFree /\ mid[i].topic = Topic(q[1], q[2])}) = ob
  <2>1. RecordsAgree(mid, claim, rest, after, kept) /\ q \in after
    BY <1>9, <1>11, <1>12
  <2>2. QED
    BY <2>1, OwnerIs
<1>14. /\ ob \in TopicSlots /\ ob \in hand /\ ob # o /\ claim[ob] = <<r[1], "rejected">>
       /\ mid[ob].topic = Topic(r, "rejected") /\ Finds(mid, r, "rejected", ob)
  <2>1. Topic(q[1], q[2]) = Topic(r, "rejected") /\ Topic(r, "rejected") = <<r[1], "rejected">>
    BY <1>4, <1>11, KeyTopics
  <2>2. ob \in TopicSlots /\ ob \in hand /\ ob # o
    BY <1>12, <1>13 DEF Owned
  <2>3. QED
    BY <1>13, <2>1, <2>2 DEF Finds
<1>15. mid[ob].count = 1 /\ mid[ob].isSticky = FALSE /\ SoleUse(mid[ob])
  <2>1. claim[o][1] = claim[ob][1]
    BY <1>4, <1>14
  <2>2. list[ob].count = 1 /\ list[ob].isSticky = list[o].isSticky
    BY <1>4, <1>5, <1>14, <2>1 DEF PairsAgree
  <2>3. mid[ob].count = 1 /\ ~mid[ob].isSticky /\ mid[ob].isSticky \in BOOLEAN
    BY <1>4, <1>6, <1>14, <2>2 DEF Leaves, Records
  <2>4. QED
    BY <2>3 DEF SoleUse
<1>16. look.pc = "unsubscribe" /\ look.on = "rejected" /\ look.a = ob /\ look.list = mid
  <2>1. Looked(mid, look, "rejected", ob)
    BY <1>6, <1>7, <1>14, LookFinds
  <2>2. QED
    BY <1>15, <2>1 DEF Looked
<1>17. PICK g \in Frames : /\ g.kind = Top.kind /\ g.r = r /\ g.pc = "unsubscribe" /\ g.on = "rejected" /\ g.a = ob
                           /\ stack' = [stack EXCEPT ![Len(stack)] = g]
  <2>1. look.on \in Answers /\ look.a \in TopicSlots
    BY <1>14, <1>16 DEF Answers
  <2>2. QED
    BY <1>2, <1>3, <1>7, <1>16, <2>1, GoOnFrame
<1>18. /\ \A s, answer : Ending(s, answer)' <=> IF s = r THEN answer = "rejected" ELSE Ending(s, answer)
       /\ \A answer : Ending(r, answer) => answer = "accepted"
       /\ (Opening' <=> Opening) /\ (Opening => stack'[1] = stack[1] /\ stack[1].r # r)
  BY <1>2, <1>3, <1>17, EndingReplaced DEF RecordsTyped
<1>19. \A s \in Requests : s \in Waiting' <=> s \in Waiting
  BY <1>2, <1>3, <1>7, <1>16, GoOnWaiting
<1>20. SubscriptionList' = mid
  BY <1>7, <1>16 DEF GoOn
<1>21. Halves' = halves /\ Kept' = kept /\ Claims' = claim
  BY <1>1, <1>3, <1>6, <1>18, <1>20, OpeningStays DEF Leaves
<1>22. Leaving' = leaving \cup {r[1]}
  <2>1. \A s \in Requests : Ending(s, "rejected")' <=> s = r \/ Ending(s, "rejected")
    BY <1>18
  <2>2. Leaving' = {s[1] : s \in {z \in Requests : z = r \/ Ending(z, "rejected")}}
    BY <2>1 DEF Leaving
  <2>3. QED
    BY <1>1, <1>4, <2>2 DEF Leaving
<1>23. Uses' = after
  <2>1. ASSUME NEW u \in Requests \X Answers PROVE u \in Uses' <=> u \in uses /\ u # p
    <3>1. CASE u[1] = r
      <4>1. u[2] = "accepted" \/ u[2] = "rejected"
        BY DEF Answers
      <4>2. CASE u[2] = "accepted"
        <5>1. u = p
          BY <1>8, <3>1, <4>2
        <5>2. u \notin Uses'
          BY <1>18, <3>1, <4>2 DEF Uses
        <5>3. QED
          BY <5>1, <5>2
      <4>3. CASE u[2] = "rejected"
        <5>1. u = q
          BY <1>11, <3>1, <4>3
        <5>2. u \in Uses'
          BY <1>18, <3>1, <4>3 DEF Uses
        <5>3. QED
          BY <1>11, <5>1, <5>2
      <4>4. QED
        BY <4>1, <4>2, <4>3
    <3>2. CASE u[1] # r
      <4>1. u # p
        BY <1>8, <3>2
      <4>2. u \in Uses' <=> u \in Uses
        BY <1>18, <1>19, <3>2 DEF Uses
      <4>3. QED
        BY <1>1, <4>1, <4>2
    <3>3. QED
      BY <3>1, <3>2
  <2>2. uses \subseteq Requests \X Answers /\ Uses' \subseteq Requests \X Answers
    BY <1>5 DEF Uses
  <2>3. QED
    BY <1>12, <2>1, <2>2
<1>24. PairsAgree(mid, claim, rest, leaving \cup {r[1]})
  <2>1. PICK k : k = r[1] /\ claim[o] = <<k, "accepted">>
    BY <1>4
  <2>2. hand \subseteq Owned(list)
    BY <1>5 DEF RecordsAgree
  <2>3. PairsAgree(mid, claim, hand \ {o}, leaving \cup {k})
    BY <1>4, <1>5, <1>6, <2>1, <2>2, FirstFreed
  <2>4. QED
    BY <1>12, <2>1, <2>3
<1>25. CallsAgree'
  <2>1. /\ Len(stack) \in DOMAIN stack /\ stack[Len(stack)] = Top
        /\ DOMAIN stack' = DOMAIN stack /\ stack'[Len(stack)] = g
        /\ \A n \in DOMAIN stack : n # Len(stack) => stack'[n] = stack[n]
    BY <1>3, <1>17, ReplaceIs
  <2>2. ~Has(mid, claim, Topic(r, "accepted"))
    <3>1. \A i \in Owned(list) : claim[i] = claim[o] => i = o
      BY <1>4, <1>5 DEF RecordsAgree
    <3>2. claim[o] = Topic(r, "accepted")
      BY <1>3 DEF Unsubscribing
    <3>3. QED
      BY <1>9, <3>1, <3>2 DEF Has
  <2>3. Sole(mid, rest, ob, Topic(r, "rejected"), FALSE)
    BY <1>13, <1>14, <1>15 DEF Sole
  <2>4. CallAgrees(g, mid, claim, rest)
    BY <1>3, <1>17, <2>2, <2>3 DEF CallAgrees
  <2>5. ASSUME NEW n \in DOMAIN stack, n # Len(stack) PROVE CallAgrees(stack[n], mid, claim, rest)
    <3>1. Unsubscribing("accepted", list, claim, hand, uses, Top.r, o) /\ "accepted" \in Answers
      BY <1>2, <1>3 DEF Answers
    <3>2. CallAgrees(stack[n], mid, claim, hand \ {o})
      BY <1>1, <1>3, <1>6, <2>5, <3>1, OthersKeep
    <3>3. QED
      BY <1>12, <3>2
  <2>6. \A n \in DOMAIN stack' : CallAgrees(stack'[n], mid, claim, rest)
    BY <2>1, <2>4, <2>5
  <2>7. Opening' => \A n \in DOMAIN stack' : n # 1 => stack'[n].r[1] # stack'[1].r[1]
    <3>1. Opening => \A n \in DOMAIN stack : n # 1 => stack[n].r[1] # stack[1].r[1]
      BY DEF AllAgree, CallsAgree
    <3>2. \A n \in DOMAIN stack' : n \in DOMAIN stack /\ stack'[n].r = stack[n].r
      BY <1>2, <1>17, <2>1
    <3>3. QED
      BY <1>18, <3>1, <3>2
  <2>8. Owned(mid) \ rest = halves
    BY <1>4, <1>5, <1>9, <1>12
  <2>9. handlers' = rest
    BY <1>3, <1>12
  <2>10. QED
    BY <1>20, <1>21, <2>6, <2>7, <2>8, <2>9, CallsNext
<1>26. RecordsAgree(mid, claim, rest, after, kept) /\ handlers' = rest /\ subscribed' = {claim[i] : i \in rest}
  BY <1>3, <1>9, <1>12
<1>27. QED
  BY <1>20, <1>21, <1>22, <1>23, <1>24, <1>25, <1>26, AgreeNext

\* The second topic is unsubscribed, and the call is done.
LEMMA SecondUnsubscribed ==
  ASSUME IsFiniteSet(Requests), IInv, RecordsTyped, RecordsTyped', AllAgree, Unsubscribe("rejected"), UNCHANGED faults
  PROVE  AllAgree'
<1>1. PICK list, claim, hand, uses, kept, leaving, halves :
        /\ list = SubscriptionList /\ claim = Claims /\ hand = handlers /\ uses = Uses /\ kept = Kept
        /\ leaving = Leaving /\ halves = Halves
  OBVIOUS
<1>2. PICK r, o : r = Top.r /\ o = Top.a
  OBVIOUS
<1>3. /\ stack # <<>> /\ Top.kind # "action" /\ Top.pc = "unsubscribe" /\ Top.on = "rejected"
      /\ Unsubscribing("rejected", list, claim, hand, uses, r, o) /\ CallAgrees(Top, list, claim, hand)
      /\ handlers' = hand \ {o} /\ subscribed' = {claim[i] : i \in hand \ {o}}
      /\ GoOn(LookOn([SubscriptionList EXCEPT ![Top.a].isFree = TRUE], "rejected")) /\ UNCHANGED persistent
  BY <1>1, <1>2, UnsubscribingIs DEF Answers
<1>4. /\ r \in Requests /\ o \in TopicSlots /\ o \in hand /\ claim[o] = <<r[1], "rejected">>
      /\ list[o].count = 1 /\ ~Has(list, claim, <<r[1], "accepted">>)
  <2>1. r \in Requests /\ o \in TopicSlots /\ o \in hand /\ claim[o] = <<r[1], "rejected">> /\ list[o].count = 1
    BY <1>3, KeyTopics DEF Unsubscribing
  <2>2. ~Has(list, claim, Topic(Top.r, "accepted"))
    BY <1>3 DEF CallAgrees
  <2>3. QED
    BY <1>2, <2>1, <2>2, KeyTopics
<1>5. /\ list \in [TopicSlots -> Records] /\ RecordsAgree(list, claim, hand, uses, kept)
      /\ PairsAgree(list, claim, hand, leaving) /\ uses \in SUBSET (Requests \X Answers)
      /\ Owned(list) \ hand = halves
  BY <1>1 DEF AllAgree, RecordsTyped, ListTyped, CallsAgree, Uses
<1>6. PICK mid : mid = [list EXCEPT ![o].isFree = TRUE] /\ mid \in [TopicSlots -> Records] /\ Leaves(list, mid, o)
  BY <1>4, <1>5, MarkedFree
<1>7. PICK look : look.pc = "done" /\ look.list = mid /\ GoOn(look)
  <2>1. "rejected" # "accepted"
    OBVIOUS
  <2>2. QED
    BY <1>1, <1>2, <1>3, <1>6, <2>1 DEF LookOn
<1>8. PICK p \in uses : p = <<r, "rejected">> /\ claim[o] = Topic(p[1], p[2])
  BY <1>3 DEF Unsubscribing
<1>9. RecordsAgree(mid, claim, hand \ {o}, uses \ {p}, kept) /\ Owned(mid) = Owned(list) \ {o}
  <2>1. PICK x \in hand : x = o /\ claim[x] = Topic(p[1], p[2]) /\ list[x].count = 1 /\ Leaves(list, mid, x)
    BY <1>4, <1>6, <1>8
  <2>2. RecordsAgree(mid, claim, hand \ {x}, uses \ {p}, kept)
    BY <1>5, <1>8, <2>1, SlotFreed
  <2>3. Owned(mid) = Owned(list) \ {o}
    BY <1>6 DEF Leaves, Owned
  <2>4. QED
    BY <2>1, <2>2, <2>3
<1>10. PICK rest, after : rest = hand \ {o} /\ after = uses \ {p}
  OBVIOUS
<1>11. stack' = Front(stack) /\ SubscriptionList' = mid
  BY <1>7 DEF GoOn
<1>12. /\ \A s, answer : Ending(s, answer)' <=> Ending(s, answer) /\ s # r
       /\ Ending(r, "rejected") /\ \A answer : Ending(r, answer) => answer = "rejected"
       /\ (Opening' <=> Opening) /\ (Opening => stack'[1] = stack[1] /\ stack[1].r # r)
  BY <1>2, <1>3, <1>11, EndingPopped DEF RecordsTyped
<1>13. (\A s \in Requests : s # r => (s \in Waiting' <=> s \in Waiting)) /\ r \notin Waiting'
  <2>1. Top.kind = "expire" => Top.r \notin Waiting
    <3>1. Len(stack) \in DOMAIN stack /\ stack[Len(stack)] = Top
      BY <1>3, TopIs DEF IInv, StackOK
    <3>2. CallTyped(Top, Waiting)
      BY <3>1 DEF RecordsTyped, CallsTyped
    <3>3. QED
      BY <1>3, <3>2 DEF CallTyped
  <2>2. /\ Top.kind \in {"ack", "expire"} /\ \A s \in Requests : s # Top.r => (s \in Waiting' <=> s \in Waiting)
        /\ Top.kind = "ack" => Top.r \notin Waiting'
        /\ Top.kind = "expire" => (Top.r \in Waiting' <=> Top.r \in Waiting)
    <3>1. Top.pc # "callback"
      BY <1>3
    <3>2. QED
      BY <1>3, <1>7, <3>1, GoOnWaiting
  <2>3. QED
    BY <1>2, <2>1, <2>2
<1>14. Halves' = halves /\ Kept' = kept /\ Claims' = claim
  BY <1>1, <1>3, <1>6, <1>11, <1>12, OpeningStays DEF Leaves
<1>15. PICK leaving2 : leaving2 = Leaving' /\ leaving \ {r[1]} \subseteq leaving2
  <2>1. ASSUME NEW k \in leaving, k # r[1] PROVE k \in Leaving'
    <3>1. PICK s \in Requests : Ending(s, "rejected") /\ s[1] = k
      BY <1>1, <2>1 DEF Leaving
    <3>2. s # r
      BY <2>1, <3>1
    <3>3. Ending(s, "rejected")'
      BY <1>12, <3>1, <3>2
    <3>4. QED
      BY <3>1, <3>3 DEF Leaving
  <2>2. QED
    BY <2>1
<1>16. Uses' = after
  <2>1. ASSUME NEW u \in Requests \X Answers PROVE u \in Uses' <=> u \in uses /\ u # p
    <3>1. CASE u[1] = r
      <4>1. u[2] = "accepted" \/ u[2] = "rejected"
        BY DEF Answers
      <4>2. u \notin Uses'
        BY <1>12, <1>13, <3>1 DEF Uses
      <4>3. CASE u[2] = "accepted"
        <5>1. u \notin Uses
          BY <1>12, <3>1, <4>3 DEF Uses
        <5>2. QED
          BY <1>1, <4>2, <5>1
      <4>4. CASE u[2] = "rejected"
        BY <1>8, <3>1, <4>2, <4>4
      <4>5. QED
        BY <4>1, <4>3, <4>4
    <3>2. CASE u[1] # r
      <4>1. u # p
        BY <1>8, <3>2
      <4>2. u \in Uses' <=> u \in Uses
        BY <1>12, <1>13, <3>2 DEF Uses
      <4>3. QED
        BY <1>1, <4>1, <4>2
    <3>3. QED
      BY <3>1, <3>2
  <2>2. uses \subseteq Requests \X Answers /\ Uses' \subseteq Requests \X Answers
    BY <1>5 DEF Uses
  <2>3. QED
    BY <1>10, <2>1, <2>2
<1>17. PairsAgree(mid, claim, rest, leaving2)
  <2>1. PICK k : k = r[1] /\ claim[o] = <<k, "rejected">> /\ ~Has(list, claim, <<k, "accepted">>)
    BY <1>4
  <2>2. PairsAgree(mid, claim, hand \ {o}, leaving \ {k})
    BY <1>4, <1>5, <1>6, <2>1, SecondFreed
  <2>3. QED
    BY <1>10, <1>15, <2>1, <2>2 DEF PairsAgree
<1>18. CallsAgree'
  <2>1. \A n \in DOMAIN stack' : n \in DOMAIN stack /\ stack'[n] = stack[n] /\ n # Len(stack)
    BY <1>3, <1>11, PopIs
  <2>2. ASSUME NEW n \in DOMAIN stack, n # Len(stack) PROVE CallAgrees(stack[n], mid, claim, rest)
    <3>1. Unsubscribing("rejected", list, claim, hand, uses, Top.r, o) /\ "rejected" \in Answers
      BY <1>2, <1>3 DEF Answers
    <3>2. CallAgrees(stack[n], mid, claim, hand \ {o})
      BY <1>1, <1>3, <1>6, <2>2, <3>1, OthersKeep
    <3>3. QED
      BY <1>10, <3>2
  <2>3. \A n \in DOMAIN stack' : CallAgrees(stack'[n], mid, claim, rest)
    BY <2>1, <2>2
  <2>4. Opening' => \A n \in DOMAIN stack' : n # 1 => stack'[n].r[1] # stack'[1].r[1]
    <3>1. Opening => \A n \in DOMAIN stack : n # 1 => stack[n].r[1] # stack[1].r[1]
      BY DEF AllAgree, CallsAgree
    <3>2. QED
      BY <1>12, <2>1, <3>1
  <2>5. Owned(mid) \ rest = halves
    BY <1>4, <1>5, <1>9, <1>10
  <2>6. handlers' = rest
    BY <1>3, <1>10
  <2>7. QED
    BY <1>11, <1>14, <2>3, <2>4, <2>5, <2>6, CallsNext
<1>19. RecordsAgree(mid, claim, rest, after, kept) /\ handlers' = rest /\ subscribed' = {claim[i] : i \in rest}
  BY <1>3, <1>9, <1>10
<1>20. QED
  BY <1>11, <1>14, <1>15, <1>16, <1>17, <1>18, <1>19, AgreeNext

-----------------------------------------------------------------------------
(* As long as no call failed.                                              *)

\* Records that are all free agree with nobody.
LEMMA NothingAgrees ==
  ASSUME NEW list, NEW claim, NEW kept, \A i \in TopicSlots : list[i].isFree
  PROVE  /\ RecordsAgree(list, claim, {}, {}, kept) /\ PairsAgree(list, claim, {}, {})
         /\ Owned(list) = {}
<1>1. Owned(list) = {}
  BY DEF Owned
<1>2. QED
  BY <1>1 DEF RecordsAgree, PairsAgree, Has

\* A new connection starts with nothing.
LEMMA ConnectAgrees ==
  ASSUME IInv, RecordsTyped, ShadowConnect
  PROVE  AllAgree'
<1>1. /\ stack' = <<>> /\ handlers' = {} /\ subscribed' = {}
      /\ \A i \in 1..MaxAcks : AckWaitList'[i] = Free
      /\ SubscriptionList' = [i \in TopicSlots |->
                                [SubscriptionList[i] EXCEPT !.isFree = TRUE, !.count = 0, !.isSticky = FALSE]]
  BY DEF ShadowConnect, TopicSlots
<1>2. ASSUME NEW i \in TopicSlots PROVE SubscriptionList'[i].isFree
  <2>1. SubscriptionList[i] \in Records
    BY DEF RecordsTyped, ListTyped
  <2>2. SubscriptionList'[i] = [[[SubscriptionList[i] EXCEPT !.isFree = TRUE] EXCEPT !.count = 0] EXCEPT !.isSticky = FALSE]
    BY <1>1
  <2>3. PICK x, y, z : /\ x = [SubscriptionList[i] EXCEPT !.isFree = TRUE]
                       /\ y = [x EXCEPT !.count = 0] /\ z = [y EXCEPT !.isSticky = FALSE]
    OBVIOUS
  <2>4. x \in Records /\ x.isFree = TRUE
    BY <2>1, <2>3 DEF Records
  <2>5. y \in Records /\ y.isFree = TRUE
    BY <2>3, <2>4 DEF Records
  <2>6. z.isFree = TRUE
    BY <2>3, <2>5 DEF Records
  <2>7. QED
    BY <2>2, <2>3, <2>6
<1>3. PICK list, claim, kept, halves, uses, leaving :
        /\ list = SubscriptionList' /\ claim = Claims' /\ kept = Kept' /\ halves = Halves'
        /\ uses = Uses' /\ leaving = Leaving'
  OBVIOUS
<1>4. halves = {} /\ leaving = {} /\ uses = {} /\ ~Opening'
  <2>1. Waiting' = {}
    BY <1>1, FreeAssumption DEF Waiting
  <2>2. QED
    BY <1>1, <1>3, <2>1, QuietNext
<1>5. RecordsAgree(list, claim, {}, {}, kept) /\ PairsAgree(list, claim, {}, {}) /\ Owned(list) = {}
  BY <1>2, <1>3, NothingAgrees
<1>6. PICK hand : hand = handlers' /\ hand = {}
  BY <1>1
<1>7. CallsAgree'
  <2>1. Owned(list) \ hand = halves
    BY <1>4, <1>5, <1>6
  <2>2. \A n \in DOMAIN stack' : CallAgrees(stack'[n], list, claim, hand)
    <3>1. stack' = <<>>
      BY <1>1
    <3>2. DOMAIN stack' = {}
      BY <3>1
    <3>3. QED
      BY <3>2
  <2>3. QED
    BY <1>3, <1>4, <1>6, <2>1, <2>2, CallsNext
<1>8. RecordsAgree(list, claim, hand, uses, kept) /\ PairsAgree(list, claim, hand, leaving)
  BY <1>4, <1>5, <1>6
<1>9. subscribed' = {claim[i] : i \in hand}
  BY <1>1, <1>6
<1>10. QED
  BY <1>3, <1>6, <1>7, <1>8, <1>9, AgreeNext

\* At the start the records are all free.
LEMMA AgreeInit == ShadowInit => AllAgree
<1> SUFFICES ASSUME ShadowInit PROVE AllAgree
  OBVIOUS
<1>1. /\ stack = <<>> /\ handlers = {} /\ subscribed = {}
      /\ \A i \in 1..MaxAcks : AckWaitList[i] = Free
      /\ SubscriptionList = [i \in TopicSlots |-> [topic |-> <<>>, count |-> 0, isSticky |-> FALSE, isFree |-> TRUE]]
  BY DEF ShadowInit, TopicSlots
<1>2. SubscriptionList \in [TopicSlots -> Records]
  BY <1>1 DEF Records
<1>3. \A i \in TopicSlots : SubscriptionList[i].isFree
  BY <1>1
<1>4. ~Opening /\ Halves = {} /\ Leaving = {} /\ Uses = {}
  <2>1. Waiting = {}
    BY <1>1, FreeAssumption DEF Waiting
  <2>2. QED
    BY <1>1, <1>2, <2>1, QuietIs
<1>5. /\ RecordsAgree(SubscriptionList, Claims, {}, {}, Kept) /\ PairsAgree(SubscriptionList, Claims, {}, {})
      /\ Owned(SubscriptionList) = {}
  BY <1>3, NothingAgrees
<1>6. CallsAgree
  <2>1. stack = <<>> /\ handlers = {}
    BY <1>1
  <2>2. DOMAIN stack = {}
    BY <2>1
  <2>3. QED
    BY <1>4, <1>5, <2>1, <2>2 DEF CallsAgree
<1>7. QED
  BY <1>1, <1>4, <1>5, <1>6 DEF AllAgree

\* An answer is read, and its request's callback called, or not.
LEMMA AckStatusCallbackAgrees ==
  ASSUME IInv, RecordsTyped, AllAgree, AckStatusCallback
  PROVE  AllAgree'
<1>1. UNCHANGED <<AckWaitList, SubscriptionList, handlers, subscribed, persistent>>
  BY DEF AckStatusCallback, records, topics, ghosts
<1>2. CASE UNCHANGED stack
  BY <1>1, <1>2, AgreeStays DEF records, topics
<1>3. CASE ~UNCHANGED stack
  <2>1. PICK r \in Requests, slot \in 1..MaxAcks :
          /\ CallBack("ack", r, slot, decision[r]) /\ r \in Waiting
          /\ \A n \in DOMAIN stack : stack[n].r # r
    BY <1>3, AnswerTold
  <2>2. QED
    BY <1>1, <2>1, CallBackAgrees
<1>4. QED
  BY <1>2, <1>3

\* The time of a request is over.
LEMMA HandleExpiredAgrees ==
  ASSUME IInv, RecordsTyped, AllAgree, NEW slot \in 1..MaxAcks, HandleExpired(slot)
  PROVE  AllAgree'
<1>1. UNCHANGED <<AckWaitList, SubscriptionList, handlers, subscribed, persistent>>
  BY DEF HandleExpired, records, topics, ghosts
<1>2. PICK r : r = AckWaitList[slot] /\ r # Free /\ CallBack("expire", r, slot, "timeout") /\ stack = <<>>
  BY DEF HandleExpired
<1>3. r \in Requests /\ r \in Waiting
  <2>1. r \in Requests
    BY <1>2 DEF IInv, RequestsOK, RequestsTyped
  <2>2. QED
    BY <1>2, <2>1 DEF Waiting
<1>4. \A n \in DOMAIN stack : stack[n].r # r
  BY <1>2
<1>5. QED
  BY <1>1, <1>2, <1>3, <1>4, CallBackAgrees

\* Calls that fail are counted until the next connection.
LEMMA NoneFailed ==
  ASSUME RecordsTyped, ShadowNext, ~ShadowConnect, faults' = 0
  PROVE  UNCHANGED faults
<1>1. SUFFICES faults' = faults \/ faults' = faults + 1
  BY DEF RecordsTyped, TopicsTyped
<1>2. \A r, slot, below : Publish(r, slot, below) => faults' = faults \/ faults' = faults + 1
  BY DEF Publish, Fault
<1>3. CASE Call
  BY <1>2, <1>3 DEF Call, Action
<1>4. ASSUME NEW answer \in Answers, Subscribe(answer) PROVE faults' = faults \/ faults' = faults + 1
  BY <1>2, <1>4 DEF Subscribe
<1>5. ASSUME NEW answer \in Answers, Unsubscribe(answer) PROVE faults' = faults \/ faults' = faults + 1
  BY <1>5 DEF Unsubscribe, Fault
<1>6. CASE Undo
  BY <1>2, <1>6 DEF Undo
<1>7. CASE SubscribeFails
  BY <1>7 DEF SubscribeFails, Fault
<1>8. CASE CallbackReturns \/ AckStatusCallback \/ Expiring \/ ServiceDecides
  BY <1>8 DEF CallbackReturns, AckStatusCallback, Expiring, HandleExpired, ServiceDecides, ghosts
<1>9. QED
  BY <1>3, <1>4, <1>5, <1>6, <1>7, <1>8 DEF ShadowNext, Running

\* Nothing is undone as long as no call failed.
LEMMA NothingUndone ==
  ASSUME IInv, AllAgree
  PROVE  ~Undo
<1>1. SUFFICES ASSUME Undo PROVE FALSE
  OBVIOUS
<1>2. stack # <<>> /\ Top.pc = "undo"
  BY <1>1 DEF Undo, At
<1>3. Len(stack) \in DOMAIN stack /\ stack[Len(stack)] = Top
  BY <1>2, TopIs DEF IInv, StackOK
<1>4. QED
  BY <1>2, <1>3 DEF AllAgree, CallsAgree, CallAgrees

\* As long as no call failed, every step leaves the records and the subscriptions agreeing.
LEMMA AgreeStep ==
  ASSUME ~CallbacksCall, IsFiniteSet(Requests), 2 * Cardinality(Keys) <= MaxTopics,
         IInv, RecordsTyped, RecordsTyped', faults = 0 => AllAgree, [ShadowNext]_shadowVars, faults' = 0
  PROVE  AllAgree'
<1>1. CASE ShadowConnect
  BY <1>1, ConnectAgrees
<1>2. CASE ShadowNext /\ ~ShadowConnect
  <2>1. UNCHANGED faults /\ AllAgree
    BY <1>2, NoneFailed
  <2>2. CASE Call
    BY <2>1, <2>2, NewCallAgrees
  <2>3. CASE Running
    <3>1. ~Undo
      BY <2>1, NothingUndone
    <3>2. \A answer \in Answers : answer = "accepted" \/ answer = "rejected"
      BY DEF Answers
    <3>3. \/ Subscribe("accepted") \/ Subscribe("rejected") \/ Unsubscribe("accepted") \/ Unsubscribe("rejected")
          \/ CallbackReturns
      BY <2>3, <3>1, <3>2 DEF Running
    <3>4. QED
      BY <2>1, <3>3, FirstSubscribed, SecondSubscribed, FirstUnsubscribed, SecondUnsubscribed, CallbackReturnsAgrees
  <2>4. CASE SubscribeFails
    <3>1. faults' = faults + 1
      BY <2>4 DEF SubscribeFails, Fault
    <3>2. QED
      BY <2>1, <3>1 DEF RecordsTyped, TopicsTyped
  <2>5. CASE AckStatusCallback
    BY <2>1, <2>5, AckStatusCallbackAgrees
  <2>6. CASE Expiring
    BY <2>1, <2>6, HandleExpiredAgrees DEF Expiring
  <2>7. CASE ServiceDecides
    BY <2>1, <2>7, AgreeStays DEF ServiceDecides, topics, ghosts
  <2>8. QED
    BY <1>2, <2>2, <2>3, <2>4, <2>5, <2>6, <2>7 DEF ShadowNext
<1>3. CASE UNCHANGED shadowVars
  <2>1. AllAgree
    BY <1>3 DEF shadowVars, ghosts
  <2>2. QED
    BY <1>3, <2>1, AgreeStays DEF shadowVars, topics, ghosts
<1>4. QED
  BY <1>1, <1>2, <1>3

\* Who waits and was told nothing is in no call that has come to his second topic, so he
\* counts on both topics, and each has a subscribed slot that counts him.
LEMMA AgreeHears ==
  ASSUME IInv, RecordsTyped, AllAgree, NEW r \in Waiting, NEW answer \in Answers, told[r] = <<>>
  PROVE  HandlersOf(Topic(r, answer)) # {} /\ Topic(r, answer) \in subscribed
<1>1. r \in Requests
  BY DEF Waiting
<1>2. ~Ending(r, "rejected")
  <2>1. SUFFICES ASSUME NEW n \in DOMAIN stack, stack[n].kind # "action", stack[n].r = r, stack[n].on = "rejected"
                 PROVE FALSE
    BY DEF Ending
  <2>2. FrameOK(stack[n]) /\ stack[n].pc = "unsubscribe" /\ stack[n] \in Frames
    BY <2>1, StackIs DEF IInv, StackOK, AllAgree, CallsAgree, CallAgrees
  <2>3. stack[n].kind = "ack" => FALSE
    BY <2>1, <2>2 DEF FrameOK, Holds
  <2>4. stack[n].kind = "expire" => FALSE
    BY <2>1, <2>2 DEF RecordsTyped, CallsTyped, CallTyped
  <2>5. stack[n].kind \in Kinds
    BY <2>2 DEF Frames
  <2>6. QED
    BY <2>1, <2>3, <2>4, <2>5 DEF Kinds
<1>3. PICK p \in Requests \X Answers : p = <<r, answer>> /\ p[1] = r /\ p[2] = answer
  BY <1>1, UseIs
<1>4. PICK uses : uses = Uses /\ p \in uses
  BY <1>2, <1>3 DEF Uses
<1>5. RecordsAgree(SubscriptionList, Claims, handlers, uses, Kept)
  BY <1>4 DEF AllAgree
<1>6. PICK i \in handlers : Claims[i] = Topic(p[1], p[2])
  BY <1>4, <1>5 DEF RecordsAgree
<1>7. SubscriptionList[i].topic = Claims[i]
  BY <1>5, <1>6 DEF RecordsAgree
<1>8. i \in HandlersOf(Topic(r, answer))
  BY <1>3, <1>6, <1>7 DEF HandlersOf
<1>9. Topic(r, answer) \in subscribed
  BY <1>3, <1>6 DEF AllAgree
<1>10. QED
  BY <1>8, <1>9

\* When no call is in progress every taken slot is subscribed, and one whose key was not
\* asked to stay counts its users, who wait.
LEMMA AgreeLeavesNone ==
  ASSUME IInv, RecordsTyped, AllAgree, stack = <<>>
  PROVE  /\ subscribed = {SubscriptionList[i].topic : i \in (1..MaxTopics) \ FreeTopics}
         /\ handlers = (1..MaxTopics) \ FreeTopics
         /\ Waiting = {} => \A t \in subscribed : t[1] \in persistent
<1>1. /\ Halves = {} /\ Kept = persistent /\ Uses = Waiting \X Answers
      /\ Claims = [i \in TopicSlots |-> SubscriptionList[i].topic]
  BY QuietIs DEF RecordsTyped, ListTyped
<1>2. handlers = Owned(SubscriptionList)
  BY <1>1 DEF AllAgree, RecordsAgree, CallsAgree
<1>3. Owned(SubscriptionList) = (1..MaxTopics) \ FreeTopics
  BY DEF Owned, FreeTopics, TopicSlots
<1>4. \A i \in handlers : Claims[i] = SubscriptionList[i].topic
  BY <1>1, <1>2 DEF Owned
<1>5. subscribed = {SubscriptionList[i].topic : i \in handlers}
  BY <1>4 DEF AllAgree
<1>6. ASSUME Waiting = {}, NEW t \in subscribed PROVE t[1] \in persistent
  <2>1. PICK i \in handlers : Claims[i] = t
    BY DEF AllAgree
  <2>2. Counts(SubscriptionList[i], Users(Uses, t), t[1] \in Kept)
    BY <2>1 DEF AllAgree, RecordsAgree
  <2>3. Uses = {}
    BY <1>1, <1>6
  <2>4. Users(Uses, t) = {}
    BY <2>3 DEF Users
  <2>5. Cardinality(Users(Uses, t)) = 0
    BY <2>4, FS_EmptySet
  <2>6. t[1] \in Kept
    BY <2>2, <2>5 DEF Counts
  <2>7. QED
    BY <1>1, <2>6
<1>7. QED
  BY <1>2, <1>3, <1>5, <1>6

\* The requests, the types of the records and, until a call fails, the agreement stay.
LEMMA ListsStep ==
  ASSUME ~CallbacksCall, IsFiniteSet(Requests), 2 * Cardinality(Keys) <= MaxTopics,
         ListsInv, [ShadowNext]_shadowVars
  PROVE  ListsInv'
<1>1. IInv /\ RecordsTyped /\ (faults = 0 => AllAgree)
  BY DEF ListsInv
<1>2. IInv'
  BY <1>1, StepOK
<1>3. RecordsTyped'
  BY <1>1, <1>2, TypedStep
<1>4. ASSUME faults' = 0 PROVE AllAgree'
  BY <1>1, <1>3, <1>4, AgreeStep
<1>5. QED
  BY <1>2, <1>3, <1>4 DEF ListsInv

\* As long as no MQTT call failed, who waits for an answer is subscribed to both its
\* topics, whoever else shares them, is answered or expires in between: for any finite
\* set of requests whose topics fit in the list, when no callback calls an action.
THEOREM WaitersHeard ==
  ASSUME ~CallbacksCall, IsFiniteSet(Requests), 2 * Cardinality(Keys) <= MaxTopics
  PROVE  ShadowSpec => []WaitingIsHeard
<1>1. ShadowInit => ListsInv
  BY StartsOK, TypedInit, AgreeInit DEF ListsInv
<1>2. ListsInv /\ [ShadowNext]_shadowVars => ListsInv'
  BY ListsStep
<1>3. ListsInv => WaitingIsHeard
  BY AgreeHears DEF ListsInv, WaitingIsHeard
<1>4. QED
  BY <1>1, <1>2, <1>3, PTL DEF ShadowSpec

\* When no call is in progress, and none failed on this connection, the records in use,
\* the handlers it registered and the subscriptions are the same, and nothing stays
\* subscribed for nobody but what was asked to: under the same assumptions.
THEOREM NoneLeftOver ==
  ASSUME ~CallbacksCall, IsFiniteSet(Requests), 2 * Cardinality(Keys) <= MaxTopics
  PROVE  ShadowSpec => []NothingLeftOver
<1>1. ShadowInit => ListsInv
  BY StartsOK, TypedInit, AgreeInit DEF ListsInv
<1>2. ListsInv /\ [ShadowNext]_shadowVars => ListsInv'
  BY ListsStep
<1>3. ListsInv => NothingLeftOver
  BY AgreeLeavesNone DEF ListsInv, NothingLeftOver
<1>4. QED
  BY <1>1, <1>2, <1>3, PTL DEF ShadowSpec

=============================================================================
