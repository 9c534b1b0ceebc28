---------------------------- MODULE ShadowPromise ----------------------------
(***************************************************************************)
(* What the shadow client promises of an action called with a callback: it *)
(* is refused, or the callback is told one outcome, once: the answer of    *)
(* the shadow service, or that none came in time.  Only a new connection   *)
(* lets it drop what it waits for.                                         *)
(***************************************************************************)
CONSTANT Requests

VARIABLES
  phase,    \* of each request, as the application sees it
  decision  \* of the shadow service

promiseVars == <<phase, decision>>

Answers == {"accepted", "rejected"}
Outcomes == Answers \cup {"timeout"}

Ask(r) ==
  /\ phase[r] = "idle"
  /\ \E p \in {"waiting", "failed"} : phase' = [phase EXCEPT ![r] = p]
  /\ UNCHANGED decision

\* The service decides once, whether or not the device still waits.
Decide(r) ==
  /\ phase[r] \notin {"idle", "failed"}
  /\ decision[r] = "none"
  /\ \E d \in Answers : decision' = [decision EXCEPT ![r] = d]
  /\ UNCHANGED phase

Tell(r) ==
  /\ phase[r] = "waiting"
  /\ \E o \in Outcomes :
       /\ o = "timeout" \/ o = decision[r]
       /\ phase' = [phase EXCEPT ![r] = o]
  /\ UNCHANGED decision

Drop ==
  /\ phase' = [r \in Requests |-> IF phase[r] = "waiting" THEN "dropped" ELSE phase[r]]
  /\ UNCHANGED decision

PromiseInit ==
  /\ phase = [r \in Requests |-> "idle"]
  /\ decision = [r \in Requests |-> "none"]

PromiseNext == Drop \/ \E r \in Requests : Ask(r) \/ Decide(r) \/ Tell(r)

PromiseSpec == PromiseInit /\ [][PromiseNext]_promiseVars

=============================================================================
