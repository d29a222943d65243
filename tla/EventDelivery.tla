--------------------------- MODULE EventDelivery ---------------------------
(***************************************************************************)
(* What the platform promises about an event of a tenant: it is posted to  *)
(* each subscribed endpoint until the endpoint takes it, Attempts times at *)
(* most, and never again after it was taken or a call was left without an  *)
(* answer; what is recorded of an endpoint is how its calls ended.  A      *)
(* restart may lose an event, and then it is neither posted nor recorded   *)
(* any more.  Every event is over in the end.                              *)
(***************************************************************************)
EXTENDS Naturals, Sequences

CONSTANTS
  Event,
  Endpoint,   (* the subscriptions an event may be posted to                *)
  Attempts    (* calls of one endpoint for one event                        *)

VARIABLES
  phase,      (* phase[e]: "new", then "open", then "over"                  *)
  answers,    (* answers[e][k]: how the calls of endpoint k ended, in order *)
  records     (* records[e]: what was recorded of the endpoints             *)

vars == <<phase, answers, records>>

Answer == {"ok", "refused", "lost"}

Init ==
  /\ phase = [e \in Event |-> "new"]
  /\ answers = [e \in Event |-> [k \in Endpoint |-> <<>>]]
  /\ records = [e \in Event |-> {}]

Emit(e) ==
  /\ phase[e] = "new"
  /\ phase' = [phase EXCEPT ![e] = "open"]
  /\ UNCHANGED <<answers, records>>

(* May an endpoint that gave these answers be called again? *)
Retriable(s) == Len(s) < Attempts /\ \A i \in 1 .. Len(s) : s[i] = "refused"

Attempt(e, k, a) ==
  /\ phase[e] = "open" /\ Retriable(answers[e][k])
  /\ answers' = [answers EXCEPT ![e][k] = Append(@, a)]
  /\ UNCHANGED <<phase, records>>

Called(e) == {k \in Endpoint : answers[e][k] # <<>>}

Outcome(s) == IF s[Len(s)] = "ok" THEN "success" ELSE "failed"

(* The endpoints whose calls are at an end, with what is recorded of each;  *)
(* an event for which nobody was called is recorded as failed.             *)
Ended(e) == {<<k, Outcome(answers[e][k])>> : k \in {j \in Called(e) : ~Retriable(answers[e][j])}}
Nobody == {<<0, "failed">>}

Close(e) ==
  /\ phase[e] = "open"
  /\ \A k \in Called(e) : ~Retriable(answers[e][k])
  /\ phase' = [phase EXCEPT ![e] = "over"]
  /\ records' = [records EXCEPT ![e] = IF Called(e) = {} THEN Nobody ELSE Ended(e)]
  /\ UNCHANGED answers

(* Nobody was called, and the database fails.                              *)
Forget(e) ==
  /\ phase[e] = "open" /\ Called(e) = {}
  /\ phase' = [phase EXCEPT ![e] = "over"]
  /\ UNCHANGED <<answers, records>>

(* Some of the records of an event may be written before the restart.      *)
Restart(lost) ==
  /\ \A e \in lost : phase[e] = "open" /\ records'[e] \subseteq Ended(e)
  /\ phase' = [e \in Event |-> IF e \in lost THEN "over" ELSE phase[e]]
  /\ records' = [e \in Event |-> IF e \in lost THEN records'[e] ELSE records[e]]
  /\ UNCHANGED answers

Step(e) == Close(e) \/ \E k \in Endpoint, a \in Answer : Attempt(e, k, a)

Next ==
  \/ \E e \in Event : Emit(e) \/ Step(e) \/ Forget(e)
  \/ \E lost \in SUBSET Event : Restart(lost)

Fairness == \A e \in Event : WF_vars(Step(e))

Spec == Init /\ [][Next]_vars /\ Fairness
=============================================================================
