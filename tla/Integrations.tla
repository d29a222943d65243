---------------------------- MODULE Integrations ----------------------------
(***************************************************************************)
(* The integration of a tenant (IntegrationsService) and the events posted *)
(* to it (WebhookService).  An integration is a set of cycles in the       *)
(* tenant's Cyclr account, one per template, which run while the tenant is *)
(* subscribed to the payment events.  Its requests call Cyclr for all      *)
(* cycles side by side: when one call fails the request is answered with   *)
(* an error, but the other calls go on.  Requests of the tenant, events    *)
(* and restarts of the process interleave at every await.  There is one    *)
(* integration, as the migrations install, and its four types of event are *)
(* subscribed to together.                                                 *)
(***************************************************************************)
EXTENDS Naturals, Sequences, FiniteSets

CONSTANTS
  Template,     (* the Cyclr templates of the integration                   *)
  Once,         (* those tagged run_frequency:ONCE                          *)
  Request,      (* requests of the tenant that may be served at once        *)
  Event,        (* payments the tenant is to hear of                        *)
  MaxCopies,    (* bound: cycles installed from one template                *)
  MaxRequests,  (* bound: requests of the tenant                            *)
  MaxFaults     (* bound: failing calls and restarts                        *)

ASSUME IntegrationsAssumption ==
  /\ Once \subseteq Template
  /\ IsFiniteSet(Request)
  /\ MaxCopies \in Nat /\ MaxRequests \in Nat /\ MaxFaults \in Nat

VARIABLES
  cycle,      (* cycle[c]: the status of a cycle in the Cyclr account       *)
  connector,  (* the BlockSpaces connector in the account                   *)
  docs,       (* the webhookSubscriptions of the tenant and the Cyclr url:  *)
              (* does eventType hold the payment events?                    *)
  req,        (* req[r]: what a request does next                           *)
  event,      (* event[e]: what triggerWebhooks does next                   *)
  loop,       (* loop[e][k]: callWebhookWithRetry for subscription k        *)
  answers,    (* answers[e][k]: how the calls of subscription k ended       *)
  records,    (* records[e]: the webhookEvents stored for e                 *)
  begun, faults,
  answered,   (* the last request, if it succeeded and met no other         *)
  raced       (* have two requests been in progress at once?                *)

account == <<cycle, connector>>
delivery == <<event, loop, answers, records>>
history == <<answered, raced>>
vars == <<account, docs, req, delivery, begun, faults, history>>

-----------------------------------------------------------------------------
Cycle == Template \X (1 .. MaxCopies)
Present == {c \in Cycle : cycle[c] # "absent"}
Operation == {"add", "activate", "stop", "remove"}

(* todo: the calls that have not returned; connectors: were any seen on the *)
(* cycles; found: how many subscriptions find returned.                     *)
Idle == [stage |-> "idle"]
Call == Cycle \cup (Template \X {0})     \* of an existing cycle, or of a template
Stages == {"read", "install", "calls", "authenticate", "uninstall", "find", "write"}
Work == [ op : Operation, stage : Stages, todo : SUBSET Call,
          failed : BOOLEAN, connectors : BOOLEAN, found : Nat, alone : BOOLEAN ]

InProgress(r) == req[r].stage # "idle"

Endpoint == 1 .. MaxRequests      \* indices of docs
Answer == {"ok", "refused", "lost"}
Loop == [successful : BOOLEAN, retryCount : Nat, rejected : BOOLEAN]
NotCalled == [successful |-> FALSE, retryCount |-> 0, rejected |-> FALSE]

Init ==
  /\ cycle = [c \in Cycle |-> "absent"]
  /\ connector = "absent"
  /\ docs = <<>>
  /\ req = [r \in Request |-> Idle]
  /\ event = [e \in Event |-> [stage |-> "new", to |-> {}]]
  /\ loop = [e \in Event |-> [k \in Endpoint |-> NotCalled]]
  /\ answers = [e \in Event |-> [k \in Endpoint |-> <<>>]]
  /\ records = [e \in Event |-> {}]
  /\ begun = 0 /\ faults = 0
  /\ answered = "none" /\ raced = FALSE

-----------------------------------------------------------------------------
(* Requests of the tenant. *)

Begin(r, op) ==
  /\ ~InProgress(r) /\ begun < MaxRequests
  /\ begun' = begun + 1
  /\ LET others == {q \in Request : InProgress(q)} IN
       /\ req' = [q \in Request |->
            IF q = r THEN [op |-> op, stage |-> "read", todo |-> {}, failed |-> FALSE,
                           connectors |-> FALSE, found |-> 0, alone |-> others = {}]
            ELSE IF q \in others THEN [req[q] EXCEPT !.alone = FALSE]
            ELSE req[q]]
       /\ raced' = (raced \/ others # {})
  /\ answered' = "none"
  /\ UNCHANGED <<account, docs, delivery, faults>>

Goes(r, w) == req' = [req EXCEPT ![r] = w] /\ UNCHANGED <<begun, answered>>

EndsOK(r) ==
  /\ req' = [req EXCEPT ![r] = Idle]
  /\ answered' = IF req[r].alone THEN req[r].op ELSE answered
  /\ UNCHANGED begun

Fails(r) ==
  /\ faults < MaxFaults /\ faults' = faults + 1
  /\ req' = [req EXCEPT ![r] = Idle]
  /\ UNCHANGED <<account, docs, delivery, begun, history>>

(* An awaited call on which nothing else depends fails, and the request     *)
(* with it: getCycles, getTemplatesByTag, a connector, the database.        *)
RequestFails(r) == InProgress(r) /\ req[r].stage # "calls" /\ Fails(r)

(* createAccount and getTemplatesByTag, or getCycles.                       *)
ReadAccount(r) ==
  /\ req[r].stage = "read"
  /\ Goes(r, IF req[r].op = "add"
               THEN [req[r] EXCEPT !.stage = "install", !.todo = Template \X {0}]
               ELSE [req[r] EXCEPT !.stage = "calls", !.todo = Present,
                                   !.connectors = Present # {}])
  /\ UNCHANGED <<account, docs, delivery, faults, raced>>

(* installConnector returns the connector that is there already.            *)
InstallConnector(r) ==
  /\ req[r].stage = "install"
  /\ connector' = IF connector = "absent" THEN "installed" ELSE connector
  /\ Goes(r, [req[r] EXCEPT !.stage = "calls"])
  /\ UNCHANGED <<cycle, docs, delivery, faults, raced>>

(* What Cyclr does to the cycles, and whether the call succeeds.  A template *)
(* that was installed before is installed once more; a cycle that is gone   *)
(* cannot be activated or deleted.                                          *)
NextCopy(t) == {c \in Cycle : c[1] = t /\ cycle[c] = "absent"
                              /\ \A d \in Cycle : d[1] = t /\ d[2] < c[2] => cycle[d] # "absent"}

Target(op, c) == IF op = "add" THEN NextCopy(c[1]) ELSE {c}

ResultScheduled(op) ==      \* mutant of Result
  CASE op = "activate" -> "active" [] op = "remove" -> "DeleteScheduled" [] OTHER -> "stopped"
Result(op) ==
  CASE op = "activate" -> "active" [] op = "remove" -> "absent" [] OTHER -> "stopped"
Succeeds(op, c) == op \in {"add", "stop"} \/ cycle[c] # "absent"

Called(op, target) ==
  [c \in Cycle |-> IF c \in target /\ (op = "add" \/ cycle[c] # "absent")
                    THEN Result(op) ELSE cycle[c]]

(* A call that fails may have been carried out or not.                      *)
CyclrCall(r, c) ==
  LET w == req[r]  target == Target(w.op, c) IN
  /\ w.stage = "calls" /\ c \in w.todo /\ target # {}
  /\ \/ /\ cycle' = Called(w.op, target)
        /\ Goes(r, [w EXCEPT !.todo = @ \ {c}, !.failed = @ \/ ~Succeeds(w.op, c)])
        /\ UNCHANGED faults
     \/ /\ faults < MaxFaults /\ faults' = faults + 1
        /\ cycle' \in {cycle, Called(w.op, target)}
        /\ Goes(r, [w EXCEPT !.todo = @ \ {c}, !.failed = TRUE])
  /\ UNCHANGED <<connector, docs, delivery, raced>>

(* The calls have returned; one that failed ends the request.               *)
AfterCalls(w) ==
  CASE w.op = "add" -> "authenticate"
    [] w.op = "remove" /\ w.connectors -> "uninstall"
    [] OTHER -> "find"

CallsReturned(r) ==
  LET w == req[r] IN
  /\ w.stage = "calls" /\ w.todo = {}
  /\ IF w.failed THEN Goes(r, Idle)
                 ELSE Goes(r, [w EXCEPT !.stage = AfterCalls(w)])
  /\ UNCHANGED <<account, docs, delivery, faults, raced>>

(* updateBlockSpacesConnectorSettings *)
Authenticate(r) ==
  /\ req[r].stage = "authenticate"
  /\ connector' = IF connector = "installed" THEN "authenticated" ELSE connector
  /\ EndsOK(r)
  /\ UNCHANGED <<cycle, docs, delivery, faults, raced>>

DeleteConnector(r) ==
  /\ req[r].stage = "uninstall"
  /\ connector' = "absent"
  /\ Goes(r, [req[r] EXCEPT !.stage = "find"])
  /\ UNCHANGED <<cycle, docs, delivery, faults, raced>>

(* createWebhookSubscription and deleteWebhookSubscription find the         *)
(* subscriptions of the endpoint, then write one.                           *)
NeedsWrite(op, found) == op = "activate" \/ found = 1

FindSubscription(r) ==
  LET w == req[r] IN
  /\ w.stage = "find"
  /\ IF NeedsWrite(w.op, Len(docs))
       THEN Goes(r, [w EXCEPT !.stage = "write", !.found = Len(docs)])
       ELSE EndsOK(r)
  /\ UNCHANGED <<account, docs, delivery, faults, raced>>

WrittenAnew(op, found) ==      \* mutant of Written
  IF op = "activate" THEN Append(docs, TRUE) ELSE [docs EXCEPT ![1] = FALSE]

(* findOneAndUpdate changes the first; any other number than one creates.   *)
Written(op, found) ==
  IF found = 1 THEN [docs EXCEPT ![1] = (op = "activate")] ELSE Append(docs, TRUE)

WriteSubscription(r) ==
  LET w == req[r] IN
  /\ w.stage = "write"
  /\ docs' = Written(w.op, w.found)
  /\ EndsOK(r)
  /\ UNCHANGED <<account, delivery, faults, raced>>

(* A cycle that runs once stops by itself. *)
RunsOnce(c) ==
  /\ c[1] \in Once /\ cycle[c] = "active"
  /\ cycle' = [cycle EXCEPT ![c] = "stopped"]
  /\ UNCHANGED <<connector, docs, req, delivery, begun, faults, history>>

RequestStep(r) ==
  \/ ReadAccount(r) \/ InstallConnector(r) \/ CallsReturned(r) \/ Authenticate(r)
  \/ DeleteConnector(r) \/ FindSubscription(r) \/ WriteSubscription(r)
  \/ \E c \in Call : CyclrCall(r, c)

-----------------------------------------------------------------------------
(* Events: the invoice services emit one for each payment.                  *)

Moves(e, stage, to) == event' = [event EXCEPT ![e] = [stage |-> stage, to |-> to]]

DatabaseFails == faults < MaxFaults /\ faults' = faults + 1

Emit(e) ==
  /\ event[e].stage = "new"
  /\ Moves(e, "find", {})
  /\ UNCHANGED <<account, docs, req, loop, answers, records, begun, faults, history>>

Subscribed == {k \in DOMAIN docs : docs[k]}

(* triggerWebhooks finds the subscriptions to the type of the event.        *)
FindSubscribed(e) ==
  /\ event[e].stage = "find"
  /\ \/ /\ Moves(e, IF Subscribed = {} THEN "refuse" ELSE "call", Subscribed)
        /\ UNCHANGED faults
     \/ DatabaseFails /\ Moves(e, "raise", {})
  /\ UNCHANGED <<account, docs, req, loop, answers, records, begun, history>>

(* "NO SUBSCRIPTION" is recorded; if that fails, "EXCEPTION RAISED" is, and *)
(* if that fails too there is no record.                                    *)
RecordFailure(e) ==
  /\ event[e].stage \in {"refuse", "raise"}
  /\ \/ /\ records' = [records EXCEPT ![e] = {<<0, "failed">>}]
        /\ Moves(e, "over", {})
        /\ UNCHANGED faults
     \/ /\ DatabaseFails
        /\ Moves(e, IF event[e].stage = "refuse" THEN "raise" ELSE "over", {})
        /\ UNCHANGED records
  /\ UNCHANGED <<account, docs, req, loop, answers, begun, history>>

(* callWebhookWithRetry.  A call without any answer is not retried: its     *)
(* error has no response, JSON.parse of undefined throws in the catch of    *)
(* callWebhookUrl, and the whole loop is rejected.                          *)
AgainOnceMore(l) ==      \* mutant of Again
  ~l.rejected /\ ~l.successful /\ l.retryCount <= 3
Again(l) == ~l.rejected /\ ~l.successful /\ l.retryCount < 3

AfterCall(l, a) ==
  IF a = "lost" THEN [l EXCEPT !.rejected = TRUE]
  ELSE [l EXCEPT !.successful = (a = "ok"), !.retryCount = @ + 1]

CallWebhookUrl(e, k, a) ==
  /\ event[e].stage = "call" /\ k \in event[e].to /\ Again(loop[e][k])
  /\ loop' = [loop EXCEPT ![e][k] = AfterCall(@, a)]
  /\ answers' = [answers EXCEPT ![e][k] = Append(@, a)]
  /\ UNCHANGED <<account, docs, req, event, records, begun, faults, history>>

(* The record of a subscription: a rejected loop is recorded as failed.     *)
Record(e, k) ==
  <<k, IF ~loop[e][k].rejected /\ loop[e][k].successful THEN "success" ELSE "failed">>

Settled(e) == event[e].stage = "call" /\ \A k \in event[e].to : ~Again(loop[e][k])

RecordResults(e) ==
  /\ Settled(e)
  /\ records' = [records EXCEPT ![e] = {Record(e, k) : k \in event[e].to}]
  /\ Moves(e, "over", {})
  /\ UNCHANGED <<account, docs, req, loop, answers, begun, faults, history>>

(* The process ends, and with it what is in progress.                       *)
Underway(e) == event[e].stage \notin {"new", "over"}

ProcessEnds ==
  /\ req' = [r \in Request |-> Idle]
  /\ event' = [e \in Event |-> IF Underway(e) THEN [stage |-> "over", to |-> {}] ELSE event[e]]
  /\ DatabaseFails
  /\ UNCHANGED <<account, docs, loop, answers, begun, history>>

(* The records are created in callbacks nobody awaits: when one fails, its  *)
(* rejection is unhandled, and main.ts exits the process.                   *)
RecordingFails(e) ==
  /\ Settled(e)
  /\ \E kept \in SUBSET event[e].to \ {event[e].to} :
       records' = [records EXCEPT ![e] = {Record(e, k) : k \in kept}]
  /\ ProcessEnds

Restart == ProcessEnds /\ UNCHANGED records

EventStep(e) ==
  \/ FindSubscribed(e) \/ RecordFailure(e) \/ RecordResults(e)
  \/ \E k \in Endpoint, a \in Answer : CallWebhookUrl(e, k, a)

Next ==
  \/ \E r \in Request, op \in Operation : Begin(r, op)
  \/ \E r \in Request : RequestStep(r) \/ RequestFails(r)
  \/ \E c \in Cycle : RunsOnce(c)
  \/ \E e \in Event : Emit(e) \/ EventStep(e) \/ RecordingFails(e)
  \/ Restart

(* Every call of an endpoint returns or breaks off, and triggerWebhooks goes on. *)
Fairness == \A e \in Event : WF_vars(EventStep(e))

Spec == Init /\ [][Next]_vars /\ Fairness

-----------------------------------------------------------------------------
(* Properties. *)

(* The type invariant. *)
TypeOK ==
  /\ cycle \in [Cycle -> {"absent", "stopped", "active"}]
  /\ connector \in {"absent", "installed", "authenticated"}
  /\ docs \in Seq(BOOLEAN) /\ Len(docs) <= begun
  /\ req \in [Request -> Work \cup {Idle}]
  /\ event \in [Event -> [stage : {"new", "find", "refuse", "raise", "call", "over"},
                          to : SUBSET Endpoint]]
  /\ loop \in [Event -> [Endpoint -> Loop]]
  /\ answers \in [Event -> [Endpoint -> Seq(Answer)]]
  /\ records \in [Event -> SUBSET ((0 .. MaxRequests) \X {"success", "failed"})]
  /\ begun \in 0 .. MaxRequests /\ faults \in 0 .. MaxFaults
  /\ answered \in Operation \cup {"none"} /\ raced \in BOOLEAN

(* What an answered request promised holds until another begins, whatever   *)
(* failed or was interrupted before it, if it overlapped no other, nor the  *)
(* calls that a failed one left behind: an integration that was activated   *)
(* runs all its cycles and hears of payments; one that was stopped or       *)
(* removed runs none, and hears of nothing unless any two requests ever     *)
(* overlapped, which may leave two subscriptions that no request changes    *)
(* any more.                                                                *)
RequestTakesEffect ==
  /\ answered = "add" =>
       /\ \A t \in Template : \E c \in Present : c[1] = t
       /\ connector = "authenticated"
  /\ answered = "activate" =>
       /\ \A c \in Present : c[1] \notin Once => cycle[c] = "active"
       /\ Subscribed # {}
  /\ answered = "stop" => \A c \in Cycle : cycle[c] # "active"
  /\ answered = "remove" => Present = {}
  /\ answered \in {"stop", "remove"} /\ ~raced => Subscribed = {}

(* Each event is posted to an endpoint "no more than 3 times until it is    *)
(* successful", never again after that, and recorded as it ended, unless    *)
(* the process ends; every event is over in the end, though requests change *)
(* the subscriptions meanwhile.                                             *)
Delivery == INSTANCE EventDelivery WITH
  Attempts <- 3,
  phase <- [e \in Event |-> IF Underway(e) THEN "open" ELSE event[e].stage]

DeliversOnce == Delivery!Spec
=============================================================================
