------------------------ MODULE Integrations_proofs ------------------------
(***************************************************************************)
(* Theorems about Integrations, for any templates, requests and events and *)
(* any bounds.                                                             *)
(***************************************************************************)
EXTENDS Integrations, FiniteSetTheorems, TLAPS

USE IntegrationsAssumption

(* Each request stores one subscription at most, and the requests that have *)
(* not ended may still do so: this keeps the subscriptions within Endpoint. *)
Active == {r \in Request : InProgress(r)}
Budget == Cardinality(Active) + Len(docs) <= begun

IInv == TypeOK /\ Budget

LEMMA ActiveIsFinite == IsFiniteSet(Active) /\ Cardinality(Active) \in Nat
  BY FS_Subset, FS_CardinalityType DEF Active

EventTypes ==
  /\ event \in [Event -> [stage : {"new", "find", "refuse", "raise", "call", "over"},
                          to : SUBSET Endpoint]]
  /\ loop \in [Event -> [Endpoint -> Loop]]
  /\ answers \in [Event -> [Endpoint -> Seq(Answer)]]
  /\ records \in [Event -> SUBSET ((0 .. MaxRequests) \X {"success", "failed"})]

LEMMA SameTypes == TypeOK => EventTypes /\ (UNCHANGED delivery => EventTypes')
  BY DEF TypeOK, EventTypes, delivery

LEMMA IdleIsNotWork == Idle \notin Work /\ Idle.stage = "idle" /\ "idle" \notin Stages
  BY DEF Idle, Work, Stages

LEMMA WorkFields ==
  ASSUME NEW w \in Work
  PROVE  /\ w.op \in Operation /\ w.stage \in Stages /\ w.todo \subseteq Call
         /\ w.failed \in BOOLEAN /\ w.connectors \in BOOLEAN /\ w.found \in Nat
         /\ w.alone \in BOOLEAN /\ w.stage # "idle"
  BY DEF Work, Stages

LEMMA InProgressIsWork ==
  ASSUME TypeOK, NEW r \in Request, InProgress(r)
  PROVE  req[r] \in Work
  BY DEF TypeOK, InProgress, Idle

(* A request goes on, or ends. *)
LEMMA ReqKeepsType ==
  ASSUME TypeOK, NEW r \in Request, NEW w \in Work \cup {Idle}, req' = [req EXCEPT ![r] = w]
  PROVE  req' \in [Request -> Work \cup {Idle}]
  BY DEF TypeOK

LEMMA WorkUpdates ==
  ASSUME NEW w \in Work
  PROVE  /\ \A s \in Stages : [w EXCEPT !.stage = s] \in Work
         /\ \A s \in Stages, T \in SUBSET Call : [w EXCEPT !.stage = s, !.todo = T] \in Work
         /\ \A s \in Stages, T \in SUBSET Call, b \in BOOLEAN :
              [w EXCEPT !.stage = s, !.todo = T, !.connectors = b] \in Work
         /\ \A T \in SUBSET Call, b \in BOOLEAN :
              [w EXCEPT !.todo = T, !.failed = b] \in Work
         /\ \A s \in Stages, n \in Nat : [w EXCEPT !.stage = s, !.found = n] \in Work
         /\ [w EXCEPT !.alone = FALSE] \in Work
  BY DEF Work

(* The requests in progress, after a step of one of them. *)
LEMMA GoesOn ==
  ASSUME TypeOK, NEW r \in Request, InProgress(r), NEW w \in Work \cup {Idle},
         req' = [req EXCEPT ![r] = w]
  PROVE  /\ w # Idle => Active' = Active
         /\ w = Idle => Active' = Active \ {r}
  BY IdleIsNotWork, WorkFields DEF Active, InProgress, TypeOK

LEMMA Fewer ==
  ASSUME NEW r \in Request, InProgress(r), Active' = Active \ {r}
  PROVE  Cardinality(Active') = Cardinality(Active) - 1
<1>1. r \in Active  BY DEF Active
<1> QED  BY <1>1, ActiveIsFinite, FS_RemoveElement

-----------------------------------------------------------------------------
(* The type invariant. *)

LEMMA InitInv == Init => IInv
<1> SUFFICES ASSUME Init PROVE IInv  OBVIOUS
<1>1. TypeOK
  <2>1. NotCalled \in Loop  BY DEF NotCalled, Loop
  <2>2. [k \in Endpoint |-> <<>>] \in [Endpoint -> Seq(Answer)]  OBVIOUS
  <2>3. Len(docs) <= begun /\ docs \in Seq(BOOLEAN)  BY DEF Init
  <2>4. begun \in 0 .. MaxRequests /\ faults \in 0 .. MaxFaults  BY DEF Init
  <2>5. loop \in [Event -> [Endpoint -> Loop]]  BY <2>1 DEF Init
  <2>6. answers \in [Event -> [Endpoint -> Seq(Answer)]]  BY <2>2 DEF Init
  <2>7. req \in [Request -> Work \cup {Idle}]  BY DEF Init
  <2> QED  BY <2>3, <2>4, <2>5, <2>6, <2>7 DEF Init, TypeOK
<1>2. Active = {}
  BY DEF Init, Active, InProgress, Idle
<1>3. Budget
  BY <1>2, FS_EmptySet DEF Init, Budget
<1> QED  BY <1>1, <1>3 DEF IInv

LEMMA BeginKeeps ==
  ASSUME IInv, NEW r \in Request, NEW op \in Operation, Begin(r, op)
  PROVE  IInv'
<1> USE DEF IInv
<1> DEFINE others == {q \in Request : InProgress(q)}
           new == [op |-> op, stage |-> "read", todo |-> {}, failed |-> FALSE,
                   connectors |-> FALSE, found |-> 0, alone |-> others = {}]
<1>1. new \in Work
  BY DEF Work, Stages
<1>2. \A q \in others : req[q] \in Work /\ [req[q] EXCEPT !.alone = FALSE] \in Work
  BY InProgressIsWork, WorkUpdates
<1>3. req' = [q \in Request |-> IF q = r THEN new
                               ELSE IF q \in others THEN [req[q] EXCEPT !.alone = FALSE]
                               ELSE req[q]]
  BY DEF Begin
<1>4. \A q \in Request : req'[q] \in Work \cup {Idle}
  BY <1>1, <1>2, <1>3 DEF TypeOK
<1>5. req' \in [Request -> Work \cup {Idle}]
  BY <1>3, <1>4
<1>6. TypeOK'
  <2>1. begun' \in 0 .. MaxRequests /\ begun <= begun'  BY DEF Begin, TypeOK
  <2>2. docs' \in Seq(BOOLEAN) /\ Len(docs') <= begun'  BY <2>1 DEF Begin, TypeOK
  <2>3. raced' \in BOOLEAN /\ answered' \in Operation \cup {"none"}  BY DEF Begin, TypeOK
  <2>4. UNCHANGED <<account, delivery, faults>>  BY DEF Begin
  <2> QED  BY <1>5, <2>1, <2>2, <2>3, <2>4, SameTypes DEF TypeOK, EventTypes, account
<1>7. Active' = Active \cup {r} /\ r \notin Active
  <2>1. \A q \in Request : InProgress(q)' <=> (q = r \/ InProgress(q))
    <3>1. new.stage # "idle"  OBVIOUS
    <3>2. \A q \in others : [req[q] EXCEPT !.alone = FALSE].stage # "idle"
      BY <1>2, WorkFields
    <3> HIDE DEF new
    <3> QED  BY <1>3, <3>1, <3>2 DEF InProgress
  <2> QED  BY <2>1 DEF Active, Begin
<1>8. Cardinality(Active') = Cardinality(Active) + 1
  BY <1>7, ActiveIsFinite, FS_AddElement
<1>9. Len(docs) \in Nat  BY DEF TypeOK
<1>10. Budget'
  BY <1>8, <1>9, ActiveIsFinite DEF Budget, Begin, TypeOK
<1> QED  BY <1>6, <1>10

(* A step of a request that changes neither the account nor the             *)
(* subscriptions, and only goes on.                                         *)
LEMMA AnsweredKeepsType ==
  ASSUME TypeOK, NEW r \in Request, InProgress(r), EndsOK(r)
  PROVE  answered' \in Operation \cup {"none"}
  BY InProgressIsWork, WorkFields DEF TypeOK, EndsOK

(* What is left to show of a step of a request: the event side is the same. *)
LEMMA RequestStepKeeps ==
  ASSUME IInv, NEW r \in Request, InProgress(r), NEW w \in Work \cup {Idle},
         req' = [req EXCEPT ![r] = w], UNCHANGED <<delivery, begun, raced>>,
         answered' \in Operation \cup {"none"},
         faults' \in 0 .. MaxFaults,
         cycle' \in [Cycle -> {"absent", "stopped", "active"}],
         connector' \in {"absent", "installed", "authenticated"},
         docs' \in Seq(BOOLEAN),
         docs' = docs \/ (Len(docs') <= Len(docs) + 1 /\ w = Idle)
  PROVE  IInv'
<1> USE DEF IInv
<1>1. req' \in [Request -> Work \cup {Idle}]
  BY ReqKeepsType
<1>2. Budget'
  <2>1. Len(docs) \in Nat /\ Len(docs') \in Nat /\ begun \in Nat  BY DEF TypeOK
  <2>2. CASE w # Idle
    BY <2>1, <2>2, GoesOn, ActiveIsFinite DEF Budget
  <2>3. CASE w = Idle
    <3>1. Cardinality(Active') = Cardinality(Active) - 1
      BY <2>3, GoesOn, Fewer
    <3> QED  BY <2>1, <3>1, ActiveIsFinite DEF Budget
  <2> QED  BY <2>2, <2>3
<1>3. Len(docs') <= begun'
  <2>1. IsFiniteSet(Active') /\ Cardinality(Active') \in Nat
    <3>1. Active' \subseteq Request  BY DEF Active
    <3> QED  BY <3>1, FS_Subset, FS_CardinalityType
  <2>2. Len(docs') \in Nat /\ begun' \in Nat  BY DEF TypeOK
  <2> QED  BY <1>2, <2>1, <2>2 DEF Budget
<1>4. TypeOK'
  BY <1>1, <1>3, SameTypes DEF TypeOK, EventTypes
<1> QED  BY <1>2, <1>4

LEMMA CallIsSet ==
  ASSUME NEW c \in Call, NEW T \in SUBSET Call
  PROVE  T \ {c} \in SUBSET Call
  OBVIOUS

LEMMA CyclrKeepsType ==
  ASSUME TypeOK, NEW op \in Operation, NEW target
  PROVE  Called(op, target) \in [Cycle -> {"absent", "stopped", "active"}]
  BY DEF Called, Result, TypeOK

LEMMA WrittenOne ==
  ASSUME TypeOK, NEW op \in Operation, NEW found \in Nat
  PROVE  /\ Written(op, found) \in Seq(BOOLEAN)
         /\ Len(Written(op, found)) \in Nat
         /\ Len(Written(op, found)) <= Len(docs) + 1
<1>1. docs \in Seq(BOOLEAN)  BY DEF TypeOK
<1>2. PICK b \in BOOLEAN : b = (op = "activate")  OBVIOUS
<1>3. CASE found = 1
  <2>1. [docs EXCEPT ![1] = b] \in Seq(BOOLEAN) /\ Len([docs EXCEPT ![1] = b]) = Len(docs)
    <3>1. docs \in [1 .. Len(docs) -> BOOLEAN] /\ Len(docs) \in Nat  BY <1>1
    <3>2. [docs EXCEPT ![1] = b] \in [1 .. Len(docs) -> BOOLEAN]  BY <3>1
    <3> QED  BY <3>1, <3>2
  <2> QED  BY <1>1, <1>2, <1>3, <2>1 DEF Written
<1>4. CASE found # 1
  BY <1>1, <1>4 DEF Written
<1> QED  BY <1>3, <1>4

LEMMA RequestKeeps ==
  ASSUME IInv, NEW r \in Request, RequestStep(r) \/ RequestFails(r)
  PROVE  IInv'
<1> USE DEF IInv
<1> DEFINE w == req[r]
<1>1. InProgress(r)
  BY DEF RequestStep, RequestFails, InProgress, ReadAccount, InstallConnector, CallsReturned,
     Authenticate, DeleteConnector, FindSubscription, WriteSubscription, CyclrCall
<1>2. w \in Work
  BY <1>1, InProgressIsWork
<1>3. /\ cycle \in [Cycle -> {"absent", "stopped", "active"}]
      /\ connector \in {"absent", "installed", "authenticated"}
      /\ docs \in Seq(BOOLEAN) /\ faults \in 0 .. MaxFaults
      /\ answered \in Operation \cup {"none"}
  BY DEF TypeOK
<1>4. /\ w.op \in Operation /\ w.todo \subseteq Call /\ w.failed \in BOOLEAN
  BY <1>2, WorkFields
<1>5. ASSUME NEW v \in Work \cup {Idle}, Goes(r, v), UNCHANGED <<docs, delivery, raced>>,
             faults' \in 0 .. MaxFaults,
             cycle' \in [Cycle -> {"absent", "stopped", "active"}],
             connector' \in {"absent", "installed", "authenticated"}
      PROVE  IInv'
  BY <1>1, <1>3, <1>5, RequestStepKeeps DEF Goes
<1>6. ASSUME EndsOK(r), UNCHANGED <<cycle, delivery, raced, faults>>,
             connector' \in {"absent", "installed", "authenticated"},
             docs' \in Seq(BOOLEAN), docs' = docs \/ Len(docs') <= Len(docs) + 1
      PROVE  IInv'
  BY <1>1, <1>3, <1>6, AnsweredKeepsType, RequestStepKeeps DEF EndsOK
<1>7. CASE ReadAccount(r)
  <2>1. /\ Template \X {0} \in SUBSET Call /\ Present \in SUBSET Call
        /\ {"install", "calls"} \subseteq Stages
    BY DEF Call, Present, Stages
  <2>2. [w EXCEPT !.stage = "install", !.todo = Template \X {0}] \in Work
    BY <1>2, <2>1, WorkUpdates
  <2>3. [w EXCEPT !.stage = "calls", !.todo = Present, !.connectors = Present # {}] \in Work
    BY <1>2, <2>1, WorkUpdates
  <2> QED  BY <1>3, <1>5, <1>7, <2>2, <2>3 DEF ReadAccount, account
<1>8. CASE InstallConnector(r)
  <2>1. [w EXCEPT !.stage = "calls"] \in Work
    BY <1>2, WorkUpdates DEF Stages
  <2> QED  BY <1>3, <1>5, <1>8, <2>1 DEF InstallConnector
<1>9. CASE \E c \in Call : CyclrCall(r, c)
  <2> PICK c \in Call : CyclrCall(r, c)  BY <1>9
  <2>1. \A b \in BOOLEAN : [w EXCEPT !.todo = @ \ {c}, !.failed = b] \in Work
    BY <1>2, <1>4, WorkUpdates
  <2>2. Called(w.op, Target(w.op, c)) \in [Cycle -> {"absent", "stopped", "active"}]
    BY <1>4, CyclrKeepsType
  <2>3. (w.failed \/ ~Succeeds(w.op, c)) \in BOOLEAN
    BY <1>4 DEF Succeeds
  <2>4. /\ \E b \in BOOLEAN : Goes(r, [w EXCEPT !.todo = @ \ {c}, !.failed = b])
        /\ cycle' \in {cycle, Called(w.op, Target(w.op, c))}
        /\ faults' \in 0 .. MaxFaults
        /\ UNCHANGED <<connector, docs, delivery, raced>>
    <3> DEFINE failed(b) == Goes(r, [w EXCEPT !.todo = @ \ {c}, !.failed = b])
    <3>1. \/ failed(w.failed \/ ~Succeeds(w.op, c)) /\ UNCHANGED faults
                /\ cycle' = Called(w.op, Target(w.op, c))
          \/ /\ failed(TRUE) /\ faults < MaxFaults /\ faults' = faults + 1
             /\ cycle' \in {cycle, Called(w.op, Target(w.op, c))}
      BY DEF CyclrCall
    <3>2. UNCHANGED <<connector, docs, delivery, raced>>
      BY DEF CyclrCall
    <3>3. \E b \in BOOLEAN : failed(b)
      <4> HIDE DEF failed
      <4> QED  BY <2>3, <3>1
    <3>4. faults' \in 0 .. MaxFaults
      <4>1. UNCHANGED faults \/ (faults < MaxFaults /\ faults' = faults + 1)
        BY Zenon DEF CyclrCall
      <4>2. faults \in Nat /\ MaxFaults \in Nat  BY <1>3
      <4> QED  BY ONLY <1>3, <4>1, <4>2
    <3>5. cycle' \in {cycle, Called(w.op, Target(w.op, c))}
      <4> HIDE DEF failed
      <4> QED  BY <3>1
    <3> QED  BY <3>2, <3>3, <3>4, <3>5
  <2> QED  BY <1>3, <1>5, <2>1, <2>2, <2>4
<1>10. CASE CallsReturned(r)
  <2>1. [w EXCEPT !.stage = AfterCalls(w)] \in Work
    <3>1. AfterCalls(w) \in Stages  BY DEF AfterCalls, Stages
    <3> QED  BY <1>2, <3>1, WorkUpdates
  <2> QED  BY <1>3, <1>5, <1>10, <2>1 DEF CallsReturned, account
<1>11. CASE Authenticate(r)
  BY <1>3, <1>6, <1>11 DEF Authenticate
<1>12. CASE DeleteConnector(r)
  <2>1. [w EXCEPT !.stage = "find"] \in Work
    BY <1>2, WorkUpdates DEF Stages
  <2> QED  BY <1>3, <1>5, <1>12, <2>1 DEF DeleteConnector
<1>13. CASE FindSubscription(r)
  <2>1. [w EXCEPT !.stage = "write", !.found = Len(docs)] \in Work
    <3>1. Len(docs) \in Nat /\ "write" \in Stages  BY <1>3 DEF Stages
    <3> QED  BY <1>2, <3>1, WorkUpdates
  <2>2. CASE Goes(r, [w EXCEPT !.stage = "write", !.found = Len(docs)])
    BY <1>3, <1>5, <1>13, <2>1, <2>2 DEF FindSubscription, account
  <2>3. CASE EndsOK(r)
    BY <1>3, <1>6, <1>13, <2>3 DEF FindSubscription, account
  <2> QED  BY <1>13, <2>2, <2>3 DEF FindSubscription
<1>14. CASE WriteSubscription(r)
  <2>1. w.found \in Nat  BY <1>2, WorkFields
  <2> QED  BY <1>3, <1>4, <1>6, <1>14, <2>1, WrittenOne DEF WriteSubscription, account
<1>15. CASE RequestFails(r)
  <2>1. faults < MaxFaults /\ faults' = faults + 1 /\ req' = [req EXCEPT ![r] = Idle]
    BY <1>15 DEF RequestFails, Fails
  <2>2. UNCHANGED <<cycle, connector, docs, delivery, begun, answered, raced>>
    BY <1>15 DEF RequestFails, Fails, account, history
  <2>3. faults' \in 0 .. MaxFaults  BY ONLY IntegrationsAssumption, <1>3, <2>1
  <2> QED  BY <1>1, <1>3, <2>1, <2>2, <2>3, RequestStepKeeps
<1>16. CASE RequestStep(r)
  <2>1. \/ ReadAccount(r) \/ InstallConnector(r) \/ CallsReturned(r) \/ Authenticate(r)
        \/ DeleteConnector(r) \/ FindSubscription(r) \/ WriteSubscription(r)
        \/ \E c \in Call : CyclrCall(r, c)
    BY <1>16 DEF RequestStep
  <2> QED  BY ONLY <1>7, <1>8, <1>9, <1>10, <1>11, <1>12, <1>13, <1>14, <2>1
<1> QED  BY <1>15, <1>16

(* A step of an event leaves the requests alone. *)
EventStages == {"new", "find", "refuse", "raise", "call", "over"}
Todo == [stage : EventStages, to : SUBSET Endpoint]

LEMMA EventStepKeeps ==
  ASSUME IInv, UNCHANGED <<account, docs, req, begun, history>>, faults' \in 0 .. MaxFaults,
         EventTypes'
  PROVE  IInv'
<1>1. TypeOK'
  BY DEF IInv, TypeOK, EventTypes, account, history
<1>2. Budget'
  BY DEF IInv, Budget, Active, InProgress
<1> QED  BY <1>1, <1>2 DEF IInv

LEMMA EndpointsFound == IInv => Subscribed \in SUBSET Endpoint
<1> SUFFICES ASSUME IInv PROVE Subscribed \subseteq 1 .. MaxRequests  BY DEF Endpoint
<1>1. docs \in Seq(BOOLEAN) /\ Len(docs) <= begun /\ begun \in 0 .. MaxRequests
  BY DEF IInv, TypeOK
<1>2. DOMAIN docs = 1 .. Len(docs) /\ Len(docs) \in Nat  BY <1>1
<1> QED  BY <1>1, <1>2 DEF Subscribed

LEMMA RecordIsTyped ==
  ASSUME NEW e \in Event, NEW S \in SUBSET Endpoint
  PROVE  {Record(e, k) : k \in S} \subseteq (0 .. MaxRequests) \X {"success", "failed"}
<1> SUFFICES ASSUME NEW k \in S
             PROVE  Record(e, k) \in (0 .. MaxRequests) \X {"success", "failed"}
  OBVIOUS
<1>1. k \in 0 .. MaxRequests  BY DEF Endpoint
<1>2. PICK x \in {"success", "failed"} : Record(e, k) = <<k, x>>
  BY Zenon DEF Record
<1> QED  BY <1>1, <1>2

LEMMA AfterCallIsLoop ==
  ASSUME NEW l \in Loop, NEW a \in Answer
  PROVE  AfterCall(l, a) \in Loop
<1>1. PICK b \in BOOLEAN : b = (a = "ok")  OBVIOUS
<1>2. PICK n \in Nat : n = l.retryCount + 1  BY DEF Loop
<1>3. /\ [l EXCEPT !.rejected = TRUE] \in Loop
      /\ [l EXCEPT !.successful = b, !.retryCount = n] \in Loop
  BY DEF Loop
<1> QED  BY <1>1, <1>2, <1>3 DEF AfterCall

LEMMA EventKeeps ==
  ASSUME IInv, NEW e \in Event, Emit(e) \/ EventStep(e)
  PROVE  IInv'
<1>1. EventTypes /\ faults \in 0 .. MaxFaults  BY SameTypes DEF IInv, TypeOK
<1>2. ASSUME NEW stage \in EventStages, NEW to \in SUBSET Endpoint, Moves(e, stage, to)
      PROVE  event' \in [Event -> Todo]
  <2>1. [stage |-> stage, to |-> to] \in Todo  BY DEF Todo
  <2> QED  BY <1>1, <1>2, <2>1 DEF Moves, EventTypes, Todo, EventStages
<1>3. DatabaseFails => faults' \in 0 .. MaxFaults
  <2>1. DatabaseFails => faults < MaxFaults /\ faults' = faults + 1  BY DEF DatabaseFails
  <2> QED  BY ONLY IntegrationsAssumption, <1>1, <2>1
<1>4. CASE Emit(e)
  <2>1. event' \in [Event -> Todo]  BY <1>2, <1>4 DEF Emit, EventStages
  <2> QED  BY <1>1, <1>4, <2>1, EventStepKeeps DEF Emit, EventTypes, Todo, EventStages
<1>5. CASE FindSubscribed(e)
  <2>1. event' \in [Event -> Todo]
    BY <1>2, <1>5, EndpointsFound DEF FindSubscribed, EventStages
  <2>2. faults' \in 0 .. MaxFaults  BY <1>1, <1>3, <1>5 DEF FindSubscribed
  <2> QED  BY <1>1, <1>5, <2>1, <2>2, EventStepKeeps DEF FindSubscribed, EventTypes, Todo, EventStages
<1>6. CASE RecordFailure(e)
  <2>1. event' \in [Event -> Todo]
    BY <1>2, <1>6 DEF RecordFailure, EventStages
  <2>2. faults' \in 0 .. MaxFaults  BY <1>1, <1>3, <1>6 DEF RecordFailure
  <2>3. records' \in [Event -> SUBSET ((0 .. MaxRequests) \X {"success", "failed"})]
    <3>1. {<<0, "failed">>} \in SUBSET ((0 .. MaxRequests) \X {"success", "failed"})  OBVIOUS
    <3> QED  BY <1>1, <1>6, <3>1 DEF RecordFailure, EventTypes
  <2> QED
    BY <1>1, <1>6, <2>1, <2>2, <2>3, EventStepKeeps DEF RecordFailure, EventTypes, Todo, EventStages
<1>7. CASE \E k \in Endpoint, a \in Answer : CallWebhookUrl(e, k, a)
  <2> PICK k \in Endpoint, a \in Answer : CallWebhookUrl(e, k, a)  BY <1>7
  <2>1. loop' \in [Event -> [Endpoint -> Loop]]
    <3>1. PICK l \in Loop : l = AfterCall(loop[e][k], a)
      BY <1>1, AfterCallIsLoop DEF EventTypes
    <3>2. loop' = [loop EXCEPT ![e][k] = l]  BY <3>1 DEF CallWebhookUrl
    <3> QED  BY <1>1, <3>2 DEF EventTypes
  <2>2. answers' \in [Event -> [Endpoint -> Seq(Answer)]]
    <3>1. PICK s \in Seq(Answer) : s = Append(answers[e][k], a)
      <4>1. answers[e] \in [Endpoint -> Seq(Answer)]  BY <1>1 DEF EventTypes
      <4>2. answers[e][k] \in Seq(Answer)  BY <4>1
      <4>3. Append(answers[e][k], a) \in Seq(Answer)  BY <4>2
      <4> QED  BY <4>3
    <3>2. answers' = [answers EXCEPT ![e][k] = s]  BY <3>1 DEF CallWebhookUrl
    <3> QED  BY <1>1, <3>2 DEF EventTypes
  <2> QED  BY <1>1, <2>1, <2>2, EventStepKeeps DEF CallWebhookUrl, EventTypes
<1>8. CASE RecordResults(e)
  <2>1. event[e].to \in SUBSET Endpoint  BY <1>1 DEF EventTypes
  <2>2. event' \in [Event -> Todo]
    BY <1>2, <1>8 DEF RecordResults, EventStages
  <2>3. records' \in [Event -> SUBSET ((0 .. MaxRequests) \X {"success", "failed"})]
    BY <1>1, <1>8, <2>1, RecordIsTyped DEF RecordResults, EventTypes
  <2> QED
    BY <1>1, <1>8, <2>2, <2>3, EventStepKeeps DEF RecordResults, EventTypes, Todo, EventStages
<1> QED
  BY <1>4, <1>5, <1>6, <1>7, <1>8 DEF EventStep

LEMMA EndKeeps ==
  ASSUME IInv, ProcessEnds,
         records' \in [Event -> SUBSET ((0 .. MaxRequests) \X {"success", "failed"})]
  PROVE  IInv'
<1>1. faults' \in 0 .. MaxFaults
  <2>1. faults < MaxFaults /\ faults' = faults + 1  BY DEF ProcessEnds, DatabaseFails
  <2>2. faults \in 0 .. MaxFaults  BY DEF IInv, TypeOK
  <2> QED  BY ONLY IntegrationsAssumption, <2>1, <2>2
<1>2. event' \in [Event -> Todo]
  <2>1. [stage |-> "over", to |-> {}] \in Todo  BY DEF Todo, EventStages
  <2>2. \A e \in Event : event[e] \in Todo  BY DEF IInv, TypeOK, Todo, EventStages
  <2> QED  BY <2>1, <2>2 DEF ProcessEnds
<1>3. req' \in [Request -> Work \cup {Idle}]  BY DEF ProcessEnds
<1>4. TypeOK'
  BY <1>1, <1>2, <1>3 DEF ProcessEnds, IInv, TypeOK, account, history, Todo, EventStages
<1>5. Active' = {}
  BY IdleIsNotWork DEF Active, InProgress, ProcessEnds
<1>6. Budget'
  <2>1. Cardinality(Active') = 0  BY <1>5, FS_EmptySet
  <2>2. Len(docs') <= begun' /\ Len(docs') \in Nat  BY <1>4 DEF TypeOK
  <2> QED  BY <2>1, <2>2 DEF Budget
<1> QED  BY <1>4, <1>6 DEF IInv

LEMMA InvStep == IInv /\ [Next]_vars => IInv'
<1> SUFFICES ASSUME IInv, [Next]_vars PROVE IInv'  OBVIOUS
<1>1. ASSUME NEW r \in Request, NEW op \in Operation, Begin(r, op) PROVE IInv'
  BY <1>1, BeginKeeps
<1>2. ASSUME NEW r \in Request, RequestStep(r) \/ RequestFails(r) PROVE IInv'
  BY <1>2, RequestKeeps
<1>3. ASSUME NEW c \in Cycle, RunsOnce(c) PROVE IInv'
  <2>1. TypeOK'
    BY <1>3 DEF RunsOnce, IInv, TypeOK, history, delivery
  <2> QED  BY <1>3, <2>1 DEF RunsOnce, IInv, Budget, Active, InProgress
<1>4. ASSUME NEW e \in Event, Emit(e) \/ EventStep(e) PROVE IInv'
  BY <1>4, EventKeeps
<1>5. ASSUME NEW e \in Event, RecordingFails(e) PROVE IInv'
  <2>1. EventTypes  BY SameTypes DEF IInv
  <2>2. event[e].to \in SUBSET Endpoint  BY <2>1 DEF EventTypes
  <2>3. records' \in [Event -> SUBSET ((0 .. MaxRequests) \X {"success", "failed"})]
    <3>1. PICK kept \in SUBSET event[e].to :
            records' = [records EXCEPT ![e] = {Record(e, k) : k \in kept}]
      BY <1>5 DEF RecordingFails
    <3>2. {Record(e, k) : k \in kept} \in SUBSET ((0 .. MaxRequests) \X {"success", "failed"})
      BY <2>2, RecordIsTyped
    <3> QED  BY <2>1, <3>1, <3>2 DEF EventTypes
  <2> QED  BY <1>5, <2>3, EndKeeps DEF RecordingFails
<1>6. CASE Restart
  BY <1>6, EndKeeps DEF Restart, IInv, TypeOK
<1>7. CASE UNCHANGED vars
  <2>1. TypeOK'
    BY <1>7 DEF vars, account, delivery, history, IInv, TypeOK
  <2> QED  BY <1>7, <2>1 DEF vars, IInv, Budget, Active, InProgress
<1> QED
  BY <1>1, <1>2, <1>3, <1>4, <1>5, <1>6, <1>7 DEF Next

(* The type invariant, and with it that a tenant has no more subscriptions  *)
(* than requests were made: every event finds its subscriptions among them. *)
THEOREM TypeCorrect == Spec => []TypeOK
<1>1. IInv => TypeOK  BY DEF IInv
<1> QED  BY <1>1, InitInv, InvStep, PTL DEF Spec

-----------------------------------------------------------------------------
(* The delivery of an event implements EventDelivery.                       *)

(* What the loop of a subscription knows of the answers it got, the last of *)
(* which decides whether it calls again.                                    *)
Tells(l, s) ==
  /\ Len(s) = IF l.rejected THEN l.retryCount + 1 ELSE l.retryCount
  /\ l.rejected <=> (s # <<>> /\ s[Len(s)] = "lost")
  /\ l.successful /\ ~l.rejected <=> (s # <<>> /\ s[Len(s)] = "ok")
  /\ l.successful => ~l.rejected
  /\ \A i \in 1 .. Len(s) : i < Len(s) => s[i] = "refused"

(* Only subscriptions that were found are called; nothing is recorded       *)
(* before the event is over.                                                *)
Heard(e) ==
  /\ \A k \in Endpoint : Tells(loop[e][k], answers[e][k])
  /\ event[e].stage \notin {"call", "over"} => \A k \in Endpoint : answers[e][k] = <<>>
  /\ event[e].stage = "call" =>
       event[e].to # {} /\ \A k \in Endpoint \ event[e].to : answers[e][k] = <<>>
  /\ event[e].stage # "over" => records[e] = {}

DInv == IInv /\ \A e \in Event : Heard(e)

LEMMA TellsWhenAgain ==
  ASSUME NEW l \in Loop, NEW s \in Seq(Answer), Tells(l, s)
  PROVE  /\ Again(l) <=> Delivery!Retriable(s)
         /\ s = <<>> => Again(l)
<1> USE DEF Loop, Answer
<1>1. Len(s) \in Nat /\ \A i \in 1 .. Len(s) : s[i] \in Answer  OBVIOUS
<1>2. s # <<>> => Len(s) \in 1 .. Len(s)  OBVIOUS
<1>3. s = <<>> => Len(s) = 0 /\ Again(l)
  BY <1>1 DEF Tells, Again
<1>4. ASSUME Again(l) PROVE Delivery!Retriable(s)
  <2>1. Len(s) < 3  BY <1>4 DEF Tells, Again
  <2>2. s # <<>> => s[Len(s)] = "refused"  BY <1>1, <1>2, <1>4 DEF Tells, Again
  <2>3. \A i \in 1 .. Len(s) : s[i] = "refused"
    <3>1. \A i \in 1 .. Len(s) : i < Len(s) \/ i = Len(s)  BY <1>1
    <3>2. \A i \in 1 .. Len(s) : s # <<>>  OBVIOUS
    <3> QED  BY <2>2, <3>1, <3>2 DEF Tells
  <2> QED  BY <2>1, <2>3 DEF Delivery!Retriable
<1>5. ASSUME Delivery!Retriable(s) PROVE Again(l)
  <2>1. Len(s) < 3 /\ \A i \in 1 .. Len(s) : s[i] = "refused"
    BY <1>5 DEF Delivery!Retriable
  <2>2. s # <<>> => s[Len(s)] = "refused"  BY <1>2, <2>1
  <2>3. ~l.rejected /\ ~l.successful  BY <2>2 DEF Tells
  <2> QED  BY <1>1, <2>1, <2>3 DEF Tells, Again
<1> QED  BY <1>3, <1>4, <1>5

LEMMA TellsAfterCall ==
  ASSUME NEW l \in Loop, NEW s \in Seq(Answer), Tells(l, s), Again(l), NEW a \in Answer
  PROVE  Tells(AfterCall(l, a), Append(s, a))
<1> DEFINE t == Append(s, a)  n == Len(s)
<1>1. n \in Nat /\ Len(t) = n + 1 /\ t # <<>> /\ t[Len(t)] = a
      /\ \A i \in 1 .. n : t[i] = s[i]
  OBVIOUS
<1>2. ~l.rejected /\ ~l.successful /\ n = l.retryCount /\ l.retryCount \in Nat
  BY DEF Again, Tells, Loop
<1>3. \A i \in 1 .. n : s[i] = "refused"
  BY TellsWhenAgain DEF Delivery!Retriable
<1>4. \A i \in 1 .. Len(t) : i < Len(t) => t[i] = "refused"
  BY <1>1, <1>3
<1>5. CASE a = "lost"
  <2>1. AfterCall(l, a) = [l EXCEPT !.rejected = TRUE]  BY <1>5 DEF AfterCall
  <2>2. /\ AfterCall(l, a).rejected /\ ~AfterCall(l, a).successful
        /\ AfterCall(l, a).retryCount = l.retryCount
    BY <1>2, <2>1 DEF Loop
  <2> HIDE DEF t
  <2> QED  BY <1>1, <1>2, <1>4, <1>5, <2>2 DEF Tells, t
<1>6. CASE a # "lost"
  <2>1. AfterCall(l, a) = [l EXCEPT !.successful = (a = "ok"), !.retryCount = @ + 1]
    BY <1>6 DEF AfterCall
  <2>2. /\ ~AfterCall(l, a).rejected /\ (AfterCall(l, a).successful <=> a = "ok")
        /\ AfterCall(l, a).retryCount = l.retryCount + 1
    BY <1>2, <2>1 DEF Loop
  <2> HIDE DEF t
  <2> QED  BY <1>1, <1>2, <1>4, <1>6, <2>2 DEF Tells, t
<1> QED  BY <1>5, <1>6

LEMMA EventFields ==
  ASSUME IInv, NEW e \in Event
  PROVE  /\ event[e].stage \in EventStages /\ event[e].to \in SUBSET Endpoint
         /\ \A k \in Endpoint : loop[e][k] \in Loop /\ answers[e][k] \in Seq(Answer)
<1>1. EventTypes  BY SameTypes DEF IInv
<1>2. event[e] \in Todo /\ loop[e] \in [Endpoint -> Loop]
      /\ answers[e] \in [Endpoint -> Seq(Answer)]
  BY <1>1 DEF EventTypes, Todo, EventStages
<1> QED  BY <1>2 DEF Todo

LEMMA InitHeard == Init => \A e \in Event : Heard(e)
<1> SUFFICES ASSUME Init, NEW e \in Event PROVE Heard(e)  OBVIOUS
<1>1. Tells(NotCalled, <<>>)
  BY DEF Tells, NotCalled
<1>2. /\ event[e].stage = "new" /\ records[e] = {}
      /\ \A k \in Endpoint : loop[e][k] = NotCalled /\ answers[e][k] = <<>>
  BY DEF Init
<1> QED  BY <1>1, <1>2 DEF Heard

(* An event whose stage, subscriptions and answers are the same is as it was. *)
LEMMA SameHeard ==
  ASSUME NEW e \in Event, Heard(e), event'[e] = event[e], loop'[e] = loop[e],
         answers'[e] = answers[e], records'[e] = records[e]
  PROVE  Heard(e)'
  BY DEF Heard

LEMMA Elsewhere ==
  ASSUME IInv, NEW e \in Event, NEW d \in Event, d # e, Emit(e) \/ EventStep(e)
  PROVE  /\ event'[d] = event[d] /\ loop'[d] = loop[d]
         /\ answers'[d] = answers[d] /\ records'[d] = records[d]
<1>1. EventTypes  BY SameTypes DEF IInv
<1>2. ASSUME NEW stage, NEW to, Moves(e, stage, to) PROVE event'[d] = event[d]
  BY <1>1, <1>2 DEF Moves, EventTypes
<1>3. CASE Emit(e)  BY <1>2, <1>3 DEF Emit
<1>4. CASE FindSubscribed(e)  BY <1>2, <1>4 DEF FindSubscribed
<1>5. CASE RecordFailure(e)  BY <1>1, <1>2, <1>5 DEF RecordFailure, EventTypes
<1>6. CASE RecordResults(e)  BY <1>1, <1>2, <1>6 DEF RecordResults, EventTypes
<1>7. CASE \E k \in Endpoint, a \in Answer : CallWebhookUrl(e, k, a)
  BY <1>1, <1>7 DEF CallWebhookUrl, EventTypes
<1> QED  BY <1>3, <1>4, <1>5, <1>6, <1>7 DEF EventStep

LEMMA MovesTo ==
  ASSUME IInv, NEW e \in Event, NEW stage, NEW to, Moves(e, stage, to)
  PROVE  event'[e].stage = stage /\ event'[e].to = to
  BY SameTypes DEF IInv, EventTypes, Moves

LEMMA StepHeard ==
  ASSUME DInv, NEW e \in Event, Emit(e) \/ EventStep(e)
  PROVE  Heard(e)'
<1> USE DEF DInv
<1>1. EventTypes  BY SameTypes DEF IInv
<1>2. CASE Emit(e)
  <2>1. event'[e].stage = "find" /\ event[e].stage = "new"  BY <1>2, MovesTo DEF Emit
  <2> QED  BY <1>2, <2>1 DEF Emit, Heard
<1>3. CASE FindSubscribed(e)
  <2>1. /\ event[e].stage = "find"
        /\ \/ event'[e].stage = "call" /\ event'[e].to # {}
           \/ event'[e].stage \in {"refuse", "raise"}
    BY <1>3, MovesTo DEF FindSubscribed
  <2> QED  BY <1>3, <2>1 DEF FindSubscribed, Heard
<1>4. CASE RecordFailure(e)
  <2>1. /\ event[e].stage \in {"refuse", "raise"}
        /\ \/ event'[e].stage = "over"
           \/ event'[e].stage = "raise" /\ records' = records
    BY <1>4, MovesTo DEF RecordFailure
  <2> QED  BY <1>4, <2>1 DEF RecordFailure, Heard
<1>5. CASE RecordResults(e)
  <2>1. event[e].stage = "call" /\ event'[e].stage = "over"
    BY <1>5, MovesTo DEF RecordResults, Settled
  <2> QED  BY <1>5, <2>1 DEF RecordResults, Heard
<1>6. ASSUME NEW k \in Endpoint, NEW a \in Answer, CallWebhookUrl(e, k, a)
      PROVE  Heard(e)'
  <2>1. loop[e][k] \in Loop /\ answers[e][k] \in Seq(Answer)  BY EventFields
  <2>2. /\ loop'[e] = [loop[e] EXCEPT ![k] = AfterCall(loop[e][k], a)]
        /\ answers'[e] = [answers[e] EXCEPT ![k] = Append(answers[e][k], a)]
        /\ loop[e] \in [Endpoint -> Loop] /\ answers[e] \in [Endpoint -> Seq(Answer)]
    BY <1>1, <1>6 DEF CallWebhookUrl, EventTypes
  <2>3. Tells(AfterCall(loop[e][k], a), Append(answers[e][k], a))
    BY <1>6, <2>1, TellsAfterCall DEF CallWebhookUrl, Heard
  <2>4. \A j \in Endpoint : Tells(loop'[e][j], answers'[e][j])
    BY <2>2, <2>3 DEF Heard
  <2>5. event[e].stage = "call" /\ k \in event[e].to /\ event' = event /\ records' = records
    BY <1>6 DEF CallWebhookUrl
  <2> QED  BY <2>2, <2>4, <2>5 DEF Heard
<1> QED  BY <1>2, <1>3, <1>4, <1>5, <1>6 DEF EventStep

LEMMA DInvStep == DInv /\ [Next]_vars => DInv'
<1> SUFFICES ASSUME DInv, [Next]_vars PROVE DInv'  OBVIOUS
<1> USE DEF DInv
<1>1. IInv'  BY InvStep
<1>2. ASSUME UNCHANGED delivery PROVE \A e \in Event : Heard(e)'
  BY <1>2, SameHeard DEF delivery
<1>3. ASSUME NEW e \in Event, Emit(e) \/ EventStep(e) PROVE \A d \in Event : Heard(d)'
  <2> TAKE d \in Event
  <2>1. CASE d = e  BY <1>3, <2>1, StepHeard
  <2>2. CASE d # e
    <3>1. Heard(d)  OBVIOUS
    <3> QED  BY ONLY <1>3, <2>2, <3>1, DInv, Elsewhere, SameHeard DEF DInv
  <2> QED  BY <2>1, <2>2
<1>4. ASSUME ProcessEnds, NEW e \in Event,
             \A d \in Event : d # e => records'[d] = records[d],
             Underway(e) \/ records'[e] = records[e]
      PROVE  \A d \in Event : Heard(d)'
  <2> TAKE d \in Event
  <2>1. loop'[d] = loop[d] /\ answers'[d] = answers[d]  BY <1>4 DEF ProcessEnds
  <2>2. CASE Underway(d)
    <3>1. event'[d].stage = "over"  BY <1>4, <2>2 DEF ProcessEnds
    <3> QED  BY <2>1, <3>1 DEF Heard
  <2>3. CASE ~Underway(d)
    <3>1. event'[d] = event[d]  BY <1>4, <2>3 DEF ProcessEnds
    <3>2. records'[d] = records[d]  BY <1>4, <2>3
    <3> QED  BY <2>1, <3>1, <3>2, SameHeard
  <2> QED  BY <2>2, <2>3
<1>5. ASSUME NEW r \in Request, RequestStep(r) PROVE UNCHANGED delivery
  BY <1>5 DEF RequestStep, ReadAccount, InstallConnector, CallsReturned,
     Authenticate, DeleteConnector, FindSubscription, WriteSubscription, CyclrCall
<1>6. ASSUME NEW e \in Event, RecordingFails(e) PROVE \A d \in Event : Heard(d)'
  <2>1. Underway(e)  BY <1>6 DEF RecordingFails, Settled, Underway
  <2>2. \A d \in Event : d # e => records'[d] = records[d]
    <3>1. EventTypes  BY SameTypes DEF IInv
    <3> QED  BY <1>6, <3>1 DEF RecordingFails, EventTypes
  <2> QED  BY <1>4, <1>6, <2>1, <2>2 DEF RecordingFails
<1>7. CASE Restart
  <2>1. ProcessEnds /\ \A d \in Event : records'[d] = records[d]  BY <1>7 DEF Restart
  <2>2. \A d \in Event : Heard(d)'  BY <1>4, <2>1
  <2> QED  BY <1>1, <2>2
<1>8. CASE UNCHANGED vars  BY <1>1, <1>2, <1>8 DEF vars
<1>9. ASSUME \/ \E r \in Request : RequestFails(r) \/ \E op \in Operation : Begin(r, op)
             \/ \E c \in Cycle : RunsOnce(c)
      PROVE  UNCHANGED delivery
  BY <1>9 DEF Begin, RequestFails, Fails, RunsOnce
<1> QED
  BY <1>1, <1>2, <1>3, <1>5, <1>6, <1>7, <1>8, <1>9 DEF Next

-----------------------------------------------------------------------------
(* Every step is a step of EventDelivery, or none. *)
phaseBar == [e \in Event |-> IF Underway(e) THEN "open" ELSE event[e].stage]

LEMMA Phases ==
  ASSUME IInv, NEW e \in Event
  PROVE  /\ phaseBar[e] = "new" <=> event[e].stage = "new"
         /\ phaseBar[e] = "over" <=> event[e].stage = "over"
         /\ phaseBar[e] = "open" <=> Underway(e)
  BY EventFields DEF phaseBar, Underway, EventStages

(* A step of one event moves that event alone. *)
LEMMA PhaseMoves ==
  ASSUME IInv, NEW e \in Event, NEW stage, NEW to, Moves(e, stage, to)
  PROVE  phaseBar' = [phaseBar EXCEPT ![e] =
                        IF stage \notin {"new", "over"} THEN "open" ELSE stage]
<1>1. EventTypes  BY SameTypes DEF IInv
<1>2. \A d \in Event : d # e => event'[d] = event[d]  BY <1>1 DEF Moves, EventTypes
<1>3. event'[e].stage = stage  BY MovesTo
<1> QED  BY <1>2, <1>3 DEF phaseBar, Underway

(* What is recorded of the subscriptions that are done is how they ended. *)
LEMMA RecordIsOutcome ==
  ASSUME DInv, NEW e \in Event, NEW k \in Endpoint, ~Again(loop[e][k])
  PROVE  /\ k \in Delivery!Called(e) /\ ~Delivery!Retriable(answers[e][k])
         /\ Record(e, k) = <<k, Delivery!Outcome(answers[e][k])>>
<1> DEFINE l == loop[e][k]  s == answers[e][k]
<1>1. l \in Loop /\ s \in Seq(Answer) /\ Tells(l, s)
  BY EventFields DEF DInv, Heard
<1>2. s # <<>> /\ ~Delivery!Retriable(s)
  BY <1>1, TellsWhenAgain
<1>3. l.successful /\ ~l.rejected <=> s[Len(s)] = "ok"
  BY <1>1, <1>2 DEF Tells
<1>4. Record(e, k) = <<k, Delivery!Outcome(s)>>
  BY <1>3 DEF Record, Delivery!Outcome
<1> QED  BY <1>2, <1>4 DEF Delivery!Called

(* The subscriptions that were called are those that were found. *)
LEMMA CalledIsFound ==
  ASSUME DInv, NEW e \in Event, Settled(e)
  PROVE  Delivery!Called(e) = event[e].to
<1>1. event[e].to \subseteq Endpoint  BY EventFields DEF DInv
<1>2. \A k \in event[e].to : k \in Delivery!Called(e)
  BY <1>1, RecordIsOutcome DEF Settled
<1>3. \A k \in Endpoint \ event[e].to : answers[e][k] = <<>>
  BY DEF DInv, Heard, Settled
<1> QED  BY <1>1, <1>2, <1>3 DEF Delivery!Called

LEMMA KeptAreEnded ==
  ASSUME DInv, NEW e \in Event, Settled(e), NEW kept \in SUBSET event[e].to
  PROVE  {Record(e, k) : k \in kept} \subseteq Delivery!Ended(e)
<1>1. \A k \in event[e].to : k \in Endpoint /\ ~Again(loop[e][k])
  BY EventFields DEF DInv, Settled
<1>2. \A k \in event[e].to : Record(e, k) \in Delivery!Ended(e)
  BY <1>1, RecordIsOutcome DEF Delivery!Ended
<1> QED  BY <1>2

LEMMA RecordedAreEnded ==
  ASSUME DInv, NEW e \in Event, Settled(e)
  PROVE  {Record(e, k) : k \in event[e].to} = Delivery!Ended(e)
<1>1. \A k \in event[e].to : k \in Endpoint /\ ~Again(loop[e][k])
  BY EventFields DEF DInv, Settled
<1>2. {Record(e, k) : k \in event[e].to} \subseteq Delivery!Ended(e)
  BY KeptAreEnded
<1>3. ASSUME NEW k \in Delivery!Called(e)
      PROVE  <<k, Delivery!Outcome(answers[e][k])>> \in {Record(e, j) : j \in event[e].to}
  BY <1>1, <1>3, CalledIsFound, RecordIsOutcome
<1> QED  BY <1>2, <1>3 DEF Delivery!Ended

(* The variables of EventDelivery, as this module gives them. *)
LEMMA DeliveryIs == UNCHANGED <<phaseBar, answers, records>> => Delivery!vars' = Delivery!vars
  BY DEF Delivery!vars, phaseBar

(* An event that is not being called has not been called. *)
LEMMA NotCalledYet ==
  ASSUME DInv, NEW e \in Event, event[e].stage \in {"find", "refuse", "raise"}
  PROVE  Delivery!Called(e) = {} /\ phaseBar[e] = "open"
<1>1. \A k \in Endpoint : answers[e][k] = <<>>  BY DEF DInv, Heard
<1>2. Underway(e)  BY DEF Underway
<1> QED  BY <1>1, <1>2 DEF Delivery!Called, phaseBar

LEMMA EmitEmits ==
  ASSUME DInv, NEW e \in Event, Emit(e)
  PROVE  Delivery!Emit(e)
<1>1. phaseBar' = [phaseBar EXCEPT ![e] = "open"]
  BY PhaseMoves DEF DInv, Emit
<1>2. phaseBar[e] = "new"  BY Phases DEF DInv, Emit
<1> QED  BY <1>1, <1>2 DEF Emit, Delivery!Emit, phaseBar

LEMMA FoundStutters ==
  ASSUME DInv, NEW e \in Event, FindSubscribed(e)
  PROVE  UNCHANGED <<phaseBar, answers, records>>
<1>1. \/ Moves(e, "refuse", Subscribed) \/ Moves(e, "call", Subscribed)
      \/ Moves(e, "raise", {})
  BY DEF FindSubscribed
<1>2. phaseBar' = [phaseBar EXCEPT ![e] = "open"]
  BY <1>1, PhaseMoves DEF DInv
<1>3. phaseBar[e] = "open"  BY NotCalledYet DEF FindSubscribed
<1>4. phaseBar' = phaseBar  BY <1>2, <1>3 DEF phaseBar
<1> QED  BY <1>4 DEF FindSubscribed

LEMMA FailureCloses ==
  ASSUME DInv, NEW e \in Event, RecordFailure(e)
  PROVE  \/ Delivery!Close(e) \/ Delivery!Forget(e)
         \/ UNCHANGED <<phaseBar, answers, records>>
<1>1. Delivery!Called(e) = {} /\ phaseBar[e] = "open"
  BY NotCalledYet DEF RecordFailure
<1>2. CASE Moves(e, "over", {})
  <2>1. phaseBar' = [phaseBar EXCEPT ![e] = "over"]  BY <1>2, PhaseMoves DEF DInv
  <2>2. \/ records' = [records EXCEPT ![e] = {<<0, "failed">>}]
        \/ records' = records
    BY DEF RecordFailure
  <2>3. UNCHANGED answers  BY DEF RecordFailure
  <2> QED
    BY <1>1, <2>1, <2>2, <2>3
       DEF Delivery!Close, Delivery!Forget, Delivery!Nobody, phaseBar
<1>3. CASE Moves(e, "raise", {}) /\ records' = records
  <2>1. phaseBar' = [phaseBar EXCEPT ![e] = "open"]  BY <1>3, PhaseMoves DEF DInv
  <2>2. phaseBar' = phaseBar  BY <1>1, <2>1 DEF phaseBar
  <2> QED  BY <1>3, <2>2 DEF RecordFailure
<1> QED  BY <1>2, <1>3 DEF RecordFailure

LEMMA CallAttempts ==
  ASSUME DInv, NEW e \in Event, NEW k \in Endpoint, NEW a \in Answer, CallWebhookUrl(e, k, a)
  PROVE  Delivery!Attempt(e, k, a)
<1>1. /\ loop[e][k] \in Loop /\ answers[e][k] \in Seq(Answer)
      /\ Tells(loop[e][k], answers[e][k])
  BY EventFields DEF DInv, Heard
<1>2. Delivery!Retriable(answers[e][k])
  BY <1>1, TellsWhenAgain DEF CallWebhookUrl
<1>3. Underway(e)  BY DEF CallWebhookUrl, Underway
<1>4. phaseBar[e] = "open" /\ phaseBar' = phaseBar
  BY <1>3 DEF phaseBar, CallWebhookUrl, Underway
<1> QED  BY <1>2, <1>4 DEF CallWebhookUrl, Delivery!Attempt, phaseBar

LEMMA ResultsClose ==
  ASSUME DInv, NEW e \in Event, RecordResults(e)
  PROVE  Delivery!Close(e)
<1>1. Settled(e) /\ Moves(e, "over", {}) /\ UNCHANGED answers  BY DEF RecordResults
<1>2. phaseBar' = [phaseBar EXCEPT ![e] = "over"]  BY <1>1, PhaseMoves DEF DInv
<1>3. phaseBar[e] = "open"  BY <1>1 DEF Settled, Underway, phaseBar
<1>4. Delivery!Called(e) = event[e].to /\ event[e].to # {}
  BY <1>1, CalledIsFound DEF DInv, Heard, Settled
<1>5. \A k \in Delivery!Called(e) : ~Delivery!Retriable(answers[e][k])
  <2>1. event[e].to \subseteq Endpoint  BY EventFields DEF DInv
  <2> QED  BY <1>1, <1>4, <2>1, RecordIsOutcome DEF Settled
<1>6. records' = [records EXCEPT ![e] = Delivery!Ended(e)]
  BY <1>1, RecordedAreEnded DEF RecordResults
<1> QED  BY <1>1, <1>2, <1>3, <1>4, <1>5, <1>6 DEF Delivery!Close, phaseBar

(* The end of the process loses the events that are under way. *)
LEMMA EndLoses ==
  ASSUME DInv, ProcessEnds, records' = [d \in Event |-> records'[d]],
         \A d \in Event : ~Underway(d) => records'[d] = records[d],
         \A d \in Event : Underway(d) => records'[d] \subseteq Delivery!Ended(d)
  PROVE  \E lost \in SUBSET Event : Delivery!Restart(lost)
<1>0. PICK lost \in SUBSET Event : lost = {d \in Event : Underway(d)}  OBVIOUS
<1>1. \A d \in lost : phaseBar[d] = "open" /\ records'[d] \subseteq Delivery!Ended(d)
  BY <1>0 DEF phaseBar
<1>2. phaseBar' = [d \in Event |-> IF d \in lost THEN "over" ELSE phaseBar[d]]
  <2>1. \A d \in lost : event'[d].stage = "over"  BY <1>0 DEF ProcessEnds
  <2>2. \A d \in Event \ lost : event'[d] = event[d]  BY <1>0 DEF ProcessEnds
  <2> QED  BY <1>0, <2>1, <2>2 DEF phaseBar, Underway
<1>3. records' = [d \in Event |-> IF d \in lost THEN records'[d] ELSE records[d]]
  <2>1. \A d \in Event : records'[d] = IF d \in lost THEN records'[d] ELSE records[d]
    BY <1>0
  <2> QED  BY <2>1
<1>4. Delivery!Restart(lost)
  BY <1>1, <1>2, <1>3 DEF ProcessEnds, Delivery!Restart, phaseBar
<1> QED  BY <1>4

LEMMA UnderwayUnrecorded ==
  ASSUME DInv, NEW d \in Event, Underway(d)
  PROVE  records[d] = {}
  BY EventFields DEF DInv, Heard, Underway, EventStages

LEMMA RestartLoses ==
  ASSUME DInv, Restart
  PROVE  \E lost \in SUBSET Event : Delivery!Restart(lost)
<1>1. ProcessEnds /\ records' = records  BY DEF Restart
<1>2. records = [d \in Event |-> records[d]]  BY SameTypes DEF DInv, IInv, EventTypes
<1> QED  BY <1>1, <1>2, UnderwayUnrecorded, EndLoses

LEMMA RecordingLoses ==
  ASSUME DInv, NEW e \in Event, RecordingFails(e)
  PROVE  \E lost \in SUBSET Event : Delivery!Restart(lost)
<1>1. Settled(e) /\ ProcessEnds /\ Underway(e)
  BY DEF RecordingFails, Settled, Underway
<1>2. PICK kept \in SUBSET event[e].to :
        records' = [records EXCEPT ![e] = {Record(e, k) : k \in kept}]
  BY DEF RecordingFails
<1>3. records \in [Event -> SUBSET ((0 .. MaxRequests) \X {"success", "failed"})]
  BY SameTypes DEF DInv, IInv, EventTypes
<1>4. records'[e] \subseteq Delivery!Ended(e)
  BY <1>1, <1>2, <1>3, KeptAreEnded
<1>5. \A d \in Event : d # e => records'[d] = records[d]  BY <1>2, <1>3
<1>6. \A d \in Event : Underway(d) => records'[d] \subseteq Delivery!Ended(d)
  BY <1>4, <1>5, UnderwayUnrecorded
<1>7. records' = [d \in Event |-> records'[d]]  BY <1>2, <1>3
<1> QED  BY <1>1, <1>5, <1>6, <1>7, EndLoses

LEMMA DeliveryStep ==
  ASSUME DInv, [Next]_vars
  PROVE  [Delivery!Next]_(Delivery!vars)
<1>1. ASSUME UNCHANGED delivery PROVE UNCHANGED <<phaseBar, answers, records>>
  BY <1>1 DEF delivery, phaseBar, Underway
<1>2. ASSUME NEW r \in Request,
             RequestStep(r) \/ RequestFails(r) \/ \E op \in Operation : Begin(r, op)
      PROVE  UNCHANGED delivery
  BY <1>2 DEF RequestStep, ReadAccount, InstallConnector, CallsReturned, Authenticate,
     DeleteConnector, FindSubscription, WriteSubscription, CyclrCall, Begin, RequestFails, Fails
<1>3. ASSUME NEW c \in Cycle, RunsOnce(c) PROVE UNCHANGED delivery
  BY <1>3 DEF RunsOnce
<1>4. CASE UNCHANGED vars
  <2>1. UNCHANGED delivery  BY <1>4 DEF vars
  <2> QED  BY <1>1, <2>1, DeliveryIs
<1>5. ASSUME NEW e \in Event, Emit(e) PROVE Delivery!Next
  BY <1>5, EmitEmits DEF Delivery!Next
<1>6. ASSUME NEW e \in Event, EventStep(e)
      PROVE  Delivery!Next \/ UNCHANGED <<phaseBar, answers, records>>
  <2>1. CASE FindSubscribed(e)  BY <2>1, FoundStutters
  <2>2. CASE RecordFailure(e)
    BY <2>2, FailureCloses DEF Delivery!Next, Delivery!Step
  <2>3. CASE RecordResults(e)
    BY <2>3, ResultsClose DEF Delivery!Next, Delivery!Step
  <2>4. ASSUME NEW k \in Endpoint, NEW a \in Answer, CallWebhookUrl(e, k, a)
        PROVE  Delivery!Next
    <3>1. Delivery!Attempt(e, k, a)  BY <2>4, CallAttempts
    <3> QED  BY <3>1 DEF Delivery!Next, Delivery!Step, Delivery!Answer, Answer
  <2> QED  BY <1>6, <2>1, <2>2, <2>3, <2>4 DEF EventStep
<1>7. ASSUME NEW e \in Event, RecordingFails(e) PROVE Delivery!Next
  BY <1>7, RecordingLoses DEF Delivery!Next
<1>8. CASE Restart
  BY <1>8, RestartLoses DEF Delivery!Next
<1>9. CASE Next
  <2>1. UNCHANGED delivery \/ Restart
        \/ \E e \in Event : Emit(e) \/ EventStep(e) \/ RecordingFails(e)
    BY <1>2, <1>3, <1>9 DEF Next
  <2>2. CASE UNCHANGED delivery  BY <1>1, <2>2, DeliveryIs
  <2>3. ASSUME NEW e \in Event, Emit(e) \/ RecordingFails(e)
        PROVE  [Delivery!Next]_(Delivery!vars)
    BY <1>5, <1>7, <2>3
  <2>4. ASSUME NEW e \in Event, EventStep(e) PROVE [Delivery!Next]_(Delivery!vars)
    BY <1>6, <2>4, DeliveryIs
  <2> QED  BY <1>8, <2>1, <2>2, <2>3, <2>4
<1> QED  BY <1>4, <1>9

(* The safety of DeliversOnce: whatever requests, failures and restarts     *)
(* interleave, no endpoint hears of an event again after it took it or left *)
(* it unanswered, none more than three times, and the records of an event   *)
(* tell how its calls ended.                                                *)
THEOREM DeliversSafely == Spec => Delivery!Init /\ [][Delivery!Next]_(Delivery!vars)
<1>1. Init => Delivery!Init
  BY DEF Init, Delivery!Init, Underway
<1>2. Init => DInv
  BY InitInv, InitHeard DEF DInv
<1>3. DInv /\ [Next]_vars => DInv'
  BY DInvStep
<1>4. DInv /\ [Next]_vars => [Delivery!Next]_(Delivery!vars)
  BY DeliveryStep
<1> QED  BY <1>1, <1>2, <1>3, <1>4, PTL DEF Spec

-----------------------------------------------------------------------------
(* What an answered request has done.                                       *)

(* A request that overlapped no other is the only one, and its answer       *)
(* stands while none is in progress.                                        *)
NoOther == \A r, q \in Request : InProgress(r) /\ InProgress(q) /\ req[r].alone => q = r
AnsweredIsIdle == answered # "none" => \A r \in Request : ~InProgress(r)
RacedIsKnown == \A r \in Request : InProgress(r) /\ ~req[r].alone => raced

(* Only requests that overlap leave two subscriptions.                      *)
OneSubscription == ~raced => Len(docs) <= 1

(* What an operation asks of the cycles, but for the calls still to return. *)
Carried(op, todo, cyc) ==
  /\ op = "add" => \A t \in Template :
       <<t, 0>> \in todo \/ \E c \in Cycle : c[1] = t /\ cyc[c] # "absent"
  /\ op = "activate" => \A c \in Cycle :
       c \in todo \/ c[1] \in Once \/ cyc[c] \in {"absent", "active"}
  /\ op = "stop" => \A c \in Cycle : c \in todo \/ cyc[c] # "active"
  /\ op = "remove" => \A c \in Cycle : c \in todo \/ cyc[c] = "absent"

(* How far a request that met no other has come.                            *)
Proceeds(w, cyc, con, n) ==
  /\ w.stage \in {"install", "authenticate"} => w.op = "add"
  /\ w.stage = "install" => w.todo = Template \X {0}
  /\ w.stage \in {"uninstall", "find", "write"} => w.op # "add"
  /\ w.op = "add" /\ w.stage \in {"calls", "authenticate"} => con # "absent"
  /\ w.stage = "calls" /\ ~w.failed => Carried(w.op, w.todo, cyc)
  /\ w.stage \in {"authenticate", "uninstall", "find", "write"} => Carried(w.op, {}, cyc)
  /\ w.stage = "write" => w.found = n /\ NeedsWrite(w.op, w.found)

AloneProceeds ==
  \A r \in Request : InProgress(r) /\ req[r].alone =>
    Proceeds(req[r], cycle, connector, Len(docs))

EffectInv ==
  /\ NoOther /\ AnsweredIsIdle /\ RacedIsKnown /\ OneSubscription /\ AloneProceeds
  /\ RequestTakesEffect

LEMMA InitEffect == Init => EffectInv
<1> SUFFICES ASSUME Init PROVE EffectInv  OBVIOUS
<1>1. \A r \in Request : ~InProgress(r)  BY DEF Init, InProgress, Idle
<1>2. answered = "none" /\ docs = <<>>  BY DEF Init
<1> QED
  BY <1>1, <1>2 DEF EffectInv, NoOther, AnsweredIsIdle, RacedIsKnown, OneSubscription,
     AloneProceeds, RequestTakesEffect

(* Steps that leave the requests and their account, but that a cycle may    *)
(* stop that runs once.                                                     *)
LEMMA AccountKept ==
  ASSUME IInv, EffectInv, UNCHANGED <<connector, docs, req, history>>,
         \A c \in Cycle : \/ cycle'[c] = cycle[c]
                          \/ c[1] \in Once /\ cycle[c] = "active" /\ cycle'[c] = "stopped"
  PROVE  EffectInv'
<1> USE DEF EffectInv
<1>1. \A r \in Request : InProgress(r)' = InProgress(r)  BY DEF InProgress
<1>2. NoOther' /\ AnsweredIsIdle' /\ RacedIsKnown' /\ OneSubscription'
  BY <1>1 DEF history, NoOther, AnsweredIsIdle, RacedIsKnown, OneSubscription
<1>3. \A op, todo : Carried(op, todo, cycle) => Carried(op, todo, cycle')
  <2> SUFFICES ASSUME NEW op, NEW todo, Carried(op, todo, cycle)
               PROVE  Carried(op, todo, cycle')
    OBVIOUS
  <2>1. op = "add" => \A t \in Template :
          <<t, 0>> \in todo \/ \E c \in Cycle : c[1] = t /\ cycle'[c] # "absent"
    <3> SUFFICES ASSUME op = "add", NEW t \in Template, <<t, 0>> \notin todo
                 PROVE  \E c \in Cycle : c[1] = t /\ cycle'[c] # "absent"
      OBVIOUS
    <3>1. PICK c \in Cycle : c[1] = t /\ cycle[c] # "absent"  BY DEF Carried
    <3>2. cycle'[c] # "absent"  BY <3>1
    <3> QED  BY <3>1, <3>2
  <2>2. op = "activate" => \A c \in Cycle :
          c \in todo \/ c[1] \in Once \/ cycle'[c] \in {"absent", "active"}
    BY DEF Carried
  <2>3. op = "stop" => \A c \in Cycle : c \in todo \/ cycle'[c] # "active"
    BY DEF Carried
  <2>4. op = "remove" => \A c \in Cycle : c \in todo \/ cycle'[c] = "absent"
    BY DEF Carried
  <2> QED  BY <2>1, <2>2, <2>3, <2>4 DEF Carried
<1>4. AloneProceeds'
  <2> SUFFICES ASSUME NEW r \in Request, InProgress(r), req[r].alone
               PROVE  Proceeds(req[r], cycle', connector, Len(docs))
    BY <1>1 DEF AloneProceeds
  <2>1. Proceeds(req[r], cycle, connector, Len(docs))  BY DEF AloneProceeds
  <2> QED  BY <1>3, <2>1 DEF Proceeds
<1>5. RequestTakesEffect'
  <2>1. answered' = answered /\ raced' = raced /\ Subscribed' = Subscribed
    BY DEF history, Subscribed
  <2>2. Present' = Present  BY DEF Present
  <2>3. answered = "add" => \A t \in Template : \E c \in Present : c[1] = t
    BY DEF RequestTakesEffect
  <2>4. answered = "activate" => \A c \in Present : c[1] \notin Once => cycle'[c] = "active"
    BY DEF RequestTakesEffect, Present
  <2>5. answered = "stop" => \A c \in Cycle : cycle'[c] # "active"
    BY DEF RequestTakesEffect
  <2> QED  BY <2>1, <2>2, <2>3, <2>4, <2>5 DEF RequestTakesEffect
<1> QED  BY <1>2, <1>4, <1>5

(* A step of one request.  If it overlapped no other, no other is in        *)
(* progress; if it did, no other is alone.                                  *)
LEMMA RequestMoves ==
  ASSUME IInv, EffectInv, NEW r \in Request, InProgress(r), NEW w \in Work \cup {Idle},
         req' = [req EXCEPT ![r] = w], raced' = raced,
         w # Idle => w.alone = req[r].alone /\ answered' = "none",
         answered' # "none" => req[r].alone,
         w # Idle /\ req[r].alone => Proceeds(w, cycle', connector', Len(docs')),
         OneSubscription', RequestTakesEffect'
  PROVE  EffectInv'
<1> USE DEF EffectInv
<1>1. /\ req'[r] = w
      /\ \A q \in Request \ {r} : req'[q] = req[q]
  BY DEF IInv, TypeOK
<1>2. InProgress(r)' <=> w # Idle
  BY <1>1, IdleIsNotWork, WorkFields DEF InProgress
<1>3. \A q \in Request \ {r} : InProgress(q)' <=> InProgress(q)
  BY <1>1 DEF InProgress
<1>4. \A q \in Request \ {r} : InProgress(q) => ~req[q].alone /\ ~req[r].alone
  <2> SUFFICES ASSUME NEW q \in Request \ {r}, InProgress(q)
               PROVE  ~req[q].alone /\ ~req[r].alone
    OBVIOUS
  <2>1. req[q].alone => r = q  BY DEF NoOther
  <2>2. req[r].alone => q = r  BY DEF NoOther
  <2> QED  BY <2>1, <2>2
<1>5. NoOther'
  <2> SUFFICES ASSUME NEW p \in Request, NEW q \in Request,
                      InProgress(p)', InProgress(q)', req'[p].alone
               PROVE  q = p
    BY DEF NoOther
  <2>1. CASE p # r  BY <1>1, <1>3, <1>4, <2>1
  <2>2. CASE p = r /\ q # r  BY <1>1, <1>2, <1>3, <1>4, <2>2
  <2> QED  BY <2>1, <2>2
<1>6. AnsweredIsIdle'  BY <1>2, <1>3, <1>4 DEF AnsweredIsIdle
<1>7. RacedIsKnown'
  <2> SUFFICES ASSUME NEW q \in Request, InProgress(q)', ~req'[q].alone PROVE raced'
    BY DEF RacedIsKnown
  <2>1. CASE q = r
    <3>1. ~req[r].alone  BY <1>1, <1>2, <2>1
    <3> QED  BY <3>1 DEF RacedIsKnown
  <2>2. CASE q # r  BY <1>1, <1>3, <2>2 DEF RacedIsKnown
  <2> QED  BY <2>1, <2>2
<1>8. AloneProceeds'
  <2> SUFFICES ASSUME NEW q \in Request, InProgress(q)', req'[q].alone
               PROVE  Proceeds(req'[q], cycle', connector', Len(docs'))
    BY DEF AloneProceeds
  <2>1. q = r  BY <1>1, <1>3, <1>4
  <2>2. w # Idle /\ req[r].alone  BY <1>1, <1>2, <2>1
  <2> QED  BY <1>1, <2>1, <2>2
<1> QED  BY <1>5, <1>6, <1>7, <1>8

LEMMA BeginEffect ==
  ASSUME IInv, EffectInv, NEW r \in Request, NEW op \in Operation, Begin(r, op)
  PROVE  EffectInv'
<1> USE DEF EffectInv
<1> DEFINE others == {q \in Request : InProgress(q)}
           new == [op |-> op, stage |-> "read", todo |-> {}, failed |-> FALSE,
                   connectors |-> FALSE, found |-> 0, alone |-> others = {}]
<1>1. /\ req' = [q \in Request |-> IF q = r THEN new
                                  ELSE IF q \in others THEN [req[q] EXCEPT !.alone = FALSE]
                                  ELSE req[q]]
      /\ raced' = (raced \/ others # {}) /\ answered' = "none" /\ docs' = docs
      /\ ~InProgress(r)
  BY DEF Begin
<1>2. /\ new.stage = "read" /\ (new.alone <=> others = {})
  OBVIOUS
<1> HIDE DEF new
<1>3. req'[r] = new  BY <1>1
<1>4. \A q \in others : q # r /\ ~req'[q].alone
  <2> SUFFICES ASSUME NEW q \in others PROVE q # r /\ ~req'[q].alone  OBVIOUS
  <2>1. req[q] \in Work  BY InProgressIsWork DEF IInv
  <2>2. q # r  BY <1>1
  <2>3. req'[q] = [req[q] EXCEPT !.alone = FALSE]  BY <1>1, <2>2
  <2> QED  BY <2>1, <2>2, <2>3 DEF Work
<1>5. \A q \in Request : q # r /\ q \notin others => ~InProgress(q)'
  BY <1>1 DEF InProgress
<1>6. NoOther'
  <2> SUFFICES ASSUME NEW p \in Request, NEW q \in Request,
                      InProgress(p)', InProgress(q)', req'[p].alone
               PROVE  q = p
    BY DEF NoOther
  <2>1. p = r /\ others = {}  BY <1>2, <1>3, <1>4, <1>5
  <2> QED  BY <1>5, <2>1
<1>7. RacedIsKnown'
  <2> SUFFICES ASSUME NEW q \in Request, InProgress(q)', ~req'[q].alone PROVE raced'
    BY DEF RacedIsKnown
  <2>1. others # {}  BY <1>2, <1>3, <1>5
  <2> QED  BY <1>1, <2>1
<1>8. AloneProceeds'
  <2> SUFFICES ASSUME NEW q \in Request, InProgress(q)', req'[q].alone
               PROVE  Proceeds(req'[q], cycle', connector', Len(docs'))
    BY DEF AloneProceeds
  <2>1. q = r  BY <1>4, <1>5
  <2>2. req'[q].stage = "read"  BY <1>2, <1>3, <2>1
  <2> QED  BY <2>2 DEF Proceeds
<1>9. AnsweredIsIdle' /\ RequestTakesEffect'  BY <1>1 DEF AnsweredIsIdle, RequestTakesEffect
<1>10. OneSubscription'  BY <1>1 DEF OneSubscription
<1> QED  BY <1>6, <1>7, <1>8, <1>9, <1>10

(* What one call adds to what is carried out.                               *)
LEMMA CallCarries ==
  ASSUME IInv, NEW op \in Operation, NEW todo \in SUBSET Call, NEW c \in todo,
         Carried(op, todo, cycle), Target(op, c) # {}, Succeeds(op, c)
  PROVE  Carried(op, todo \ {c}, Called(op, Target(op, c)))
<1> DEFINE T == Target(op, c)
           new == Called(op, T)
<1>1. \A d \in Cycle : new[d] = IF d \in T /\ (op = "add" \/ cycle[d] # "absent")
                                THEN Result(op) ELSE cycle[d]
  BY DEF Called
<1>2. op # "add" => T = {c}  BY DEF Target
<1>a. op = "add" => T = NextCopy(c[1])  BY DEF Target
<1> HIDE DEF new, T
<1>3. op = "add" => \A t \in Template :
        <<t, 0>> \in todo \ {c} \/ \E d \in Cycle : d[1] = t /\ new[d] # "absent"
  <2> SUFFICES ASSUME op = "add", NEW t \in Template, <<t, 0>> \notin todo \ {c}
               PROVE  \E d \in Cycle : d[1] = t /\ new[d] # "absent"
    OBVIOUS
  <2>0. Result(op) = "stopped"  BY DEF Result
  <2>1. \A d \in Cycle : cycle[d] # "absent" => new[d] # "absent"
    BY <1>1, <2>0
  <2>2. CASE <<t, 0>> \notin todo
    <3>1. PICK d \in Cycle : d[1] = t /\ cycle[d] # "absent"  BY <2>2 DEF Carried
    <3> QED  BY <2>1, <3>1
  <2>3. CASE <<t, 0>> = c
    <3>1. c[1] = t  BY <2>3
    <3>2. T = NextCopy(t) /\ T # {}  BY <1>a, <3>1 DEF T
    <3>3. PICK d \in T : TRUE  BY <3>2
    <3>4. d \in Cycle /\ d[1] = t  BY <3>2 DEF NextCopy
    <3>5. new[d] = "stopped"  BY <1>1, <2>0, <3>3, <3>4
    <3> QED  BY <3>4, <3>5
  <2> QED  BY <2>2, <2>3
<1>4. op = "activate" => \A d \in Cycle :
        d \in todo \ {c} \/ d[1] \in Once \/ new[d] \in {"absent", "active"}
  BY <1>1, <1>2 DEF Carried, Result
<1>5. op = "stop" => \A d \in Cycle : d \in todo \ {c} \/ new[d] # "active"
  <2> SUFFICES ASSUME op = "stop", NEW d \in Cycle, d \notin todo \ {c}
               PROVE  new[d] # "active"
    OBVIOUS
  <2>1. Result(op) = "stopped"  BY DEF Result
  <2>2. CASE d = c  BY <1>1, <1>2, <2>1, <2>2
  <2>3. CASE d # c  BY <1>1, <1>2, <2>3 DEF Carried
  <2> QED  BY <2>2, <2>3
<1>6. op = "remove" => \A d \in Cycle : d \in todo \ {c} \/ new[d] = "absent"
  <2> SUFFICES ASSUME op = "remove", NEW d \in Cycle, d \notin todo \ {c}
               PROVE  new[d] = "absent"
    OBVIOUS
  <2>1. Result(op) = "absent"  BY DEF Result
  <2>2. CASE d = c  BY <1>1, <1>2, <2>1, <2>2
  <2>3. CASE d # c  BY <1>1, <1>2, <2>3 DEF Carried
  <2> QED  BY <2>2, <2>3
<1> QED  BY <1>3, <1>4, <1>5, <1>6 DEF Carried, new, T

LEMMA CyclrCallEffect ==
  ASSUME IInv, EffectInv, NEW r \in Request, InProgress(r), NEW c \in Call, CyclrCall(r, c)
  PROVE  EffectInv'
<1> DEFINE w == req[r]
<1>1. w \in Work  BY InProgressIsWork DEF IInv
<1>2. /\ w.op \in Operation /\ w.todo \in SUBSET Call /\ w.failed \in BOOLEAN
      /\ w.alone \in BOOLEAN
  BY <1>1, WorkFields
<1>3. /\ w.stage = "calls" /\ c \in w.todo /\ Target(w.op, c) # {}
      /\ UNCHANGED <<connector, docs, raced, answered>>
      /\ \/ /\ cycle' = Called(w.op, Target(w.op, c))
            /\ req' = [req EXCEPT ![r] =
                 [w EXCEPT !.todo = @ \ {c}, !.failed = @ \/ ~Succeeds(w.op, c)]]
         \/ req' = [req EXCEPT ![r] = [w EXCEPT !.todo = @ \ {c}, !.failed = TRUE]]
  BY DEF CyclrCall, Goes
<1>4. answered' = "none"  BY <1>3 DEF EffectInv, AnsweredIsIdle
<1>5. OneSubscription' /\ RequestTakesEffect'
  BY <1>3, <1>4 DEF EffectInv, OneSubscription, RequestTakesEffect
<1>6. \A b \in BOOLEAN : LET v == [w EXCEPT !.todo = @ \ {c}, !.failed = b] IN
        /\ v \in Work /\ v.op = w.op /\ v.stage = "calls" /\ v.todo = w.todo \ {c}
        /\ v.failed = b /\ v.alone = w.alone
  BY <1>1, <1>2, <1>3 DEF Work
<1>7. w.alone => Proceeds(w, cycle, connector, Len(docs))
  BY DEF EffectInv, AloneProceeds
<1> HIDE DEF w
<1>8. ASSUME NEW b \in BOOLEAN, req' = [req EXCEPT ![r] = [w EXCEPT !.todo = @ \ {c}, !.failed = b]],
             ~b => /\ cycle' = Called(w.op, Target(w.op, c))
                   /\ ~w.failed /\ Succeeds(w.op, c)
      PROVE  EffectInv'
  <2>1. PICK v \in Work : v = [w EXCEPT !.todo = @ \ {c}, !.failed = b]  BY <1>6
  <2>2. /\ v.op = w.op /\ v.stage = "calls" /\ v.todo = w.todo \ {c}
        /\ v.failed = b /\ v.alone = w.alone
    BY <1>6, <2>1
  <2>3. req' = [req EXCEPT ![r] = v]  BY <1>8, <2>1
  <2>4. w.alone /\ ~b => Carried(v.op, v.todo, cycle')
    <3> SUFFICES ASSUME w.alone, ~b PROVE Carried(v.op, v.todo, cycle')  OBVIOUS
    <3>1. Carried(w.op, w.todo, cycle)  BY <1>3, <1>7, <1>8 DEF Proceeds
    <3>2. Carried(w.op, w.todo \ {c}, Called(w.op, Target(w.op, c)))
      BY <1>2, <1>3, <1>8, <3>1, CallCarries
    <3> QED  BY <1>8, <2>2, <3>2
  <2>5. w.alone => Proceeds(v, cycle', connector', Len(docs'))
    BY <1>3, <1>7, <2>2, <2>4 DEF Proceeds
  <2>6. v # Idle  BY IdleIsNotWork
  <2> QED  BY <1>3, <1>4, <1>5, <2>2, <2>3, <2>5, <2>6, RequestMoves DEF w
<1>9. PICK b \in BOOLEAN : b = (w.failed \/ ~Succeeds(w.op, c))
  BY <1>2 DEF Succeeds
<1>10. [w EXCEPT !.todo = @ \ {c}, !.failed = @ \/ ~Succeeds(w.op, c)]
         = [w EXCEPT !.todo = @ \ {c}, !.failed = b]
  BY <1>1, <1>9 DEF Work
<1>11. CASE /\ cycle' = Called(w.op, Target(w.op, c))
            /\ req' = [req EXCEPT ![r] = [w EXCEPT !.todo = @ \ {c}, !.failed = b]]
  <2>1. ~b => ~w.failed /\ Succeeds(w.op, c)  BY <1>9
  <2> QED  BY <1>8, <1>11, <2>1
<1>12. CASE req' = [req EXCEPT ![r] = [w EXCEPT !.todo = @ \ {c}, !.failed = TRUE]]
  BY <1>8, <1>12
<1> QED  BY <1>3, <1>10, <1>11, <1>12 DEF w

(* Subscriptions after a write that knew their number.                      *)
LEMMA WrittenSubscription ==
  ASSUME IInv, NEW op \in Operation, docs' = Written(op, Len(docs)), NeedsWrite(op, Len(docs))
  PROVE  /\ op = "activate" => Subscribed' # {}
         /\ op # "activate" /\ Len(docs) <= 1 => Subscribed' = {}
         /\ Len(docs) <= 1 => Len(docs') <= 1
<1>1. docs \in Seq(BOOLEAN)  BY DEF IInv, TypeOK
<1>2. PICK b \in BOOLEAN : b = (op = "activate")  OBVIOUS
<1>3. CASE Len(docs) = 1
  <2>1. docs' = [docs EXCEPT ![1] = b]  BY <1>2, <1>3 DEF Written
  <2>2. /\ DOMAIN docs' = {1} /\ docs'[1] = b /\ Len(docs') = 1
    <3>1. docs \in [1 .. 1 -> BOOLEAN] /\ DOMAIN docs = 1 .. 1  BY <1>1, <1>3
    <3>2. docs' \in [1 .. 1 -> BOOLEAN] /\ docs'[1] = b  BY <2>1, <3>1
    <3>3. Len(docs') = 1
      <4>1. Len([docs EXCEPT ![1] = b]) = Len(docs)  BY <1>1
      <4> QED  BY <1>3, <2>1, <4>1
    <3> QED  BY <3>2, <3>3
  <2>3. Subscribed' = IF b THEN {1} ELSE {}  BY <2>2 DEF Subscribed
  <2>4. op = "activate" => Subscribed' # {}  BY <1>2, <2>3
  <2>5. op # "activate" => Subscribed' = {}  BY <1>2, <2>3
  <2>6. Len(docs') <= 1  BY <2>2
  <2> QED  BY <2>4, <2>5, <2>6
<1>4. CASE Len(docs) # 1
  <2>1. op = "activate"  BY <1>4 DEF NeedsWrite
  <2>2. docs' = Append(docs, TRUE)  BY <1>4 DEF Written
  <2>3. Len(docs) \in Nat /\ Len(docs') = Len(docs) + 1 /\ docs'[Len(docs')] = TRUE
        /\ Len(docs') \in DOMAIN docs'
    BY <1>1, <2>2
  <2>4. Len(docs') \in Subscribed'  BY <2>3 DEF Subscribed
  <2>5. Len(docs) <= 1 => Len(docs') <= 1
    <3>1. PICK n \in Nat : n = Len(docs)  BY <2>3
    <3>2. n # 1 /\ n <= 1 => n + 1 <= 1  OBVIOUS
    <3> QED  BY <1>4, <2>3, <3>1, <3>2
  <2> QED  BY <2>1, <2>4, <2>5
<1> QED  BY <1>3, <1>4

(* A request that ends without an error has carried out what it promised.   *)
LEMMA EndsEffect ==
  ASSUME IInv, EffectInv, NEW r \in Request, InProgress(r), EndsOK(r),
         UNCHANGED <<cycle, raced>>,
         req[r].stage \in {"authenticate", "find", "write"},
         req[r].alone /\ req[r].op = "add" => connector' = "authenticated",
         req[r].alone /\ req[r].op = "activate" => Subscribed' # {},
         req[r].alone /\ req[r].op \in {"stop", "remove"} /\ ~raced => Subscribed' = {},
         OneSubscription'
  PROVE  EffectInv'
<1> DEFINE w == req[r]
<1>1. w.op \in Operation /\ w.alone \in BOOLEAN
  BY InProgressIsWork, WorkFields DEF IInv
<1>2. /\ req' = [req EXCEPT ![r] = Idle]
      /\ answered' = IF w.alone THEN w.op ELSE answered
  BY DEF EndsOK
<1>3. answered = "none"  BY DEF EffectInv, AnsweredIsIdle
<1>4. w.alone => Carried(w.op, {}, cycle)
  BY DEF EffectInv, AloneProceeds, Proceeds
<1>5. RequestTakesEffect'
  <2>1. CASE ~w.alone  BY <1>2, <1>3, <2>1 DEF RequestTakesEffect
  <2>2. CASE w.alone
    <3>0. answered' = w.op /\ Present' = Present  BY <1>2, <2>2 DEF Present
    <3>1. w.op = "add" => \A t \in Template : \E c \in Present : c[1] = t
      BY <1>4, <2>2 DEF Carried, Present
    <3>2. w.op = "activate" => \A c \in Present : c[1] \notin Once => cycle[c] = "active"
      BY <1>4, <2>2 DEF Carried, Present
    <3>3. w.op = "stop" => \A c \in Cycle : cycle[c] # "active"
      BY <1>4, <2>2 DEF Carried
    <3>4. w.op = "remove" => Present = {}
      BY <1>4, <2>2 DEF Carried, Present
    <3> QED  BY <2>2, <3>0, <3>1, <3>2, <3>3, <3>4 DEF RequestTakesEffect
  <2> QED  BY <2>1, <2>2
<1>6. answered' # "none" => w.alone  BY <1>2, <1>3
<1> QED  BY <1>2, <1>5, <1>6, RequestMoves

LEMMA RequestEffect ==
  ASSUME IInv, EffectInv, NEW r \in Request, RequestStep(r) \/ RequestFails(r)
  PROVE  EffectInv'
<1> DEFINE w == req[r]
<1>1. InProgress(r)
  BY DEF RequestStep, RequestFails, InProgress, ReadAccount, InstallConnector, CallsReturned,
     Authenticate, DeleteConnector, FindSubscription, WriteSubscription, CyclrCall
<1>2. w \in Work  BY <1>1, InProgressIsWork DEF IInv
<1>3. /\ w.op \in Operation /\ w.todo \in SUBSET Call /\ w.failed \in BOOLEAN
      /\ w.alone \in BOOLEAN
  BY <1>2, WorkFields
<1>4. answered = "none"  BY <1>1 DEF EffectInv, AnsweredIsIdle
<1>5. w.alone => Proceeds(w, cycle, connector, Len(docs))
  BY <1>1 DEF EffectInv, AloneProceeds
<1>6. (w.alone \/ raced) /\ (~raced => Len(docs) <= 1)
  BY <1>1 DEF EffectInv, RacedIsKnown, OneSubscription
<1>g. ASSUME NEW v \in Work, Goes(r, v), UNCHANGED <<docs, raced>>, v.alone = w.alone,
             w.alone => Proceeds(v, cycle', connector', Len(docs))
      PROVE  EffectInv'
  <2>1. answered' = "none"  BY <1>4, <1>g DEF Goes
  <2>2. OneSubscription' /\ RequestTakesEffect'
    BY <1>g, <2>1 DEF EffectInv, OneSubscription, RequestTakesEffect
  <2>3. req' = [req EXCEPT ![r] = v] /\ v # Idle  BY <1>g, IdleIsNotWork DEF Goes
  <2> QED  BY <1>1, <1>g, <2>1, <2>2, <2>3, RequestMoves
<1>e. ASSUME req' = [req EXCEPT ![r] = Idle], UNCHANGED <<docs, raced, answered>>
      PROVE  EffectInv'
  <2>1. OneSubscription' /\ RequestTakesEffect'
    BY <1>4, <1>e DEF EffectInv, OneSubscription, RequestTakesEffect
  <2> QED  BY <1>1, <1>4, <1>e, <2>1, RequestMoves
<1>7. CASE ReadAccount(r)
  <2>1. w.stage = "read" /\ UNCHANGED <<account, docs, raced>>  BY <1>7 DEF ReadAccount
  <2>2. CASE w.op = "add"
    <3>1. PICK v : v = [w EXCEPT !.stage = "install", !.todo = Template \X {0}]  OBVIOUS
    <3>2. /\ v \in Work /\ v.op = "add" /\ v.stage = "install" /\ v.todo = Template \X {0}
          /\ v.alone = w.alone
      BY <1>2, <2>2, <3>1 DEF Work, Call, Stages
    <3>3. Proceeds(v, cycle', connector', Len(docs))  BY <3>2 DEF Proceeds
    <3>4. Goes(r, v)  BY <1>7, <2>2, <3>1 DEF ReadAccount
    <3> QED  BY <1>g, <2>1, <3>2, <3>3, <3>4
  <2>3. CASE w.op # "add"
    <3>1. PICK v : v = [w EXCEPT !.stage = "calls", !.todo = Present,
                                 !.connectors = Present # {}]
      OBVIOUS
    <3>2. /\ v \in Work /\ v.op = w.op /\ v.stage = "calls" /\ v.todo = Present
          /\ v.alone = w.alone
      BY <1>2, <3>1 DEF Work, Call, Stages, Present
    <3>3. Carried(v.op, Present, cycle)
      BY <2>3, <3>2 DEF Carried, Present
    <3>4. Proceeds(v, cycle', connector', Len(docs))
      BY <2>1, <2>3, <3>2, <3>3 DEF Proceeds, account
    <3>5. Goes(r, v)  BY <1>7, <2>3, <3>1 DEF ReadAccount
    <3> QED  BY <1>g, <2>1, <3>2, <3>4, <3>5
  <2> QED  BY <2>2, <2>3
<1>8. CASE InstallConnector(r)
  <2>1. /\ w.stage = "install" /\ UNCHANGED <<cycle, docs, raced>> /\ connector' # "absent"
    BY <1>8 DEF InstallConnector
  <2>2. PICK v : v = [w EXCEPT !.stage = "calls"]  OBVIOUS
  <2>3. /\ v \in Work /\ v.op = w.op /\ v.stage = "calls" /\ v.todo = w.todo
        /\ v.alone = w.alone
    BY <1>2, <2>2 DEF Work, Stages
  <2>4. w.alone => Proceeds(v, cycle', connector', Len(docs))
    <3> SUFFICES ASSUME w.alone PROVE Proceeds(v, cycle', connector', Len(docs))  OBVIOUS
    <3>1. w.op = "add" /\ w.todo = Template \X {0}  BY <1>5, <2>1 DEF Proceeds
    <3>2. Carried(v.op, v.todo, cycle')  BY <2>3, <3>1 DEF Carried
    <3> QED  BY <2>1, <2>3, <3>1, <3>2 DEF Proceeds
  <2>5. Goes(r, v)  BY <1>8, <2>2 DEF InstallConnector
  <2> QED  BY <1>g, <2>1, <2>3, <2>4, <2>5
<1>9. CASE \E c \in Call : CyclrCall(r, c)
  BY <1>1, <1>9, CyclrCallEffect
<1>10. CASE CallsReturned(r)
  <2>1. w.stage = "calls" /\ w.todo = {} /\ UNCHANGED <<account, docs, raced>>
    BY <1>10 DEF CallsReturned
  <2>2. CASE w.failed
    BY <1>10, <1>e, <2>1, <2>2 DEF CallsReturned, Goes
  <2>3. CASE ~w.failed
    <3>1. PICK s : s = AfterCalls(w)  OBVIOUS
    <3>2. /\ s \in {"authenticate", "uninstall", "find"}
          /\ s = "authenticate" <=> w.op = "add"
      BY <1>3, <3>1 DEF AfterCalls
    <3>3. PICK v : v = [w EXCEPT !.stage = s]  OBVIOUS
    <3>4. /\ v \in Work /\ v.op = w.op /\ v.stage = s /\ v.alone = w.alone
      BY <1>2, <3>2, <3>3 DEF Work, Stages
    <3>5. w.alone => Proceeds(v, cycle', connector', Len(docs))
      <4> SUFFICES ASSUME w.alone PROVE Proceeds(v, cycle', connector', Len(docs))  OBVIOUS
      <4>1. /\ Carried(w.op, {}, cycle)
            /\ w.op = "add" => connector # "absent"
        BY <1>5, <2>1, <2>3 DEF Proceeds
      <4> QED  BY <2>1, <3>2, <3>4, <4>1 DEF Proceeds, account
    <3>6. Goes(r, v)  BY <1>10, <2>3, <3>1, <3>3 DEF CallsReturned
    <3> QED  BY <1>g, <2>1, <3>4, <3>5, <3>6
  <2> QED  BY <2>2, <2>3
<1>11. CASE Authenticate(r)
  <2>1. /\ w.stage = "authenticate" /\ UNCHANGED <<cycle, docs, raced>> /\ EndsOK(r)
        /\ connector' = IF connector = "installed" THEN "authenticated" ELSE connector
    BY <1>11 DEF Authenticate
  <2>2. w.alone => w.op = "add" /\ connector # "absent"  BY <1>5, <2>1 DEF Proceeds
  <2>3. connector \in {"absent", "installed", "authenticated"}  BY DEF IInv, TypeOK
  <2>4. w.alone => connector' = "authenticated"  BY <2>1, <2>2, <2>3
  <2>5. OneSubscription'  BY <2>1 DEF EffectInv, OneSubscription
  <2> QED  BY <1>1, <2>1, <2>2, <2>4, <2>5, EndsEffect
<1>12. CASE DeleteConnector(r)
  <2>1. w.stage = "uninstall" /\ UNCHANGED <<cycle, docs, raced>>
    BY <1>12 DEF DeleteConnector
  <2>2. PICK v : v = [w EXCEPT !.stage = "find"]  OBVIOUS
  <2>3. /\ v \in Work /\ v.op = w.op /\ v.stage = "find" /\ v.alone = w.alone
    BY <1>2, <2>2 DEF Work, Stages
  <2>4. w.alone => Proceeds(v, cycle', connector', Len(docs))
    BY <1>5, <2>1, <2>3 DEF Proceeds
  <2>5. Goes(r, v)  BY <1>12, <2>2 DEF DeleteConnector
  <2> QED  BY <1>g, <2>1, <2>3, <2>4, <2>5
<1>13. CASE FindSubscription(r)
  <2>1. w.stage = "find" /\ UNCHANGED <<account, docs, raced>>
    BY <1>13 DEF FindSubscription
  <2>0. docs \in Seq(BOOLEAN) /\ Len(docs) \in Nat  BY DEF IInv, TypeOK
  <2>2. CASE NeedsWrite(w.op, Len(docs))
    <3>1. PICK v : v = [w EXCEPT !.stage = "write", !.found = Len(docs)]  OBVIOUS
    <3>2. /\ v \in Work /\ v.op = w.op /\ v.stage = "write" /\ v.found = Len(docs)
          /\ v.alone = w.alone
      BY <1>2, <2>0, <3>1 DEF Work, Stages
    <3>3. w.alone => Proceeds(v, cycle', connector', Len(docs))
      BY <1>5, <2>1, <2>2, <3>2 DEF Proceeds, account
    <3>4. Goes(r, v)  BY <1>13, <2>2, <3>1 DEF FindSubscription
    <3> QED  BY <1>g, <2>1, <3>2, <3>3, <3>4
  <2>3. CASE ~NeedsWrite(w.op, Len(docs))
    <3>1. EndsOK(r)  BY <1>13, <2>3 DEF FindSubscription
    <3>2. w.op # "activate" /\ Len(docs) # 1  BY <2>3 DEF NeedsWrite
    <3>3. ~raced => Len(docs) = 0
      <4>1. \A n \in Nat : n <= 1 /\ n # 1 => n = 0  OBVIOUS
      <4> QED  BY <1>6, <2>0, <3>2, <4>1
    <3>4. ~raced => Subscribed' = {}  BY <2>0, <2>1, <3>3 DEF Subscribed
    <3>5. w.alone => w.op # "add"  BY <1>5, <2>1 DEF Proceeds
    <3>6. OneSubscription'  BY <2>1 DEF EffectInv, OneSubscription
    <3>7. UNCHANGED <<cycle, raced>>  BY <2>1 DEF account
    <3> QED  BY <1>1, <2>1, <3>1, <3>2, <3>4, <3>5, <3>6, <3>7, EndsEffect
  <2> QED  BY <2>2, <2>3
<1>14. CASE WriteSubscription(r)
  <2>1. /\ w.stage = "write" /\ EndsOK(r) /\ docs' = Written(w.op, w.found)
        /\ UNCHANGED <<cycle, raced>>
    BY <1>14 DEF WriteSubscription, account
  <2>2. w.alone => /\ w.op # "add" /\ w.found = Len(docs) /\ NeedsWrite(w.op, Len(docs))
    BY <1>5, <2>1 DEF Proceeds
  <2>3. w.alone => /\ w.op = "activate" => Subscribed' # {}
                   /\ w.op # "activate" /\ Len(docs) <= 1 => Subscribed' = {}
                   /\ Len(docs) <= 1 => Len(docs') <= 1
    BY <1>3, <2>1, <2>2, WrittenSubscription
  <2>4. OneSubscription'  BY <1>6, <2>1, <2>3 DEF OneSubscription
  <2>5. w.alone /\ w.op \in {"stop", "remove"} /\ ~raced => Subscribed' = {}
    BY <1>6, <2>3
  <2> QED  BY <1>1, <2>1, <2>2, <2>3, <2>4, <2>5, EndsEffect
<1>15. CASE RequestFails(r)
  BY <1>15, <1>e DEF RequestFails, Fails, history
<1>16. CASE RequestStep(r)
  <2>1. \/ ReadAccount(r) \/ InstallConnector(r) \/ CallsReturned(r) \/ Authenticate(r)
        \/ DeleteConnector(r) \/ FindSubscription(r) \/ WriteSubscription(r)
        \/ \E c \in Call : CyclrCall(r, c)
    BY <1>16 DEF RequestStep
  <2> QED  BY ONLY <1>7, <1>8, <1>9, <1>10, <1>11, <1>12, <1>13, <1>14, <2>1
<1> QED  BY <1>15, <1>16

(* The process ends: no request is in progress, and what was answered is.   *)
LEMMA EndEffect ==
  ASSUME IInv, EffectInv, ProcessEnds
  PROVE  EffectInv'
<1>1. /\ req' = [r \in Request |-> Idle]
      /\ UNCHANGED <<cycle, connector, docs, answered, raced>>
  BY DEF ProcessEnds, account, history
<1>2. \A r \in Request : ~InProgress(r)'  BY <1>1 DEF InProgress, Idle
<1>3. NoOther' /\ AnsweredIsIdle' /\ RacedIsKnown' /\ AloneProceeds'
  BY <1>2 DEF NoOther, AnsweredIsIdle, RacedIsKnown, AloneProceeds
<1>4. OneSubscription'  BY <1>1 DEF EffectInv, OneSubscription
<1>5. RequestTakesEffect'
  BY <1>1 DEF EffectInv, RequestTakesEffect, Present, Subscribed
<1> QED  BY <1>3, <1>4, <1>5 DEF EffectInv

LEMMA EffectStep == IInv /\ EffectInv /\ [Next]_vars => EffectInv'
<1> SUFFICES ASSUME IInv, EffectInv, [Next]_vars PROVE EffectInv'  OBVIOUS
<1>1. ASSUME NEW r \in Request, NEW op \in Operation, Begin(r, op) PROVE EffectInv'
  BY <1>1, BeginEffect
<1>2. ASSUME NEW r \in Request, RequestStep(r) \/ RequestFails(r) PROVE EffectInv'
  BY <1>2, RequestEffect
<1>3. ASSUME NEW c \in Cycle, RunsOnce(c) PROVE EffectInv'
  <2>1. \A d \in Cycle : \/ cycle'[d] = cycle[d]
                         \/ d[1] \in Once /\ cycle[d] = "active" /\ cycle'[d] = "stopped"
    BY <1>3 DEF RunsOnce, IInv, TypeOK
  <2> QED  BY <1>3, <2>1, AccountKept DEF RunsOnce
<1>4. ASSUME NEW e \in Event, Emit(e) \/ EventStep(e) PROVE EffectInv'
  <2>1. UNCHANGED <<account, docs, req, history>>
    BY <1>4 DEF Emit, EventStep, FindSubscribed, RecordFailure, RecordResults, CallWebhookUrl
  <2> QED  BY <2>1, AccountKept DEF account
<1>5. ASSUME ProcessEnds PROVE EffectInv'  BY <1>5, EndEffect
<1>6. CASE UNCHANGED vars  BY <1>6, AccountKept DEF vars, account
<1> QED
  BY <1>1, <1>2, <1>3, <1>4, <1>5, <1>6 DEF Next, RecordingFails, Restart

(* An integration that was activated runs its cycles and hears of payments, *)
(* one that was stopped or removed does not, whatever failed or was         *)
(* interrupted before the request that was answered.                        *)
THEOREM AnswersHold == Spec => []RequestTakesEffect
<1>1. EffectInv => RequestTakesEffect  BY DEF EffectInv
<1> QED  BY <1>1, InitInv, InvStep, InitEffect, EffectStep, PTL DEF Spec
=============================================================================
