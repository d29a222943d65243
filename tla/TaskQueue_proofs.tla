-------------------------- MODULE TaskQueue_proofs --------------------------
(***************************************************************************)
(* Proofs about TaskQueue, for every set of tasks and runners and every    *)
(* value of the bounds.                                                    *)
(***************************************************************************)
EXTENDS TaskQueue, TLAPS

-----------------------------------------------------------------------------
(* What the operators on documents return. *)

(* A fresh task and the blank document are documents. *)
LEMMA NewDocType ==
  ASSUME NEW rec \in Recurrence, NEW dated \in BOOLEAN, NEW due \in Int
  PROVE  /\ NewDoc(rec, dated, due) \in Doc
         /\ NewDoc(rec, dated, due).status = "QUEUED"
         /\ NewDoc(rec, dated, due).audit = <<>>
<1>1. NewDoc(rec, dated, due) \in Doc
  BY TaskQueueAssumption DEF NewDoc, Doc, Recurrence, Status, Gone, Outcome
<1> QED
  BY <1>1 DEF NewDoc

(* An instant task has no run date. *)
LEMMA InstantType ==
  ASSUME NEW rec \in Recurrence
  PROVE  /\ NewDoc(rec, FALSE, 0) \in Doc
         /\ NewDoc(rec, FALSE, 0).status = "QUEUED"
         /\ NewDoc(rec, FALSE, 0).audit = <<>>
<1>1. PICK dated \in BOOLEAN : dated = FALSE
  OBVIOUS
<1>2. PICK due \in Int : due = 0
  OBVIOUS
<1>3. /\ NewDoc(rec, dated, due) \in Doc
      /\ NewDoc(rec, dated, due).status = "QUEUED"
      /\ NewDoc(rec, dated, due).audit = <<>>
  BY NewDocType
<1> QED
  BY <1>1, <1>2, <1>3

LEMMA RunDatesAreInt == RunDates \subseteq Int
BY TaskQueueAssumption DEF RunDates

LEMMA BlankType == Blank \in Doc /\ Blank.status = "ABSENT" /\ Blank.v = 0 /\ Blank.audit = <<>>
<1>1. PICK d \in Doc : d = NewDoc("ONCE", FALSE, 0) /\ d.v = 0 /\ d.audit = <<>>
  <2>1. NewDoc("ONCE", FALSE, 0) \in Doc
    BY InstantType DEF Recurrence
  <2>2. NewDoc("ONCE", FALSE, 0).v = 0 /\ NewDoc("ONCE", FALSE, 0).audit = <<>>
    BY DEF NewDoc
  <2>3. QED
    BY <2>1, <2>2
<1>2. "ABSENT" \in Status
  BY DEF Status, Gone
<1>3. Blank = [d EXCEPT !.status = "ABSENT"]
  BY <1>1 DEF Blank
<1>4. QED
  BY <1>1, <1>2, <1>3 DEF Doc

(* A claim keeps the audit trail and the version of the document it is      *)
(* written over, and never brings a deleted task back (preProcessHelper).   *)
LEMMA StoredClaimType ==
  ASSUME NEW stored \in Doc, NEW copy \in Doc
  PROVE  /\ StoredClaim(stored, copy) \in Doc
         /\ StoredClaim(stored, copy).v = stored.v
         /\ StoredClaim(stored, copy).audit = stored.audit
         /\ StoredClaim(stored, copy).status \in {stored.status, "PROCESSING"}
<1>1. PICK s \in Status : s = IF copy.status = "PROCESSING" THEN stored.status ELSE "PROCESSING"
  BY DEF Doc, Status
<1>2. PICK n \in Nat : n = copy.attempts + 1
  BY DEF Doc
<1>3. StoredClaim(stored, copy) = [stored EXCEPT !.status = s, !.attempts = n, !.age = 0]
  BY <1>1, <1>2 DEF StoredClaim
<1>4. 0 \in 0 .. LimboAge
  BY TaskQueueAssumption
<1>5. QED
  BY <1>1, <1>3, <1>4 DEF Doc

LEMMA ClaimedType ==
  ASSUME NEW copy \in Doc
  PROVE  /\ Claimed(copy) \in Doc
         /\ Claimed(copy).v = copy.v
         /\ Claimed(copy).audit = copy.audit
<1>1. PICK n \in Nat : n = copy.attempts + 1
  BY DEF Doc
<1>2. Claimed(copy) = [copy EXCEPT !.status = "PROCESSING", !.attempts = n, !.age = 0]
  BY <1>1 DEF Claimed
<1>3. 0 \in 0 .. LimboAge /\ "PROCESSING" \in Status
  BY TaskQueueAssumption DEF Status
<1>4. QED
  BY <1>2, <1>3 DEF Doc

LEMMA CopyType ==
  ASSUME NEW doc \in Doc
  PROVE  Copy(doc) \in Doc /\ Copy(doc).v = doc.v /\ Copy(doc).audit = doc.audit
<1>1. PICK age \in 0 .. LimboAge : age = 0
  BY TaskQueueAssumption
<1>2. [doc EXCEPT !.age = age] \in Doc
  BY DEF Doc
<1>3. [doc EXCEPT !.age = age].v = doc.v /\ [doc EXCEPT !.age = age].audit = doc.audit
  BY DEF Doc
<1>4. QED
  BY <1>1, <1>2, <1>3 DEF Copy

LEMMA LastRunType ==
  ASSUME NEW doc \in Doc, NEW due \in RunDates
  PROVE  /\ LastRun(doc, due) \in Doc
         /\ LastRun(doc, due).v = doc.v
         /\ LastRun(doc, due).audit = doc.audit
         /\ LastRun(doc, due).status = doc.status
<1>1. "ONCE" \in Recurrence /\ due \in Int /\ 0 \in 0 .. LimboAge
  BY TaskQueueAssumption DEF Recurrence, RunDates
<1>2. PICK d \in Doc : d = [doc EXCEPT !.recurrence = "ONCE", !.dated = TRUE]
  BY <1>1 DEF Doc
<1>3. d.v = doc.v /\ d.audit = doc.audit /\ d.status = doc.status
  BY <1>2 DEF Doc
<1>4. LastRun(doc, due) = [d EXCEPT !.due = due, !.age = 0]
  BY <1>2 DEF LastRun
<1>5. QED
  BY <1>1, <1>3, <1>4 DEF Doc

LEMMA AfterJobType ==
  ASSUME NEW doc \in Doc, NEW done \in BOOLEAN
  PROVE  /\ AfterJob(doc, done) \in Doc
         /\ AfterJob(doc, done).v = doc.v
         /\ AfterJob(doc, done).audit = doc.audit
<1>1. PICK rec \in Recurrence : rec = IF done THEN "DONE" ELSE doc.recurrence
  BY DEF Doc, Recurrence
<1>2. AfterJob(doc, done) = [doc EXCEPT !.recurrence = rec]
  BY <1>1 DEF AfterJob
<1>3. QED
  BY <1>2 DEF Doc

LEMMA NearerType ==
  ASSUME NEW doc \in Doc
  PROVE  /\ Nearer(doc) \in Doc
         /\ Nearer(doc).v = doc.v
         /\ Nearer(doc).audit = doc.audit
         /\ Nearer(doc).status = doc.status
<1>1. PICK n \in Int : n = IF doc.dated /\ doc.due > -MaxLag THEN doc.due - 1 ELSE doc.due
  BY TaskQueueAssumption DEF Doc
<1>2. Nearer(doc) = [doc EXCEPT !.due = n]
  BY <1>1 DEF Nearer
<1>3. QED
  BY <1>2, TaskQueueAssumption DEF Doc

LEMMA OlderType ==
  ASSUME NEW doc \in Doc
  PROVE  /\ Older(doc) \in Doc
         /\ Older(doc).v = doc.v
         /\ Older(doc).audit = doc.audit
         /\ Older(doc).status = doc.status
<1>1. PICK n \in 0 .. LimboAge : n = IF doc.age < LimboAge THEN doc.age + 1 ELSE doc.age
  BY TaskQueueAssumption DEF Doc
<1>2. Older(doc) = [doc EXCEPT !.age = n]
  BY <1>1 DEF Older
<1>3. QED
  BY <1>2, TaskQueueAssumption DEF Doc

(* What postProcessHelper saves has exactly one outcome more than the copy. *)
LEMMA RecordedType ==
  ASSUME NEW doc \in Doc, NEW outcome \in Outcome
  PROVE  LET new == Recorded(doc, outcome) IN
         /\ new \in Doc
         /\ new.v = doc.v
         /\ new.status = outcome
         /\ new.audit = Append(doc.audit, [attempts |-> doc.attempts, outcome |-> outcome])
<1>1. PICK entry \in AuditEntry : entry = [attempts |-> doc.attempts, outcome |-> outcome]
  BY DEF Doc, AuditEntry
<1>2. PICK trail \in Seq(AuditEntry) : trail = Append(doc.audit, entry)
  <2>1. Append(doc.audit, entry) \in Seq(AuditEntry)
    BY DEF Doc
  <2>2. QED
    BY <2>1
<1>3. Recorded(doc, outcome) = [doc EXCEPT !.status = outcome, !.age = 0, !.audit = trail]
  BY <1>1, <1>2 DEF Recorded
<1>4. outcome \in Status /\ 0 \in 0 .. LimboAge
  BY TaskQueueAssumption DEF Status
<1>5. QED
  BY <1>1, <1>2, <1>3, <1>4 DEF Doc

LEMMA RescheduledType ==
  ASSUME NEW doc \in Doc, doc.status \in Outcome
  PROVE  LET new == Rescheduled(doc) IN
         /\ new \in Doc
         /\ new.v = doc.v
         /\ new.audit = doc.audit
         /\ new.status = doc.status \/ (new.status = "QUEUED" /\ doc.status = "SUCCESS")
<1>1. CASE doc.status = "SUCCESS" /\ doc.recurrence = "RECURRING"
  <2>1. PICK n \in Int : n = (IF doc.dated THEN doc.due ELSE 0) + Period
    BY TaskQueueAssumption DEF Doc
  <2>2. Rescheduled(doc) = [doc EXCEPT !.status = "QUEUED", !.attempts = 0,
                                       !.dated = TRUE, !.due = n]
    BY <1>1, <2>1 DEF Rescheduled
  <2>3. "QUEUED" \in Status
    BY DEF Status
  <2>4. PICK d \in Doc : d = [doc EXCEPT !.status = "QUEUED", !.attempts = 0]
    BY <2>3 DEF Doc
  <2>5. d.v = doc.v /\ d.audit = doc.audit /\ d.status = "QUEUED"
    BY <2>4 DEF Doc
  <2>6. Rescheduled(doc) = [d EXCEPT !.dated = TRUE, !.due = n]
    BY <2>2, <2>4
  <2>7. QED
    BY <1>1, <2>5, <2>6 DEF Doc
<1>2. CASE ~(doc.status = "SUCCESS" /\ doc.recurrence = "RECURRING")
  BY <1>2 DEF Rescheduled
<1>3. QED
  BY <1>1, <1>2

LEMMA SavedType ==
  ASSUME NEW doc \in Doc, NEW outcome \in Outcome
  PROVE  LET new == SavedCopy(Rescheduled(Recorded(doc, outcome))) IN
         /\ new \in Doc
         /\ new.v = doc.v + 1
         /\ new.audit = Append(doc.audit, [attempts |-> doc.attempts, outcome |-> outcome])
         /\ new.status = outcome \/ (new.status = "QUEUED" /\ outcome = "SUCCESS")
<1> DEFINE rec == Recorded(doc, outcome)
           res == Rescheduled(rec)
<1>1. rec \in Doc /\ rec.v = doc.v /\ rec.status = outcome
      /\ rec.audit = Append(doc.audit, [attempts |-> doc.attempts, outcome |-> outcome])
  BY RecordedType
<1>2. res \in Doc /\ res.v = rec.v /\ res.audit = rec.audit
      /\ (res.status = outcome \/ (res.status = "QUEUED" /\ outcome = "SUCCESS"))
  BY <1>1, RescheduledType
<1> HIDE DEF rec, res
<1>3. /\ SavedCopy(res) \in Doc
      /\ SavedCopy(res).v = res.v + 1
      /\ SavedCopy(res).audit = res.audit
      /\ SavedCopy(res).status = res.status
  <2>1. PICK n \in Nat : n = res.v + 1
    BY <1>2 DEF Doc
  <2>2. SavedCopy(res) = [res EXCEPT !.v = n]
    BY <2>1 DEF SavedCopy
  <2>3. QED
    BY <1>2, <2>1, <2>2 DEF Doc
<1>4. QED
  BY <1>1, <1>2, <1>3 DEF rec, res

-----------------------------------------------------------------------------
(* Type correctness. *)

LEMMA InitType == Init => TypeOK
BY BlankType, TaskQueueAssumption DEF Init, TypeOK, Idle, Worker, Stage

LEMMA NextType == TypeOK /\ [Next]_vars => TypeOK'
<1> SUFFICES ASSUME TypeOK, [Next]_vars
             PROVE  TypeOK'
  OBVIOUS
<1> USE DEF TypeOK
<1>0. Idle \in Worker
  BY BlankType DEF Idle, Worker, Stage
<1>1. ASSUME NEW t \in Task, NEW rec \in {"ONCE", "RECURRING"}, NEW due \in RunDates,
             CreateScheduledTask(t, rec, due)
      PROVE  TypeOK'
  <2>1. NewDoc(rec, TRUE, due) \in Doc
    BY NewDocType, RunDatesAreInt DEF Recurrence
  <2>2. QED
    BY <1>1, <2>1 DEF CreateScheduledTask
<1>2. ASSUME NEW t \in Task, NEW rec \in {"ONCE", "RECURRING"}, CreateInstantTask(t, rec)
      PROVE  TypeOK'
  <2>1. NewDoc(rec, FALSE, 0) \in Doc
    BY InstantType DEF Recurrence
  <2>2. QED
    BY <1>2, <2>1 DEF CreateInstantTask
<1>3. ASSUME NEW t \in Task, NEW due \in RunDates, SetLastRunDateForTask(t, due)
      PROVE  TypeOK'
  BY <1>3, LastRunType DEF SetLastRunDateForTask
<1>4. ASSUME NEW t \in Task, DeleteTask(t)
      PROVE  TypeOK'
  <2>1. [tasks[t] EXCEPT !.status = "DELETED"] \in Doc
    BY DEF Doc, Status, Gone
  <2>2. QED
    BY <1>4, <2>1 DEF DeleteTask
<1>5. ASSUME NEW r \in Runner, HandleCron(r)
      PROVE  TypeOK'
  <2>1. ASSUME NEW t \in Task
        PROVE  [stage |-> "fetched", doc |-> Copy(tasks[t])] \in Worker
    BY CopyType DEF Worker, Stage
  <2>2. QED
    BY <1>0, <1>5, <2>1 DEF HandleCron
<1>6. ASSUME NEW r \in Runner, NEW t \in Task, PreProcess(r, t)
      PROVE  TypeOK'
  <2>1. work[r][t].doc \in Doc
    BY DEF Worker
  <2>2. StoredClaim(tasks[t], work[r][t].doc) \in Doc
    BY <2>1, StoredClaimType
  <2>3. [stage |-> "running", doc |-> Claimed(work[r][t].doc)] \in Worker
    BY <2>1, ClaimedType DEF Worker, Stage
  <2>4. CASE Exists(t)
    <3>1. tasks' \in [Task -> Doc]
      BY <1>6, <2>2, <2>4 DEF PreProcess
    <3>2. work' \in [Runner -> [Task -> Worker]]
      BY <1>6, <2>3, <2>4 DEF PreProcess
    <3>3. QED
      BY <1>6, <3>1, <3>2 DEF PreProcess
  <2>5. CASE ~Exists(t)
    BY <1>0, <1>6, <2>5 DEF PreProcess
  <2>6. QED
    BY <2>4, <2>5
<1>7. ASSUME NEW r \in Runner, NEW t \in Task, NEW outcome \in Outcome, NEW done \in BOOLEAN,
             PostProcess(r, t, outcome, done)
      PROVE  TypeOK'
  <2> DEFINE copy == AfterJob(work[r][t].doc, done)
  <2>1. copy \in Doc
    BY AfterJobType DEF Worker
  <2>2. SavedCopy(Rescheduled(Recorded(copy, outcome))) \in Doc
    BY <2>1, SavedType
  <2>3. QED
    BY <1>0, <1>7, <2>2 DEF PostProcess
<1>8. ASSUME NEW r \in Runner, NEW t \in Task, LoseWorker(r, t)
      PROVE  TypeOK'
  BY <1>0, <1>8, TaskQueueAssumption DEF LoseWorker
<1>9. CASE TimePasses
  <2>1. ASSUME NEW t \in Task
        PROVE  Older(Nearer(tasks[t])) \in Doc
    BY NearerType, OlderType
  <2>2. ASSUME NEW r \in Runner, NEW t \in Task
        PROVE  [work[r][t] EXCEPT !.doc = Nearer(work[r][t].doc)] \in Worker
    BY NearerType DEF Worker
  <2>3. QED
    BY <1>9, <2>1, <2>2 DEF TimePasses
<1>10. CASE UNCHANGED vars
  BY <1>10 DEF vars
<1>11. QED
  BY <1>1, <1>2, <1>3, <1>4, <1>5, <1>6, <1>7, <1>8, <1>9, <1>10 DEF Next, Request, RunnerStep

(* Every document of the queue and every copy a runner holds is well formed *)
(* in every reachable state, whatever the overlap of runners.               *)
THEOREM TypeCorrect == Spec => []TypeOK
BY InitType, NextType, PTL DEF Spec

-----------------------------------------------------------------------------
(* Versions, and the promise to readers of the audit trail. *)

(* The inductive invariant: a task that was never created has an empty      *)
(* trail, and the version of a copy tells whether its trail is the stored   *)
(* one.  The first part is needed because creation starts a trail anew.     *)
UncreatedIsEmpty ==
  \A t \in Task :
    tasks[t].status = "ABSENT" => tasks[t].v = 0 /\ tasks[t].audit = <<>>

VersionInv == TypeOK /\ UncreatedIsEmpty /\ CopiesAreVersioned

(* What a step may do to the trail and version of a task: nothing, or       *)
(* append one outcome of a copy whose version is the stored one.            *)
SameTrail(t) == tasks'[t].v = tasks[t].v /\ tasks'[t].audit = tasks[t].audit

Appends(t) ==
  /\ Exists(t)
  /\ tasks'[t].v = tasks[t].v + 1
  /\ \E entry \in AuditEntry : tasks'[t].audit = Append(tasks[t].audit, entry)

(* What a step may do to the copy of a worker: drop it, keep its trail and  *)
(* version, or take those of the stored task.                               *)
CopyStep(r, t) ==
  \/ work'[r][t].stage = "idle"
  \/ /\ work[r][t].stage # "idle"
     /\ work'[r][t].doc.v = work[r][t].doc.v
     /\ work'[r][t].doc.audit = work[r][t].doc.audit
  \/ /\ work'[r][t].doc.v = tasks[t].v
     /\ work'[r][t].doc.audit = tasks[t].audit
     /\ SameTrail(t)

(* Every step changes the stored trails and the copies in these ways only.  *)
LEMMA TrailStep ==
  ASSUME VersionInv, [Next]_vars
  PROVE  /\ \A t \in Task : SameTrail(t) \/ Appends(t)
         /\ \A r \in Runner, t \in Task : CopyStep(r, t)
         /\ \A t \in Task : tasks'[t].status = "ABSENT" =>
                tasks[t].status = "ABSENT" /\ SameTrail(t)
<1> USE DEF VersionInv, TypeOK
<1>0. /\ tasks \in [Task -> Doc] /\ work \in [Runner -> [Task -> Worker]]
      /\ \A r \in Runner, t \in Task : work[r][t].doc \in Doc
  BY DEF Worker
<1> DEFINE Goal == /\ \A t \in Task : SameTrail(t) \/ Appends(t)
                   /\ \A r \in Runner, t \in Task : CopyStep(r, t)
                   /\ \A t \in Task : tasks'[t].status = "ABSENT" =>
                          tasks[t].status = "ABSENT" /\ SameTrail(t)
<1>1. ASSUME NEW t \in Task, NEW rec \in {"ONCE", "RECURRING"}, NEW due \in RunDates,
             CreateScheduledTask(t, rec, due)
      PROVE  Goal
  <2>1. LET d == NewDoc(rec, TRUE, due) IN d.status = "QUEUED" /\ d.v = 0 /\ d.audit = <<>>
    BY DEF NewDoc
  <2>2. QED
    BY <1>0, <1>1, <2>1 DEF CreateScheduledTask, UncreatedIsEmpty, SameTrail, CopyStep
<1>2. ASSUME NEW t \in Task, NEW rec \in {"ONCE", "RECURRING"}, CreateInstantTask(t, rec)
      PROVE  Goal
  <2>1. LET d == NewDoc(rec, FALSE, 0) IN d.status = "QUEUED" /\ d.v = 0 /\ d.audit = <<>>
    BY DEF NewDoc
  <2>2. QED
    BY <1>0, <1>2, <2>1 DEF CreateInstantTask, UncreatedIsEmpty, SameTrail, CopyStep
<1>3. ASSUME NEW t \in Task, NEW due \in RunDates, SetLastRunDateForTask(t, due)
      PROVE  Goal
  BY <1>0, <1>3, LastRunType DEF SetLastRunDateForTask, SameTrail, CopyStep
<1>4. ASSUME NEW t \in Task, DeleteTask(t)
      PROVE  Goal
  <2>1. LET d == [tasks[t] EXCEPT !.status = "DELETED"]
        IN  d.status = "DELETED" /\ d.v = tasks[t].v /\ d.audit = tasks[t].audit
    BY <1>0 DEF Doc
  <2>2. QED
    BY <1>0, <1>4, <2>1 DEF DeleteTask, SameTrail, CopyStep
<1>5. ASSUME NEW r \in Runner, HandleCron(r)
      PROVE  Goal
  <2>1. \A t \in Task : SameTrail(t)
    BY <1>5 DEF HandleCron, SameTrail
  <2>2. ASSUME NEW q \in Runner, NEW t \in Task
        PROVE  CopyStep(q, t)
    <3>1. CASE q # r
      BY <1>0, <1>5, <3>1 DEF HandleCron, CopyStep
    <3>2. CASE q = r /\ Fetchable(t)
      <4>1. work'[q][t].doc = Copy(tasks[t])
        BY <1>0, <1>5, <3>2 DEF HandleCron
      <4>2. QED
        BY <1>0, <4>1, <2>1, CopyType DEF CopyStep
    <3>3. CASE q = r /\ ~Fetchable(t)
      BY <1>0, <1>5, <3>3 DEF HandleCron, CopyStep, Idle
    <3>4. QED
      BY <3>1, <3>2, <3>3
  <2>3. QED
    BY <1>5, <2>1, <2>2 DEF HandleCron
<1>6. ASSUME NEW r \in Runner, NEW t \in Task, PreProcess(r, t)
      PROVE  Goal
  <2> DEFINE copy == work[r][t].doc
  <2>1. /\ StoredClaim(tasks[t], copy).v = tasks[t].v
        /\ StoredClaim(tasks[t], copy).audit = tasks[t].audit
        /\ StoredClaim(tasks[t], copy).status \in {tasks[t].status, "PROCESSING"}
    BY <1>0, StoredClaimType
  <2>2. Claimed(copy).v = copy.v /\ Claimed(copy).audit = copy.audit
    BY <1>0, ClaimedType
  <2>3. CASE Exists(t)
    <3>1. /\ tasks' = [tasks EXCEPT ![t] = StoredClaim(tasks[t], copy)]
          /\ work' = [work EXCEPT ![r][t] = [stage |-> "running", doc |-> Claimed(copy)]]
          /\ work[r][t].stage = "fetched"
      BY <1>6, <2>3 DEF PreProcess
    <3>2. \A u \in Task : SameTrail(u)
      BY <1>0, <2>1, <3>1 DEF SameTrail
    <3>3. \A q \in Runner, u \in Task : CopyStep(q, u)
      BY <1>0, <2>2, <3>1 DEF CopyStep
    <3>4. \A u \in Task : tasks'[u].status = "ABSENT" => tasks[u].status = "ABSENT"
      BY <1>0, <2>1, <2>3, <3>1 DEF Exists, Gone
    <3>5. QED
      BY <3>2, <3>3, <3>4
  <2>4. CASE ~Exists(t)
    BY <1>0, <1>6, <2>4 DEF PreProcess, SameTrail, CopyStep, Idle
  <2>5. QED
    BY <2>3, <2>4
<1>7. ASSUME NEW r \in Runner, NEW t \in Task, NEW outcome \in Outcome, NEW done \in BOOLEAN,
             PostProcess(r, t, outcome, done)
      PROVE  Goal
  <2> DEFINE copy == AfterJob(work[r][t].doc, done)
             saved == SavedCopy(Rescheduled(Recorded(copy, outcome)))
             entry == [attempts |-> copy.attempts, outcome |-> outcome]
  <2>1. copy \in Doc /\ copy.v = work[r][t].doc.v /\ copy.audit = work[r][t].doc.audit
    BY <1>0, AfterJobType
  <2>2. /\ saved.v = copy.v + 1
        /\ saved.audit = Append(copy.audit, entry)
        /\ saved.status \notin Gone
    BY <2>1, SavedType DEF Gone, Outcome
  <2>3. entry \in AuditEntry
    BY <2>1 DEF AuditEntry, Doc
  <2>4. \A q \in Runner, u \in Task : CopyStep(q, u)
    BY <1>0, <1>7 DEF PostProcess, CopyStep, Idle
  <2> HIDE DEF saved, entry
  <2>5. CASE Exists(t) /\ VersionMatches(tasks[t], copy)
    <3>1. tasks[t].v = copy.v /\ tasks[t].audit = copy.audit
      BY <1>7, <2>1, <2>5 DEF PostProcess, VersionMatches, CopiesAreVersioned
    <3>2. tasks' = [tasks EXCEPT ![t] = saved]
      BY <1>7, <2>5 DEF PostProcess, saved
    <3>3. Appends(t)
      BY <1>0, <2>2, <2>3, <2>5, <3>1, <3>2 DEF Appends
    <3>4. \A u \in Task : u # t => SameTrail(u) /\ tasks'[u] = tasks[u]
      BY <1>0, <3>2 DEF SameTrail
    <3>5. tasks'[t].status # "ABSENT"
      BY <1>0, <2>2, <3>2 DEF Gone
    <3>6. QED
      BY <2>4, <3>3, <3>4, <3>5
  <2>6. CASE ~(Exists(t) /\ VersionMatches(tasks[t], copy))
    BY <1>7, <2>4, <2>6 DEF PostProcess, SameTrail
  <2>7. QED
    BY <2>5, <2>6
<1>8. ASSUME NEW r \in Runner, NEW t \in Task, LoseWorker(r, t)
      PROVE  Goal
  BY <1>0, <1>8 DEF LoseWorker, SameTrail, CopyStep, Idle
<1>9. CASE TimePasses
  <2>1. ASSUME NEW t \in Task
        PROVE  SameTrail(t) /\ tasks'[t].status = tasks[t].status
    BY <1>0, <1>9, NearerType, OlderType DEF TimePasses, SameTrail
  <2>2. ASSUME NEW r \in Runner, NEW t \in Task
        PROVE  CopyStep(r, t)
    <3>1. CASE work[r][t].stage = "idle"
      <4>1. work'[r][t] = work[r][t]
        BY <1>9, <3>1 DEF TimePasses
      <4>2. QED
        BY <3>1, <4>1 DEF CopyStep
    <3>2. CASE work[r][t].stage # "idle"
      <4>1. work'[r][t] = [work[r][t] EXCEPT !.doc = Nearer(work[r][t].doc)]
        BY <1>0, <1>9, <3>2 DEF TimePasses
      <4>2. work'[r][t].doc = Nearer(work[r][t].doc)
        BY <1>0, <4>1 DEF Worker
      <4>3. QED
        BY <1>0, <3>2, <4>2, NearerType DEF CopyStep
    <3>3. QED
      BY <3>1, <3>2
  <2>3. QED
    BY <2>1, <2>2
<1>10. CASE UNCHANGED vars
  BY <1>10 DEF vars, SameTrail, CopyStep
<1>11. QED
  BY <1>1, <1>2, <1>3, <1>4, <1>5, <1>6, <1>7, <1>8, <1>9, <1>10 DEF Next, Request, RunnerStep

LEMMA VersionInvInductive == (Init => VersionInv) /\ (VersionInv /\ [Next]_vars => VersionInv')
<1>1. Init => VersionInv
  BY InitType, BlankType DEF Init, VersionInv, UncreatedIsEmpty, CopiesAreVersioned, Idle
<1>2. ASSUME VersionInv, [Next]_vars
      PROVE  VersionInv'
  <2>1. TypeOK'
    BY <1>2, NextType DEF VersionInv
  <2>2. UncreatedIsEmpty'
    BY <1>2, TrailStep DEF VersionInv, UncreatedIsEmpty, SameTrail
  <2>3. ASSUME NEW r \in Runner, NEW t \in Task, work'[r][t].stage # "idle"
        PROVE  /\ work'[r][t].doc.v <= tasks'[t].v
               /\ work'[r][t].doc.v = tasks'[t].v => work'[r][t].doc.audit = tasks'[t].audit
    <3>1. tasks[t].v \in Nat /\ work[r][t].doc.v \in Nat
      BY <1>2 DEF VersionInv, TypeOK, Worker, Doc
    <3>2. SameTrail(t) \/ Appends(t)
      BY <1>2, TrailStep
    <3>3. CopyStep(r, t)
      BY <1>2, TrailStep
    <3>4. work[r][t].stage # "idle" =>
            /\ work[r][t].doc.v <= tasks[t].v
            /\ work[r][t].doc.v = tasks[t].v => work[r][t].doc.audit = tasks[t].audit
      BY <1>2 DEF VersionInv, CopiesAreVersioned
    <3>5. CASE /\ work[r][t].stage # "idle"
               /\ work'[r][t].doc.v = work[r][t].doc.v
               /\ work'[r][t].doc.audit = work[r][t].doc.audit
      BY <3>1, <3>2, <3>4, <3>5 DEF SameTrail, Appends
    <3>6. CASE /\ work'[r][t].doc.v = tasks[t].v
               /\ work'[r][t].doc.audit = tasks[t].audit
               /\ SameTrail(t)
      BY <3>1, <3>6 DEF SameTrail
    <3>7. QED
      BY <2>3, <3>3, <3>5, <3>6 DEF CopyStep
  <2>4. CopiesAreVersioned'
    BY <2>3 DEF CopiesAreVersioned
  <2>5. QED
    BY <2>1, <2>2, <2>4 DEF VersionInv
<1>3. QED
  BY <1>1, <1>2

(* The version check of the save in postProcessHelper is sufficient: equal  *)
(* versions mean that no other runner recorded an outcome meanwhile.        *)
THEOREM CopiesVersioned == Spec => []CopiesAreVersioned
<1>1. Init => VersionInv
  BY VersionInvInductive
<1>2. VersionInv /\ [Next]_vars => VersionInv'
  BY VersionInvInductive
<1>3. VersionInv => CopiesAreVersioned
  BY DEF VersionInv
<1>4. QED
  BY <1>1, <1>2, <1>3, PTL DEF Spec

-----------------------------------------------------------------------------
(* The status and the audit trail of a task. *)

(* The status of one document agrees with its own trail.                    *)
Agrees(doc) ==
  /\ doc.status \in Outcome => doc.audit # <<>> /\ LastOutcome(doc) = doc.status
  /\ doc.status = "QUEUED" => doc.audit = <<>> \/ LastOutcome(doc) = "SUCCESS"

(* It depends on the status and the trail only; a task that is claimed or   *)
(* gone agrees with every trail.                                            *)
LEMMA AgreesSame ==
  ASSUME NEW doc \in Doc, NEW new \in Doc, Agrees(doc), new.audit = doc.audit,
         new.status \in {doc.status, "PROCESSING", "ABSENT", "DELETED"}
  PROVE  Agrees(new)
BY DEF Agrees, LastOutcome, Outcome

LEMMA AgreesFresh ==
  ASSUME NEW doc \in Doc, doc.status = "QUEUED", doc.audit = <<>>
  PROVE  Agrees(doc)
BY DEF Agrees, Outcome

(* What postProcessHelper saves agrees with the outcome it appends: the     *)
(* last entry of the trail is the outcome, and only a success is queued     *)
(* again.                                                                   *)
LEMMA AgreesSaved ==
  ASSUME NEW doc \in Doc, NEW outcome \in Outcome
  PROVE  Agrees(SavedCopy(Rescheduled(Recorded(doc, outcome))))
<1> DEFINE new == SavedCopy(Rescheduled(Recorded(doc, outcome)))
           entry == [attempts |-> doc.attempts, outcome |-> outcome]
<1>1. /\ new.audit = Append(doc.audit, entry)
      /\ new.status = outcome \/ (new.status = "QUEUED" /\ outcome = "SUCCESS")
  BY SavedType
<1>2. entry \in AuditEntry /\ doc.audit \in Seq(AuditEntry) /\ entry.outcome = outcome
  BY DEF AuditEntry, Doc
<1> HIDE DEF new, entry
<1>3. new.audit # <<>> /\ new.audit[Len(new.audit)] = entry
  BY <1>1, <1>2
<1>4. Agrees(new)
  BY <1>1, <1>2, <1>3 DEF Agrees, LastOutcome, Outcome
<1>5. QED
  BY <1>4 DEF new

StatusInv == TypeOK /\ StatusMatchesAudit

LEMMA StatusInvStep ==
  ASSUME StatusInv, [Next]_vars
  PROVE  StatusMatchesAudit'
<1> USE DEF StatusInv, TypeOK
<1>0. /\ tasks \in [Task -> Doc]
      /\ \A t \in Task : tasks[t] \in Doc /\ Agrees(tasks[t])
      /\ \A r \in Runner, t \in Task : work[r][t].doc \in Doc
  BY DEF Worker, StatusMatchesAudit, Agrees
<1> SUFFICES \A t \in Task : Agrees(tasks'[t])
  BY DEF StatusMatchesAudit, Agrees, LastOutcome
<1>a. ASSUME NEW t \in Task, NEW d \in Doc, tasks' = [tasks EXCEPT ![t] = d], Agrees(d)
      PROVE  \A u \in Task : Agrees(tasks'[u])
  BY <1>0, <1>a
<1>1. ASSUME NEW t \in Task, NEW rec \in {"ONCE", "RECURRING"}, NEW due \in RunDates,
             CreateScheduledTask(t, rec, due)
      PROVE  \A u \in Task : Agrees(tasks'[u])
  <2>1. /\ NewDoc(rec, TRUE, due) \in Doc
        /\ NewDoc(rec, TRUE, due).status = "QUEUED"
        /\ NewDoc(rec, TRUE, due).audit = <<>>
    BY NewDocType, RunDatesAreInt DEF Recurrence
  <2>2. QED
    BY <1>a, <1>1, <2>1, AgreesFresh DEF CreateScheduledTask
<1>2. ASSUME NEW t \in Task, NEW rec \in {"ONCE", "RECURRING"}, CreateInstantTask(t, rec)
      PROVE  \A u \in Task : Agrees(tasks'[u])
  <2>1. /\ NewDoc(rec, FALSE, 0) \in Doc
        /\ NewDoc(rec, FALSE, 0).status = "QUEUED"
        /\ NewDoc(rec, FALSE, 0).audit = <<>>
    BY InstantType DEF Recurrence
  <2>2. QED
    BY <1>a, <1>2, <2>1, AgreesFresh DEF CreateInstantTask
<1>3. ASSUME NEW t \in Task, NEW due \in RunDates, SetLastRunDateForTask(t, due)
      PROVE  \A u \in Task : Agrees(tasks'[u])
  <2>1. PICK d \in Doc : /\ d = LastRun(tasks[t], due)
                         /\ d.audit = tasks[t].audit /\ d.status = tasks[t].status
    BY <1>0, LastRunType
  <2>2. Agrees(d)
    BY <1>0, <2>1, AgreesSame
  <2>3. QED
    BY <1>a, <1>3, <2>1, <2>2 DEF SetLastRunDateForTask
<1>4. ASSUME NEW t \in Task, DeleteTask(t)
      PROVE  \A u \in Task : Agrees(tasks'[u])
  <2>1. PICK d \in Doc : /\ d = [tasks[t] EXCEPT !.status = "DELETED"]
                         /\ d.status = "DELETED" /\ d.audit = tasks[t].audit
    <3>1. [tasks[t] EXCEPT !.status = "DELETED"] \in Doc
      BY <1>0 DEF Doc, Status, Gone
    <3>2. QED
      BY <1>0, <3>1 DEF Doc
  <2>2. Agrees(d)
    BY <1>0, <2>1, AgreesSame
  <2>3. QED
    BY <1>a, <1>4, <2>1, <2>2 DEF DeleteTask
<1>5. ASSUME UNCHANGED tasks
      PROVE  \A u \in Task : Agrees(tasks'[u])
  BY <1>0, <1>5
<1>6. ASSUME NEW r \in Runner, NEW t \in Task, PreProcess(r, t)
      PROVE  \A u \in Task : Agrees(tasks'[u])
  <2>1. CASE Exists(t)
    <3>1. PICK d \in Doc : /\ d = StoredClaim(tasks[t], work[r][t].doc)
                           /\ d.audit = tasks[t].audit
                           /\ d.status \in {tasks[t].status, "PROCESSING"}
      BY <1>0, StoredClaimType
    <3>2. Agrees(d)
      BY <1>0, <3>1, AgreesSame
    <3>3. QED
      BY <1>a, <1>6, <2>1, <3>1, <3>2 DEF PreProcess
  <2>2. CASE ~Exists(t)
    BY <1>5, <1>6, <2>2 DEF PreProcess
  <2>3. QED
    BY <2>1, <2>2
<1>7. ASSUME NEW r \in Runner, NEW t \in Task, NEW outcome \in Outcome, NEW done \in BOOLEAN,
             PostProcess(r, t, outcome, done)
      PROVE  \A u \in Task : Agrees(tasks'[u])
  <2> DEFINE copy == AfterJob(work[r][t].doc, done)
  <2>1. copy \in Doc
    BY <1>0, AfterJobType
  <2>2. PICK d \in Doc : /\ d = SavedCopy(Rescheduled(Recorded(copy, outcome)))
                         /\ Agrees(d)
    BY <2>1, SavedType, AgreesSaved
  <2>3. UNCHANGED tasks \/ tasks' = [tasks EXCEPT ![t] = d]
    BY <1>7, <2>2 DEF PostProcess
  <2>4. QED
    BY <1>5, <1>a, <2>2, <2>3
<1>8. CASE TimePasses
  <2>1. ASSUME NEW t \in Task
        PROVE  Agrees(tasks'[t])
    <3>1. PICK d \in Doc : /\ d = tasks'[t]
                           /\ d.audit = tasks[t].audit /\ d.status = tasks[t].status
      BY <1>0, <1>8, NearerType, OlderType DEF TimePasses
    <3>2. QED
      BY <1>0, <3>1, AgreesSame
  <2>2. QED
    BY <2>1
<1>9. QED
  BY <1>1, <1>2, <1>3, <1>4, <1>5, <1>6, <1>7, <1>8
     DEF Next, Request, RunnerStep, HandleCron, LoseWorker, vars

(* Two runners that claim and record one task out of order, late saves and  *)
(* lost workers never separate the status of a task from its audit trail.   *)
THEOREM StatusFollowsAudit == Spec => []StatusMatchesAudit
<1>1. Init => StatusInv
  BY InitType, BlankType DEF Init, StatusInv, StatusMatchesAudit, Outcome
<1>2. StatusInv /\ [Next]_vars => StatusInv'
  BY NextType, StatusInvStep DEF StatusInv
<1>3. StatusInv => StatusMatchesAudit
  BY DEF StatusInv
<1>4. QED
  BY <1>1, <1>2, <1>3, PTL DEF Spec

-----------------------------------------------------------------------------
(* Refinement: the queue implements the append-only log. *)

PhaseOf == [t \in Task |-> Phase(tasks[t])]
LogOf == [t \in Task |-> tasks[t].audit]

(* A step that writes one task changes the phase and log of that task only. *)
LEMMA OneTaskWritten ==
  ASSUME tasks \in [Task -> Doc], NEW t \in Task, NEW d \in Doc,
         tasks' = [tasks EXCEPT ![t] = d]
  PROVE  /\ PhaseOf' = [PhaseOf EXCEPT ![t] = Phase(d)]
         /\ LogOf' = [LogOf EXCEPT ![t] = d.audit]
         /\ Phase(d) = PhaseOf[t] => PhaseOf' = PhaseOf
         /\ d.audit = LogOf[t] => LogOf' = LogOf
BY DEF PhaseOf, LogOf

(* The phase depends on the status only. *)
LEMMA PhaseOfStatus ==
  ASSUME NEW d \in Doc
  PROVE  /\ d.status = "ABSENT" => Phase(d) = "absent"
         /\ d.status = "DELETED" => Phase(d) = "gone"
         /\ d.status \notin Gone => Phase(d) = "live"
BY DEF Phase, Gone

LEMMA LogStep ==
  ASSUME VersionInv, VersionInv', [Next]_vars
  PROVE  [Log!Next]_(Log!vars)
<1> USE DEF VersionInv, TypeOK
<1>0. /\ tasks \in [Task -> Doc]
      /\ \A t \in Task : tasks[t] \in Doc
      /\ \A r \in Runner, t \in Task : work[r][t].doc \in Doc
  BY DEF Worker
<1>a. ASSUME PhaseOf' = PhaseOf, LogOf' = LogOf
      PROVE  [Log!Next]_(Log!vars)
  BY <1>a DEF Log!vars, PhaseOf, LogOf
<1>b. ASSUME NEW t \in Task, NEW d \in Doc, tasks' = [tasks EXCEPT ![t] = d],
             Phase(d) = Phase(tasks[t]), d.audit = tasks[t].audit
      PROVE  [Log!Next]_(Log!vars)
  <2>1. PhaseOf' = PhaseOf /\ LogOf' = LogOf
    BY <1>0, <1>b, OneTaskWritten DEF PhaseOf, LogOf
  <2>2. QED
    BY <1>a, <2>1
<1>c. ASSUME NEW t \in Task, NEW d \in Doc, tasks' = [tasks EXCEPT ![t] = d],
             tasks[t].status = "ABSENT", d.status = "QUEUED", d.audit = <<>>
      PROVE  [Log!Next]_(Log!vars)
  <2>1. PhaseOf[t] = "absent" /\ Phase(d) = "live" /\ d.audit = LogOf[t]
    BY <1>0, <1>c, PhaseOfStatus DEF PhaseOf, LogOf, UncreatedIsEmpty, Gone
  <2>2. PhaseOf' = [PhaseOf EXCEPT ![t] = "live"] /\ LogOf' = LogOf
    <3>1. /\ PhaseOf' = [PhaseOf EXCEPT ![t] = Phase(d)]
          /\ d.audit = LogOf[t] => LogOf' = LogOf
      BY <1>0, <1>c, OneTaskWritten
    <3>2. QED
      BY <2>1, <3>1
  <2>3. Log!Create(t)
    BY <2>1, <2>2 DEF Log!Create, PhaseOf, LogOf
  <2>4. QED
    BY <2>3 DEF Log!Next
<1>1. ASSUME NEW t \in Task, NEW rec \in {"ONCE", "RECURRING"}, NEW due \in RunDates,
             CreateScheduledTask(t, rec, due)
      PROVE  [Log!Next]_(Log!vars)
  <2>1. PICK d \in Doc : /\ tasks' = [tasks EXCEPT ![t] = d]
                         /\ d.status = "QUEUED" /\ d.audit = <<>>
    <3>1. /\ NewDoc(rec, TRUE, due) \in Doc
          /\ NewDoc(rec, TRUE, due).status = "QUEUED"
          /\ NewDoc(rec, TRUE, due).audit = <<>>
      BY NewDocType, RunDatesAreInt DEF Recurrence
    <3>2. QED
      BY <1>1, <3>1 DEF CreateScheduledTask
  <2>2. QED
    BY <1>c, <1>1, <2>1 DEF CreateScheduledTask
<1>2. ASSUME NEW t \in Task, NEW rec \in {"ONCE", "RECURRING"}, CreateInstantTask(t, rec)
      PROVE  [Log!Next]_(Log!vars)
  <2>1. PICK d \in Doc : /\ tasks' = [tasks EXCEPT ![t] = d]
                         /\ d.status = "QUEUED" /\ d.audit = <<>>
    <3>1. /\ NewDoc(rec, FALSE, 0) \in Doc
          /\ NewDoc(rec, FALSE, 0).status = "QUEUED"
          /\ NewDoc(rec, FALSE, 0).audit = <<>>
      BY InstantType DEF Recurrence
    <3>2. QED
      BY <1>2, <3>1 DEF CreateInstantTask
  <2>2. QED
    BY <1>c, <1>2, <2>1 DEF CreateInstantTask
<1>3. ASSUME NEW t \in Task, NEW due \in RunDates, SetLastRunDateForTask(t, due)
      PROVE  [Log!Next]_(Log!vars)
  <2>1. PICK d \in Doc : /\ d = LastRun(tasks[t], due)
                         /\ d.audit = tasks[t].audit /\ d.status = tasks[t].status
    BY <1>0, LastRunType
  <2>2. Phase(d) = Phase(tasks[t])
    BY <2>1 DEF Phase
  <2>3. QED
    BY <1>b, <1>3, <2>1, <2>2 DEF SetLastRunDateForTask
<1>4. ASSUME NEW t \in Task, DeleteTask(t)
      PROVE  [Log!Next]_(Log!vars)
  <2>1. PICK d \in Doc : /\ d = [tasks[t] EXCEPT !.status = "DELETED"]
                         /\ d.status = "DELETED" /\ d.audit = tasks[t].audit
    <3>1. [tasks[t] EXCEPT !.status = "DELETED"] \in Doc
      BY <1>0 DEF Doc, Status, Gone
    <3>2. QED
      BY <1>0, <3>1 DEF Doc
  <2>2. PhaseOf[t] = "live" /\ Phase(d) = "gone" /\ d.audit = LogOf[t]
    BY <1>0, <1>4, <2>1, PhaseOfStatus DEF DeleteTask, Exists, PhaseOf, LogOf
  <2>3. PhaseOf' = [PhaseOf EXCEPT ![t] = "gone"] /\ LogOf' = LogOf
    <3>1. tasks' = [tasks EXCEPT ![t] = d]
      BY <1>4, <2>1 DEF DeleteTask
    <3>2. /\ PhaseOf' = [PhaseOf EXCEPT ![t] = Phase(d)]
          /\ d.audit = LogOf[t] => LogOf' = LogOf
      BY <1>0, <3>1, OneTaskWritten
    <3>3. QED
      BY <2>2, <3>2
  <2>4. Log!Delete(t)
    BY <2>2, <2>3 DEF Log!Delete, PhaseOf, LogOf
  <2>5. QED
    BY <2>4 DEF Log!Next
<1>5. ASSUME UNCHANGED tasks
      PROVE  [Log!Next]_(Log!vars)
  BY <1>a, <1>5 DEF PhaseOf, LogOf
<1>6. ASSUME NEW r \in Runner, NEW t \in Task, PreProcess(r, t)
      PROVE  [Log!Next]_(Log!vars)
  <2>1. CASE Exists(t)
    <3>1. PICK d \in Doc : /\ d = StoredClaim(tasks[t], work[r][t].doc)
                           /\ d.audit = tasks[t].audit
                           /\ d.status \in {tasks[t].status, "PROCESSING"}
      BY <1>0, StoredClaimType
    <3>2. Phase(d) = Phase(tasks[t])
      <4>1. tasks[t] \in Doc /\ tasks[t].status \notin Gone /\ d.status \notin Gone
        BY <1>0, <2>1, <3>1 DEF Exists, Gone
      <4>2. Phase(tasks[t]) = "live" /\ Phase(d) = "live"
        BY <4>1, PhaseOfStatus
      <4>3. QED
        BY <4>2
    <3>3. QED
      BY <1>b, <1>6, <2>1, <3>1, <3>2 DEF PreProcess
  <2>2. CASE ~Exists(t)
    BY <1>5, <1>6, <2>2 DEF PreProcess
  <2>3. QED
    BY <2>1, <2>2
<1>7. ASSUME NEW r \in Runner, NEW t \in Task, NEW outcome \in Outcome, NEW done \in BOOLEAN,
             PostProcess(r, t, outcome, done)
      PROVE  [Log!Next]_(Log!vars)
  <2> DEFINE copy == AfterJob(work[r][t].doc, done)
             entry == [attempts |-> copy.attempts, outcome |-> outcome]
  <2>1. copy \in Doc /\ copy.v = work[r][t].doc.v /\ copy.audit = work[r][t].doc.audit
    BY <1>0, AfterJobType
  <2>2. CASE Exists(t) /\ VersionMatches(tasks[t], copy)
    <3>1. PICK d \in Doc : /\ d = SavedCopy(Rescheduled(Recorded(copy, outcome)))
                           /\ d.audit = Append(copy.audit, entry)
                           /\ d.status \notin Gone
      BY <2>1, SavedType DEF Gone, Outcome
    <3>2. tasks[t].audit = copy.audit
      BY <1>7, <2>1, <2>2 DEF PostProcess, VersionMatches, CopiesAreVersioned
    <3>3. entry \in AuditEntry /\ tasks[t].audit \in Seq(AuditEntry)
      BY <1>0, <2>1 DEF AuditEntry, Doc
    <3>4. tasks' = [tasks EXCEPT ![t] = d]
      BY <1>7, <2>2, <3>1 DEF PostProcess
    <3>5. PhaseOf[t] = "live" /\ Phase(d) = PhaseOf[t]
      BY <1>0, <2>2, <3>1, PhaseOfStatus DEF Exists, PhaseOf
    <3>6. PhaseOf' = PhaseOf /\ LogOf' = [LogOf EXCEPT ![t] = d.audit]
      BY <1>0, <3>4, <3>5, OneTaskWritten
    <3> HIDE DEF entry
    <3>7. Log!Extends(d.audit, tasks[t].audit)
      BY <3>1, <3>2, <3>3 DEF Log!Extends
    <3>8. LogOf'[t] = d.audit /\ LogOf[t] = tasks[t].audit
      BY <3>6 DEF LogOf
    <3>9. Log!Record(t)
      BY <3>5, <3>6, <3>7, <3>8 DEF Log!Record, PhaseOf, LogOf
    <3>10. QED
      BY <3>9 DEF Log!Next
  <2>3. CASE ~(Exists(t) /\ VersionMatches(tasks[t], copy))
    BY <1>5, <1>7, <2>3 DEF PostProcess
  <2>4. QED
    BY <2>2, <2>3
<1>8. CASE TimePasses
  <2>1. ASSUME NEW t \in Task
        PROVE  tasks'[t].status = tasks[t].status /\ tasks'[t].audit = tasks[t].audit
    BY <1>0, <1>8, NearerType, OlderType DEF TimePasses
  <2>2. PhaseOf' = PhaseOf /\ LogOf' = LogOf
    <3>1. \A t \in Task : Phase(tasks'[t]) = Phase(tasks[t])
      BY <2>1 DEF Phase
    <3>2. QED
      BY <2>1, <3>1 DEF PhaseOf, LogOf
  <2>3. QED
    BY <1>a, <2>2
<1>9. QED
  BY <1>1, <1>2, <1>3, <1>4, <1>5, <1>6, <1>7, <1>8
     DEF Next, Request, RunnerStep, HandleCron, LoseWorker, vars

LEMMA LogInit == Init => Log!Init
BY BlankType, PhaseOfStatus DEF Init, Log!Init

(* Any number of overlapping runners, claims of stale copies, late saves,   *)
(* lost workers and deletions implement an append-only log of outcomes.     *)
THEOREM Implementation == Spec => ImplementsTaskLog
<1>1. Init => VersionInv
  BY VersionInvInductive
<1>2. VersionInv /\ [Next]_vars => VersionInv'
  BY VersionInvInductive
<1>3. Init => Log!Init
  BY LogInit
<1>4. VersionInv /\ VersionInv' /\ [Next]_vars => [Log!Next]_(Log!vars)
  BY LogStep
<1>5. QED
  BY <1>1, <1>2, <1>3, <1>4, PTL DEF Spec, Log!Spec, ImplementsTaskLog
=============================================================================
