----------------------------- MODULE TaskQueue -----------------------------
(***************************************************************************)
(* The task queue of core (TaskQueueItemDataService) and the cron runner   *)
(* that empties it (TasksRunnerService).  A task is a document of MongoDB. *)
(* Every tick of the cron job, in every replica of the service, reads the  *)
(* pending tasks and works on each of them: it claims the task with one    *)
(* write, runs the job, and writes the outcome back from the copy it holds *)
(* since the claim.  Nothing but Mongoose's version check orders two       *)
(* runners, and other services change or delete a task meanwhile.          *)
(*                                                                         *)
(* Time is counted in ticks of the cron job (5 minutes) and kept relative: *)
(* "due" is the runDate minus now, "age" the time since updatedOn.         *)
(***************************************************************************)
EXTENDS Integers, Sequences

CONSTANTS
  Task,             (* the identifiers of tasks                             *)
  Runner,           (* executions of handleCron that may overlap            *)
  NodeTermination,  (* the tasks of type BIP_NODE_TERMINATION               *)
  MaxAttempts,      (* MAX_ATTEMPTS                                         *)
  LimboAge,         (* ticks after which a PROCESSING task is in limbo      *)
  Period,           (* ticks between two runs of a recurring task           *)
  MaxLag,           (* bound: a task later than this counts as this late    *)
  MaxAudit,         (* bound: outcomes recorded per task                    *)
  MaxLost           (* bound: workers lost to a crash or a failed database  *)

ASSUME TaskQueueAssumption ==
  /\ NodeTermination \subseteq Task
  /\ MaxAttempts \in Nat \ {0}
  /\ LimboAge \in Nat \ {0}
  /\ Period \in Nat \ {0}
  /\ MaxLag \in Nat
  /\ MaxAudit \in Nat
  /\ MaxLost \in Nat

VARIABLES
  tasks,    (* tasks[t]: the stored document                               *)
  work,     (* work[r][t]: what the tick r does with t, and its copy of it *)
  lost      (* how many workers were lost                                  *)

vars == <<tasks, work, lost>>

-----------------------------------------------------------------------------
(* Documents. *)

Outcome == {"SUCCESS", "ERROR"}
Recurrence == {"ONCE", "RECURRING", "DONE"}
Gone == {"ABSENT", "DELETED"}
Status == {"QUEUED", "PROCESSING"} \cup Outcome \cup Gone

AuditEntry == [attempts : Nat, outcome : Outcome]

Doc ==
  [ status     : Status,
    recurrence : Recurrence,
    attempts   : Nat,
    dated      : BOOLEAN,          \* is there a runDate?
    due        : Int,
    age        : 0 .. LimboAge,
    audit      : Seq(AuditEntry),
    v          : Nat ]             \* __v, the version Mongoose keeps

NewDoc(recurrence, dated, due) ==
  [ status |-> "QUEUED", recurrence |-> recurrence, attempts |-> 0,
    dated |-> dated, due |-> due, age |-> 0, audit |-> <<>>, v |-> 0 ]

Blank == [NewDoc("ONCE", FALSE, 0) EXCEPT !.status = "ABSENT"]

Stage == {"idle", "fetched", "running"}
Worker == [stage : Stage, doc : Doc]
Idle == [stage |-> "idle", doc |-> Blank]

Exists(t) == tasks[t].status \notin Gone

(* getPendingTask: due, queued or failed, and not out of attempts; or       *)
(* PROCESSING for so long that its runner must have died.                   *)
IsDue(doc) == ~doc.dated \/ doc.due <= 0

InLimbo(doc) == doc.status = "PROCESSING" /\ doc.age >= LimboAge

(* Mutant of Pending: no limbo. *)
PendingWithoutLimbo(t) ==
  /\ IsDue(tasks[t])
  /\ tasks[t].status \in {"QUEUED", "ERROR"}
  /\ tasks[t].attempts < MaxAttempts

Pending(t) ==
  LET doc == tasks[t] IN
  \/ /\ IsDue(doc)
     /\ doc.status \in {"QUEUED", "ERROR"}
     /\ doc.attempts < MaxAttempts
  \/ InLimbo(doc)

Init ==
  /\ tasks = [t \in Task |-> Blank]
  /\ work = [r \in Runner |-> [t \in Task |-> Idle]]
  /\ lost = 0

-----------------------------------------------------------------------------
(* The operations other services call. *)

CreateScheduledTask(t, recurrence, due) ==
  /\ tasks[t].status = "ABSENT"
  /\ tasks' = [tasks EXCEPT ![t] = NewDoc(recurrence, TRUE, due)]
  /\ UNCHANGED <<work, lost>>

CreateInstantTask(t, recurrence) ==
  /\ tasks[t].status = "ABSENT"
  /\ tasks' = [tasks EXCEPT ![t] = NewDoc(recurrence, FALSE, 0)]
  /\ UNCHANGED <<work, lost>>

(* The document read is a live one, so that saving it writes the fields     *)
(* assigned since and leaves the others alone.                              *)
LastRun(doc, due) ==
  [doc EXCEPT !.recurrence = "ONCE", !.dated = TRUE, !.due = due, !.age = 0]

SetLastRunDateForTask(t, due) ==
  /\ Exists(t)
  /\ tasks' = [tasks EXCEPT ![t] = LastRun(@, due)]
  /\ UNCHANGED <<work, lost>>

DeleteTask(t) ==
  /\ Exists(t)
  /\ tasks' = [tasks EXCEPT ![t].status = "DELETED"]
  /\ UNCHANGED <<work, lost>>

-----------------------------------------------------------------------------
(* One tick of the cron job. *)

Quiet(r) == \A t \in Task : work[r][t].stage = "idle"

(* updatedOn is never read from a copy: it is written anew at every save. *)
Copy(doc) == [doc EXCEPT !.age = 0]

(* MaxAudit keeps the log finite: a full task is not picked up again. *)
Fetchable(t) == Pending(t) /\ Len(tasks[t].audit) < MaxAudit

HandleCron(r) ==
  /\ Quiet(r)
  /\ \E t \in Task : Fetchable(t)
  /\ work' = [work EXCEPT ![r] =
                [t \in Task |-> IF Fetchable(t)
                                  THEN [stage |-> "fetched", doc |-> Copy(tasks[t])]
                                  ELSE Idle]]
  /\ UNCHANGED <<tasks, lost>>

Claimed(doc) ==
  [doc EXCEPT !.status = "PROCESSING", !.attempts = @ + 1, !.age = 0]

(* A claim writes what it changed in the copy that was read: the status     *)
(* only if the copy was not PROCESSING already, attempts counted from the   *)
(* copy.  The job then works on the copy, not on the stored document.       *)
StoredClaim(stored, copy) ==
  [stored EXCEPT !.status = IF copy.status = "PROCESSING" THEN @ ELSE "PROCESSING",
                 !.attempts = copy.attempts + 1,
                 !.age = 0]

(* preProcessHelper.  Saving a task that was deleted meanwhile throws, and  *)
(* the worker ends there.                                                   *)
PreProcess(r, t) ==
  LET copy == work[r][t].doc IN
  /\ work[r][t].stage = "fetched"
  /\ IF Exists(t)
       THEN /\ tasks' = [tasks EXCEPT ![t] = StoredClaim(@, copy)]
            /\ work' = [work EXCEPT ![r][t] =
                          [stage |-> "running", doc |-> Claimed(copy)]]
       ELSE /\ work' = [work EXCEPT ![r][t] = Idle]
            /\ UNCHANGED tasks
  /\ UNCHANGED lost

(* What postProcessHelper makes of its copy: the outcome in the audit       *)
(* trail and, after a success only, the next run of a recurring task.       *)
RecordedBeforeStatus(doc, outcome) ==    \* mutant: the audit entry comes first
  [doc EXCEPT !.audit = Append(@, [attempts |-> doc.attempts, outcome |-> doc.status]),
              !.status = outcome, !.age = 0]

Recorded(doc, outcome) ==
  [doc EXCEPT !.status = outcome, !.age = 0,
              !.audit = Append(@, [attempts |-> doc.attempts, outcome |-> outcome])]

RescheduledAlways(doc) ==                \* mutant: a failure is rescheduled too
  IF doc.recurrence = "RECURRING"
    THEN [doc EXCEPT !.status = "QUEUED", !.attempts = 0, !.dated = TRUE,
                     !.due = (IF doc.dated THEN doc.due ELSE 0) + Period]
    ELSE doc

Rescheduled(doc) ==
  IF doc.status = "SUCCESS" /\ doc.recurrence = "RECURRING"
    THEN [doc EXCEPT !.status = "QUEUED", !.attempts = 0, !.dated = TRUE,
                     !.due = (IF doc.dated THEN doc.due ELSE 0) + Period]
    ELSE doc

(* Saving a plain copy overwrites every field.  The audit trail is an array *)
(* that changed, so Mongoose writes only over the version that was read.    *)
VersionIgnored(stored, copy) == TRUE     \* mutant: the last save wins

VersionMatches(stored, copy) == stored.v = copy.v

SavedCopy(doc) == [doc EXCEPT !.v = @ + 1]

(* A node termination job that finds the node ready ends its recurrence.    *)
AfterJob(doc, done) == [doc EXCEPT !.recurrence = IF done THEN "DONE" ELSE @]

(* The job ends and postProcessHelper records it: nothing is written when   *)
(* the task is gone or the version check fails (the save throws).           *)
PostProcess(r, t, outcome, done) ==
  LET copy == AfterJob(work[r][t].doc, done) IN
  /\ work[r][t].stage = "running"
  /\ done => t \in NodeTermination /\ outcome = "SUCCESS"
  /\ tasks' = IF Exists(t) /\ VersionMatches(tasks[t], copy)
                THEN [tasks EXCEPT ![t] = SavedCopy(Rescheduled(Recorded(copy, outcome)))]
                ELSE tasks
  /\ work' = [work EXCEPT ![r][t] = Idle]
  /\ UNCHANGED lost

-----------------------------------------------------------------------------
(* The environment. *)

(* A process dies, or the database fails under one of its workers: the      *)
(* exception ends the worker and nobody handles it.                         *)
LoseWorker(r, t) ==
  /\ lost < MaxLost
  /\ work[r][t].stage # "idle"
  /\ work' = [work EXCEPT ![r][t] = Idle]
  /\ lost' = lost + 1
  /\ UNCHANGED tasks

Nearer(doc) ==
  [doc EXCEPT !.due = IF doc.dated /\ @ > -MaxLag THEN @ - 1 ELSE @]

Older(doc) ==
  [doc EXCEPT !.age = IF @ < LimboAge THEN @ + 1 ELSE @]

(* Five minutes pass, for the stored dates and for those in the copies. *)
TimePasses ==
  /\ tasks' = [t \in Task |-> IF Exists(t) THEN Older(Nearer(tasks[t]))
                                       ELSE tasks[t]]
  /\ work' = [r \in Runner |-> [t \in Task |->
                IF work[r][t].stage = "idle" THEN work[r][t]
                ELSE [work[r][t] EXCEPT !.doc = Nearer(@)]]]
  /\ UNCHANGED lost

RunDates == {0, Period}

Request ==
  \E t \in Task :
    \/ \E due \in RunDates :
         \/ \E recurrence \in {"ONCE", "RECURRING"} : CreateScheduledTask(t, recurrence, due)
         \/ SetLastRunDateForTask(t, due)
    \/ \E recurrence \in {"ONCE", "RECURRING"} : CreateInstantTask(t, recurrence)
    \/ DeleteTask(t)

RunnerStep(r) ==
  \/ HandleCron(r)
  \/ \E t \in Task :
       \/ PreProcess(r, t)
       \/ \E outcome \in Outcome, done \in BOOLEAN : PostProcess(r, t, outcome, done)

Next ==
  \/ Request
  \/ \E r \in Runner : RunnerStep(r)
  \/ \E r \in Runner, t \in Task : LoseWorker(r, t)
  \/ TimePasses

Spec == Init /\ [][Next]_vars

(***************************************************************************)
(* Fairness: time passes, the cron job fires again (it never waits for the *)
(* previous tick), and a worker that is not lost goes on to its next step. *)
(***************************************************************************)
Fairness ==
  /\ WF_vars(TimePasses)
  /\ \A r \in Runner :
       /\ WF_vars(HandleCron(r))
       /\ \A t \in Task :
            /\ WF_vars(PreProcess(r, t))
            /\ WF_vars(\E outcome \in Outcome, done \in BOOLEAN :
                         PostProcess(r, t, outcome, done))

FairSpec == Spec /\ Fairness

-----------------------------------------------------------------------------
(* Properties. *)

(* The type invariant. *)
TypeOK ==
  /\ tasks \in [Task -> Doc]
  /\ work \in [Runner -> [Task -> Worker]]
  /\ lost \in 0 .. MaxLost

(* The status of a task agrees with its audit trail: a task shown as failed *)
(* or succeeded has that outcome recorded last, and a queued task has never *)
(* run or succeeded last.  Two runners that claim and record the same task  *)
(* out of order (processTask, updateTask) never separate the two.           *)
LastOutcome(doc) == doc.audit[Len(doc.audit)].outcome

StatusMatchesAudit ==
  \A t \in Task :
    LET doc == tasks[t] IN
    /\ doc.status \in Outcome => doc.audit # <<>> /\ LastOutcome(doc) = doc.status
    /\ doc.status = "QUEUED" => doc.audit = <<>> \/ LastOutcome(doc) = "SUCCESS"

(* A copy is never newer than the stored task, and as long as the versions  *)
(* agree nobody else has recorded an outcome: what makes the version check  *)
(* of the save in postProcessHelper sufficient.                             *)
CopiesAreVersioned ==
  \A r \in Runner, t \in Task :
    work[r][t].stage # "idle" =>
      LET copy == work[r][t].doc IN
      /\ copy.v <= tasks[t].v
      /\ copy.v = tasks[t].v => copy.audit = tasks[t].audit

(* The queue implements its promise: whatever the runners do, the audit     *)
(* trail of a task is an append-only log (updateTask, deleteTask).          *)
Phase(doc) ==
  CASE doc.status = "ABSENT"  -> "absent"
    [] doc.status = "DELETED" -> "gone"
    [] OTHER                  -> "live"

Log == INSTANCE TaskLog
         WITH Outcome <- AuditEntry,
              phase <- [t \in Task |-> Phase(tasks[t])],
              log <- [t \in Task |-> tasks[t].audit]

ImplementsTaskLog == Log!Spec

(* "setting to once will ensure no more future runs": once its last run     *)
(* date is set, a task does not become recurring again.                     *)
LastRunStaysLast ==
  [][\A t \in Task :
       tasks[t].recurrence = "ONCE" /\ Exists(t) => tasks'[t].recurrence # "RECURRING"]_vars

(* Nothing stays in the hands of a worker that died, and nothing is retried *)
(* for ever: once other services leave a task alone, it succeeds for good,  *)
(* or is out of attempts and not PROCESSING (getPendingTask's limbo clause, *)
(* MAX_ATTEMPTS).  The log the model bounds may be full first.              *)
Full(t) == Len(tasks[t].audit) = MaxAudit

Settled(t) ==
  \/ ~Exists(t)
  \/ tasks[t].status = "SUCCESS"
  \/ tasks[t].status # "PROCESSING" /\ tasks[t].attempts >= MaxAttempts
  \/ Full(t)

RequestsCease == <>[][~Request]_vars

EveryTaskSettles == RequestsCease => \A t \in Task : <>[]Settled(t)

(* "a task that will be picked up by task runner on run date": a task that  *)
(* is queued does not stay queued.                                          *)
QueuedIsPickedUp ==
  RequestsCease =>
    \A t \in Task : tasks[t].status = "QUEUED" ~> tasks[t].status # "QUEUED" \/ Full(t)
=============================================================================
