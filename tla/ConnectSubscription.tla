------------------------ MODULE ConnectSubscription ------------------------
(***************************************************************************)
(* The life of one paid subscription (ConnectSubscriptionService): it is   *)
(* activated by its first payment, follows Stripe from one billing cycle   *)
(* to the next, reports metered usage once per cycle, and is canceled by   *)
(* the user or from Stripe.  Webhook handlers, jobs of the task queue and  *)
(* requests of the user work on it at the same time: each reads a plain    *)
(* copy, waits for other services, and saves the copy.  A save overwrites  *)
(* every field, and is refused only when an array differs and another save *)
(* changed an array since the copy was read (Mongoose's __v).              *)
(*                                                                         *)
(* Two ticks of the clock make a billing cycle: cycle c ends at 2c, its    *)
(* metered usage period two days before, at 2c-1.  A period <<from, to>>   *)
(* of metered usage covers the ticks from+1 .. to.                         *)
(***************************************************************************)
EXTENDS Integers, Sequences

CONSTANTS
  Handler,    (* webhooks, jobs and requests in progress at once            *)
  Kinds,      (* the kinds of work that occur, a subset of Kind             *)
  Prompt,     (* is everything handled, one at a time, before time passes?  *)
  MaxClock,   (* bound: ticks of the clock                                  *)
  MaxCharges, (* bound: renewal charges that fail                           *)
  MaxDups,    (* bound: events delivered once more                          *)
  MaxFaults   (* bound: awaited calls that fail                             *)

Kind == {"activate", "period", "status", "failed", "succeeded", "cancel_at", "deleted",
         "usage", "end", "user"}

ASSUME SubscriptionAssumption ==
  /\ Kinds \subseteq Kind
  /\ Prompt \in BOOLEAN
  /\ {MaxClock, MaxCharges, MaxDups, MaxFaults} \subseteq Nat

VARIABLES
  clock,
  stripe,   (* status and cancelAt of the subscription in Stripe            *)
  sent,     (* events not delivered yet                                     *)
  sub,      (* the connect subscription                                     *)
  task,     (* its REPORT_SUBSCRIPTION_USAGE task                           *)
  ending,   (* its SUBSCRIPTION_TERMINATION task                            *)
  service,  (* the user network it pays for                                 *)
  billed,   (* billed[n]: usage records Stripe took that cover tick n       *)
  work,     (* work[h]: what the handler h has read and does next           *)
  count     (* failed charges, duplicates, faults                           *)

vars == <<clock, stripe, sent, sub, task, ending, service, billed, work, count>>

-----------------------------------------------------------------------------
Tick == 1 .. MaxClock

CycleEnd(c) == 2 * c
MeteredEnd(c) == 2 * c - 1          \* calculateMeteredUTCEndDate
MeteredStart(c) == IF c = 1 THEN 0 ELSE MeteredEnd(c - 1)
StripeCycle == clock \div 2 + 1

StripeStatus == {"incomplete", "active", "past_due", "unpaid", "canceled"}
Status == {"Incomplete", "Active", "PastDue", "Unpaid", "PendingCancelation", "Canceled"}

Period == [from : Nat, to : Nat]
Usage == [by : Handler, period : Period]    \* "by" stands for the timestamp of an entry
Doc == [ status : Status, period : Period,
         linked : BOOLEAN,          \* is scheduledTaskId set?
         networks : BOOLEAN,        \* have networks and items been linked?
         audit : Seq(Usage),        \* usageAuditTrail
         v : Nat ]

Task == [state : {"none", "queued", "done", "deleted"}, once : BOOLEAN, due : Nat]
NoTask == [state |-> "none", once |-> FALSE, due |-> 0]

Event == [kind : Kind, arg : Nat, status : StripeStatus]
Ev(kind) == [kind |-> kind, arg |-> 0, status |-> "active"]
StatusEv(s) == [Ev("status") EXCEPT !.status = s]
PeriodEv(cycle) == [Ev("period") EXCEPT !.arg = cycle]
CancelEv(date) == [Ev("cancel_at") EXCEPT !.arg = date]

Stage == {"read", "provision", "schedule", "report", "save", "tasks", "reread", "pend",
          "stop", "terminate", "cancel"}
NoWork == [stage |-> "idle"]
Work == [stage : Stage, event : Event, at : Nat, copy : Doc, tcopy : Task]

Idle(h) == work[h].stage = "idle"
Quiet == sent = {} /\ \A h \in Handler : Idle(h)

Init ==
  /\ clock = 0
  /\ stripe = [status |-> "incomplete", cancelAt |-> FALSE]
  /\ sent = {}
  /\ sub = [ status |-> "Incomplete", period |-> [from |-> 0, to |-> MeteredEnd(1)],
             linked |-> FALSE, networks |-> FALSE, audit |-> <<>>, v |-> 0 ]
  /\ task = NoTask /\ ending = NoTask
  /\ service = "none"
  /\ billed = [n \in Tick |-> 0]
  /\ work = [h \in Handler |-> NoWork]
  /\ count = [charges |-> 0, dups |-> 0, faults |-> 0]

-----------------------------------------------------------------------------
(* Stripe and the clock. *)

Due(t) == t.state = "queued" /\ t.due <= clock

Emits(events) == sent' = sent \cup {e \in events : e.kind \in Kinds}

StripeMoves(from, to, events) ==
  /\ stripe.status \in from
  /\ Prompt => Quiet
  /\ stripe' = [stripe EXCEPT !.status = to]
  /\ Emits(events)
  /\ UNCHANGED <<clock, sub, task, ending, service, billed, work>>

(* The first payment, the charge of a renewal, its retries. *)
StripePays ==
  /\ StripeMoves({"incomplete"}, "active", {Ev("activate"), StatusEv("active")})
  /\ UNCHANGED count

StripeFails ==
  /\ count.charges < MaxCharges /\ clock > 1
  /\ \/ StripeMoves({"active"}, "past_due", {Ev("failed"), StatusEv("past_due")})
     \/ StripeMoves({"past_due"}, "unpaid", {Ev("failed"), StatusEv("unpaid")})
  /\ count' = [count EXCEPT !.charges = @ + 1]

StripeRecovers ==
  /\ StripeMoves({"past_due", "unpaid"}, "active", {Ev("succeeded"), StatusEv("active")})
  /\ UNCHANGED count

StripeCancels ==
  /\ "deleted" \in Kinds
  /\ StripeMoves({"active", "past_due", "unpaid"}, "canceled", {Ev("deleted")})
  /\ UNCHANGED count

(* Cancelation at the end of the cycle, asked for in Stripe. *)
StripeCancelsLater ==
  /\ "cancel_at" \in Kinds
  /\ stripe.status = "active" /\ ~stripe.cancelAt /\ CycleEnd(StripeCycle) <= MaxClock
  /\ Prompt => Quiet
  /\ stripe' = [stripe EXCEPT !.cancelAt = TRUE]
  /\ Emits({CancelEv(CycleEnd(StripeCycle))})
  /\ UNCHANGED <<clock, sub, task, ending, service, billed, work, count>>

(* Time passes; at the end of a cycle Stripe renews or ends what it bills.  *)
TimePasses ==
  /\ clock < MaxClock
  /\ stripe.status # "incomplete"
  /\ Prompt => Quiet /\ ~Due(task) /\ ~Due(ending)
  /\ clock' = clock + 1
  /\ IF stripe.status = "canceled" \/ clock' % 2 = 1
       THEN UNCHANGED <<stripe, sent>>
       ELSE IF stripe.cancelAt
         THEN stripe' = [stripe EXCEPT !.status = "canceled"] /\ Emits({Ev("deleted")})
         ELSE Emits({PeriodEv(clock' \div 2 + 1)}) /\ UNCHANGED stripe
  /\ UNCHANGED <<sub, task, ending, service, billed, work, count>>

-----------------------------------------------------------------------------
(* Work begins: a webhook, a job of the queue, a request of the user. *)

Begins(h, event) ==
  /\ Idle(h)
  /\ Prompt => \A g \in Handler : Idle(g)
  /\ work' = [work EXCEPT ![h] = [stage |-> "read", event |-> event, at |-> clock,
                                  copy |-> sub, tcopy |-> task]]
  /\ UNCHANGED <<clock, stripe, sub, task, ending, service, billed>>

Webhook(h, e) ==
  /\ e \in sent
  /\ Begins(h, e)
  /\ \/ sent' = sent \ {e} /\ UNCHANGED count
     \/ /\ count.dups < MaxDups
        /\ count' = [count EXCEPT !.dups = @ + 1]
        /\ UNCHANGED sent

Running(kind) == \E h \in Handler : ~Idle(h) /\ work[h].event.kind = kind

Job(h, kind) ==
  /\ kind \in Kinds
  /\ \/ kind = "usage" /\ Due(task)
     \/ kind = "end" /\ Due(ending)
  /\ ~Running(kind)
  /\ Begins(h, Ev(kind))
  /\ UNCHANGED <<sent, count>>

UserCancels(h) ==
  /\ "user" \in Kinds
  /\ sub.status = "Active"
  /\ Prompt => Quiet
  /\ ~Running("user")
  /\ Begins(h, Ev("user"))
  /\ UNCHANGED <<sent, count>>

-----------------------------------------------------------------------------
(* The steps of a handler, each between two of its awaits. *)

Ends(h) == work' = [work EXCEPT ![h] = NoWork]
Goes(h, stage, copy) == work' = [work EXCEPT ![h] = [@ EXCEPT !.stage = stage, !.copy = copy]]

At(h, stage, kinds) == work[h].stage = stage /\ work[h].event.kind \in kinds

Ended == {"Canceled", "PendingCancelation"}

(* Mutants of Mapped: Stripe's own words; past_due taken for active.        *)
MappedRaw(s) == s
MappedLenient(s) ==
  CASE s = "incomplete" -> "Incomplete" [] s \in {"active", "past_due"} -> "Active"
    [] s = "unpaid" -> "Unpaid" [] s = "canceled" -> "Canceled"

Mapped(s) ==        \* mapStripeSubscriptionStatusToConnectSubscriptionStatusHelper
  CASE s = "incomplete" -> "Incomplete" [] s = "active" -> "Active"
    [] s = "past_due" -> "PastDue" [] s = "unpaid" -> "Unpaid" [] s = "canceled" -> "Canceled"

(* Mutant of Proceeds: a status event of a subscription that is to end.     *)
ProceedsWhenEnding(e, copy) ==
  CASE e.kind = "status" -> Mapped(e.status) \notin {"Canceled", copy.status}
    [] e.kind = "failed" -> copy.status # "Unpaid"
    [] e.kind \in {"cancel_at", "deleted"} -> copy.status \notin Ended
    [] e.kind = "user" -> copy.status = "Active"
    [] OTHER -> TRUE

(* The early returns after the subscription was read. *)
Proceeds(e, copy) ==
  CASE e.kind = "status" ->
         /\ copy.status # "PendingCancelation"
         /\ Mapped(e.status) \notin {"Canceled", copy.status}
    [] e.kind = "failed" -> copy.status # "Unpaid"
    [] e.kind \in {"cancel_at", "deleted"} -> copy.status \notin Ended
    [] e.kind = "user" -> copy.status = "Active"
    [] OTHER -> TRUE

NextStage(kind) ==
  CASE kind = "activate" -> "provision"
    [] kind \in {"usage", "user"} -> "report"
    [] kind = "end" -> "terminate"
    [] OTHER -> "save"

Read(h) ==
  /\ work[h].stage = "read"
  /\ IF Proceeds(work[h].event, sub)
       THEN Goes(h, NextStage(work[h].event.kind), sub)
       ELSE Ends(h)
  /\ UNCHANGED <<clock, stripe, sent, sub, task, ending, service, billed, count>>

(* Saving a plain copy.  An Active subscription without a task is invalid.  *)
Valid(new) == new.status = "Active" => new.linked
VersionIgnored(new) == TRUE         \* mutant of VersionMatches
ArraysDiffer(new) == <<sub.audit, sub.networks>> # <<new.audit, new.networks>>
VersionMatches(new) == sub.v = new.v
Savable(new) == Valid(new) /\ (ArraysDiffer(new) => VersionMatches(new))
Saved(new) == IF ArraysDiffer(new) THEN [new EXCEPT !.v = @ + 1] ELSE new

(* Save, then go on to the next stage with the document saved, or throw.    *)
Persists(h, new, stage) ==
  IF Savable(new)
    THEN sub' = Saved(new) /\ (IF stage = "idle" THEN Ends(h) ELSE Goes(h, stage, Saved(new)))
    ELSE Ends(h) /\ UNCHANGED sub

(* markSubscriptionActive...: the network, the task, then the subscription. *)
Provision(h) ==
  /\ At(h, "provision", {"activate"})
  /\ service' = "on"
  /\ Goes(h, "schedule", [work[h].copy EXCEPT !.status = "Active", !.networks = TRUE])
  /\ UNCHANGED <<clock, stripe, sent, sub, task, ending, billed, count>>

Schedule(h) ==
  /\ At(h, "schedule", {"activate"})
  /\ task' = [state |-> "queued", once |-> FALSE, due |-> work[h].copy.period.to]
  /\ Goes(h, "save", [work[h].copy EXCEPT !.linked = TRUE])
  /\ UNCHANGED <<clock, stripe, sent, sub, ending, service, billed, count>>

(* updateSubscriptionPeriodAndEnsureNewInvoiceIsCreated.  Its mutant lets   *)
(* the new period begin where the old one did.                              *)
NextPeriodKeepsStart(copy, cycle) == [from |-> copy.period.from, to |-> MeteredEnd(cycle)]
NextPeriod(copy, cycle) == [from |-> copy.period.to, to |-> MeteredEnd(cycle)]

(* ensureSubscriptionStatusAndCapture...: what Stripe answers, or a default *)
(* when it does not.                                                        *)
PaidStatus(copy, answered) ==
  IF answered THEN Mapped(stripe.status)
  ELSE IF copy.status \in Ended THEN copy.status ELSE "Active"

(* cancelSubscriptionAndEnsureInvoiceIsCreated *)
CancelDate(w) == IF w.event.kind = "cancel_at" THEN w.event.arg ELSE w.at
InFuture(w) == CancelDate(w) > clock

WithEnd(w) ==
  [w.copy EXCEPT !.period.to = IF InFuture(w) THEN CancelDate(w) - 1 ELSE CancelDate(w),
                 !.status = IF InFuture(w) THEN "PendingCancelation" ELSE "Canceled"]

Changed(w, answered) ==
  LET kind == w.event.kind IN
  CASE kind = "period" -> [w.copy EXCEPT !.period = NextPeriod(w.copy, w.event.arg)]
    [] kind = "status" -> [w.copy EXCEPT !.status = Mapped(w.event.status)]
    [] kind = "failed" -> [w.copy EXCEPT !.status = "Unpaid"]
    [] kind = "succeeded" -> [w.copy EXCEPT !.status = PaidStatus(w.copy, answered)]
    [] kind \in {"cancel_at", "deleted"} -> WithEnd(w)
    [] OTHER -> w.copy

WebhookKinds == {"activate", "period", "status", "failed", "succeeded", "cancel_at", "deleted"}

Save(h, answered) ==
  LET w == work[h] IN
  /\ At(h, "save", WebhookKinds)
  /\ ~answered => w.event.kind = "succeeded" /\ count.faults < MaxFaults
  /\ Persists(h, Changed(w, answered),
              IF w.event.kind \in {"cancel_at", "deleted"} THEN "tasks" ELSE "idle")
  /\ count' = IF answered THEN count ELSE [count EXCEPT !.faults = @ + 1]
  /\ UNCHANGED <<clock, stripe, sent, task, ending, service, billed>>

(* Once the cancelation is saved: the last usage report and the termination *)
(* of the services are scheduled.                                           *)
LastRun(t, date) ==
  IF t.state \in {"queued", "done"} THEN [t EXCEPT !.once = TRUE, !.due = date] ELSE t

ScheduleEnd(h) ==
  LET w == work[h] IN
  /\ work[h].stage = "tasks"
  /\ task' = LastRun(task, w.copy.period.to)
  /\ ending' = [state |-> "queued", once |-> TRUE, due |-> CancelDate(w)]
  /\ Ends(h)
  /\ UNCHANGED <<clock, stripe, sent, sub, service, billed, count>>

(* processSubscriptionMeteredUsage: Stripe adds the usage to what it has,   *)
(* then the audit trail is saved with the copy read before.                 *)
Covers(period, n) == period.from < n /\ n <= period.to /\ n <= clock

Report(h) ==
  LET copy == work[h].copy IN
  /\ At(h, "report", {"usage", "user"})
  /\ billed' = [n \in Tick |-> billed[n] + IF Covers(copy.period, n) THEN 1 ELSE 0]
  /\ Goes(h, "save", [copy EXCEPT !.audit = Append(@, [by |-> h, period |-> copy.period])])
  /\ UNCHANGED <<clock, stripe, sent, sub, task, ending, service, count>>

(* The job is over: the queue saves its own copy of the task, rescheduled   *)
(* for the next cycle if it recurs; after an error it stays due.            *)
JobSkips(t, tcopy) ==               \* mutant of JobDone: two months at a time
  IF t.state # "queued" THEN t ELSE [tcopy EXCEPT !.due = @ + 4]
JobRepeats(t, tcopy) == t           \* mutant of JobDone: not rescheduled
JobDone(t, tcopy) ==
  IF t.state # "queued" THEN t
  ELSE [state |-> IF tcopy.once THEN "done" ELSE "queued", once |-> tcopy.once,
        due |-> IF tcopy.once THEN tcopy.due ELSE tcopy.due + 2]

SaveUsage(h) ==
  /\ At(h, "save", {"usage"})
  /\ Persists(h, work[h].copy, "idle")
  /\ task' = IF Savable(work[h].copy) THEN JobDone(task, work[h].tcopy) ELSE task
  /\ UNCHANGED <<clock, stripe, sent, ending, service, billed, count>>

(* processSubscriptionTermination: errors of the services are only logged.  *)
TerminatedIfDisabled(s) == IF s = "disabled" THEN "terminated" ELSE s    \* mutant
Terminated(s) == IF s = "none" THEN s ELSE "terminated"

Terminate(h) ==
  /\ At(h, "terminate", {"end", "user"})
  /\ service' = Terminated(service)
  /\ Goes(h, "cancel", [work[h].copy EXCEPT !.status = "Canceled"])
  /\ UNCHANGED <<clock, stripe, sent, sub, task, ending, billed, count>>

SaveCanceled(h) ==
  LET w == work[h] IN
  /\ work[h].stage = "cancel"
  /\ Persists(h, w.copy, "idle")
  /\ ending' = IF w.event.kind = "end" /\ Savable(w.copy)
                 THEN [ending EXCEPT !.state = "done"] ELSE ending
  /\ UNCHANGED <<clock, stripe, sent, task, service, billed, count>>

(* cancelSelectServicesByNetworkIdAndBillingCategory, when nothing is left: *)
(* usage, PendingCancelation, Stripe and the task, services, Canceled.      *)
UserSavesUsage(h) ==
  /\ At(h, "save", {"user"})
  /\ Persists(h, work[h].copy, "reread")
  /\ UNCHANGED <<clock, stripe, sent, task, ending, service, billed, count>>

UserRereads(h) ==
  /\ At(h, "reread", {"user"})
  /\ Goes(h, "pend", [sub EXCEPT !.status = "PendingCancelation"])
  /\ UNCHANGED <<clock, stripe, sent, sub, task, ending, service, billed, count>>

UserPends(h) ==
  /\ At(h, "pend", {"user"})
  /\ Persists(h, work[h].copy, "stop")
  /\ UNCHANGED <<clock, stripe, sent, task, ending, service, billed, count>>

UserStops(h) ==
  /\ At(h, "stop", {"user"})
  /\ service' = IF service = "on" THEN "disabled" ELSE service
  /\ stripe' = [stripe EXCEPT !.status = "canceled"]
  /\ IF stripe.status = "canceled" THEN UNCHANGED sent ELSE Emits({Ev("deleted")})
  /\ task' = [task EXCEPT !.state = "deleted"]
  /\ IF service = "none" THEN Ends(h) ELSE Goes(h, "terminate", work[h].copy)
  /\ UNCHANGED <<clock, sub, ending, billed, count>>

(* An awaited call rejects.  The webhook swallows the exception, the task   *)
(* queue runs a failed job again, the user sees an error.                   *)
Throws(h) ==
  /\ ~Idle(h) /\ count.faults < MaxFaults
  /\ Ends(h)
  /\ count' = [count EXCEPT !.faults = @ + 1]
  /\ UNCHANGED <<clock, stripe, sent, sub, task, ending, service, billed>>

HandlerStep(h) ==
  \/ Read(h) \/ Provision(h) \/ Schedule(h) \/ ScheduleEnd(h)
  \/ \E answered \in BOOLEAN : Save(h, answered)
  \/ Report(h) \/ SaveUsage(h) \/ Terminate(h) \/ SaveCanceled(h)
  \/ UserSavesUsage(h) \/ UserRereads(h) \/ UserPends(h) \/ UserStops(h)

Next ==
  \/ StripePays \/ StripeFails \/ StripeRecovers \/ StripeCancels \/ StripeCancelsLater
  \/ TimePasses
  \/ \E h \in Handler :
       \/ \E e \in sent : Webhook(h, e)
       \/ \E kind \in {"usage", "end"} : Job(h, kind)
       \/ UserCancels(h)
       \/ HandlerStep(h)
       \/ Throws(h)

Spec == Init /\ [][Next]_vars

(* Stripe delivers every event, the queue runs every due job, and handlers  *)
(* go on; users and Stripe need not do anything.                            *)
Fairness ==
  /\ WF_vars(TimePasses)
  /\ \A h \in Handler : WF_vars(HandlerStep(h))
  /\ WF_vars(\E h \in Handler, e \in sent : Webhook(h, e))
  /\ \A kind \in {"usage", "end"} : WF_vars(\E h \in Handler : Job(h, kind))

FairSpec == Spec /\ Fairness

-----------------------------------------------------------------------------
(* Properties. *)

(* The type invariant. *)
TypeOK ==
  /\ clock \in 0 .. MaxClock
  /\ stripe \in [status : StripeStatus, cancelAt : BOOLEAN]
  /\ sent \subseteq Event
  /\ sub \in Doc
  /\ task \in Task /\ ending \in Task
  /\ service \in {"none", "on", "disabled", "terminated"}
  /\ billed \in [Tick -> Nat]
  /\ work \in [Handler -> Work \cup {NoWork}]
  /\ count \in [charges : 0 .. MaxCharges, dups : 0 .. MaxDups, faults : 0 .. MaxFaults]

(* No usage report is lost from the audit trail by the saves of other       *)
(* handlers, however they interleave (updateByIdAndSave of plain copies):   *)
(* the trail only ever grows at its end.                                    *)
IsPrefixOf(s, t) == Len(s) <= Len(t) /\ SubSeq(t, 1, Len(s)) = s

AuditOnlyGrows == [][IsPrefixOf(sub.audit, sub'.audit)]_vars

(* What makes the version check sufficient: a copy whose version is the     *)
(* stored one was read after the last change of an array, and holds at most *)
(* the report of its own handler on top.                                    *)
CopiesAreVersioned ==
  \A h \in Handler :
    ~Idle(h) /\ work[h].copy.v = sub.v =>
      /\ IsPrefixOf(sub.audit, work[h].copy.audit)
      /\ sub.networks => work[h].copy.networks

(* Each tick of metered usage is billed at most once: no period is reported *)
(* twice to Stripe, which adds up what it is sent.                          *)
BilledOnce == \A n \in Tick : billed[n] <= 1

(* ... and none is forgotten: when nothing is in progress, the usage of     *)
(* every metered period that ended has been reported.                       *)
BilledCompletely ==
  Quiet /\ ~Due(task) /\ service = "on" =>
    \A n \in Tick : (\E c \in Tick : n <= MeteredEnd(c) /\ MeteredEnd(c) <= clock)
                      => billed[n] >= 1

(* The current period is "kept in sync with stripe": between two events it  *)
(* is the metered period of Stripe's billing cycle.                         *)
WindowFollowsCycle ==
  Quiet /\ sub.status = "Active" =>
    sub.period = [from |-> MeteredStart(StripeCycle), to |-> MeteredEnd(StripeCycle)]

(* When every event is handled the status is the one Stripe has (after a    *)
(* failed charge the code says Unpaid before Stripe does).                  *)
Mirrors(s) ==
  (CASE s = "incomplete" -> {"Incomplete"} [] s = "active" -> {"Active"}
     [] s = "past_due" -> {"PastDue", "Unpaid"} [] s = "unpaid" -> {"Unpaid"}
     [] s = "canceled" -> Ended)
  \cup (IF stripe.cancelAt THEN {"PendingCancelation"} ELSE {})

StatusSynchronised == Quiet => sub.status \in Mirrors(stripe.status)

(* A subscription that is canceled, or "scheduled to cancel", stays so.     *)
CancelationStays == [][sub.status \in Ended => sub'.status \in Ended]_vars

(* A canceled subscription has "services [that] should be canceled": after  *)
(* Stripe ended it, it is Canceled and its services are not left running.   *)
SubscriptionEnds ==
  stripe.status = "canceled" ~> sub.status = "Canceled" /\ service # "on"
=============================================================================
