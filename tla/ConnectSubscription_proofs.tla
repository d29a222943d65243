--------------------- MODULE ConnectSubscription_proofs ---------------------
(***************************************************************************)
(* Theorems about ConnectSubscription, for any handlers, kinds of work and *)
(* bounds.                                                                 *)
(***************************************************************************)
EXTENDS ConnectSubscription, TLAPS

USE SubscriptionAssumption

-----------------------------------------------------------------------------
(* The type invariant.  It is inductive once the cycles that period events  *)
(* announce are counted from 1, for the metered end of cycle 0 is -1.       *)
Timely(e) == e.kind = "period" => e.arg >= 1

WorkOK ==
  /\ work \in [Handler -> Work \cup {NoWork}]
  /\ \A h \in Handler : ~Idle(h) => Timely(work[h].event)

IInv == TypeOK /\ WorkOK /\ \A e \in sent : Timely(e)

LEMMA Busy ==
  ASSUME WorkOK, NEW h \in Handler, ~Idle(h)
  PROVE  work[h] \in Work /\ Timely(work[h].event)
  BY DEF WorkOK, Idle, NoWork

LEMMA WorkFields ==
  ASSUME NEW w \in Work
  PROVE  /\ w.stage \in Stage /\ w.event \in Event /\ w.at \in Nat
         /\ w.copy \in Doc /\ w.tcopy \in Task /\ w.stage # "idle"
  BY DEF Work, Stage

LEMMA DocFields ==
  ASSUME NEW d \in Doc
  PROVE  /\ d.status \in Status /\ d.period \in Period /\ d.linked \in BOOLEAN
         /\ d.networks \in BOOLEAN /\ d.audit \in Seq(Usage) /\ d.v \in Nat
  BY DEF Doc

LEMMA DocUpdates ==
  ASSUME NEW d \in Doc
  PROVE  /\ \A s \in Status : [d EXCEPT !.status = s] \in Doc
         /\ \A p \in Period : [d EXCEPT !.period = p] \in Doc
         /\ \A b \in BOOLEAN : [d EXCEPT !.linked = b] \in Doc
         /\ \A s \in Status, b \in BOOLEAN : [d EXCEPT !.status = s, !.networks = b] \in Doc
         /\ \A t \in Seq(Usage) : [d EXCEPT !.audit = t] \in Doc
         /\ \A n \in Nat : [d EXCEPT !.v = n] \in Doc
         /\ \A n \in Nat, s \in Status : [d EXCEPT !.period.to = n, !.status = s] \in Doc
  BY DEF Doc, Period

(* A handler goes on, ends, or begins. *)
LEMMA Going ==
  ASSUME WorkOK, NEW h \in Handler, ~Idle(h), NEW stage \in Stage, NEW copy \in Doc,
         Goes(h, stage, copy)
  PROVE  /\ WorkOK'
         /\ work'[h].stage = stage /\ work'[h].copy = copy /\ work'[h].event = work[h].event
         /\ \A g \in Handler : g # h => work'[g] = work[g]
<1>1. work[h] \in Work /\ Timely(work[h].event)  BY Busy
<1>2. work' = [work EXCEPT ![h] = [work[h] EXCEPT !.stage = stage, !.copy = copy]]
  BY DEF Goes
<1>3. [work[h] EXCEPT !.stage = stage, !.copy = copy] \in Work  BY <1>1 DEF Work
<1>4. /\ work'[h] = [work[h] EXCEPT !.stage = stage, !.copy = copy]
      /\ \A g \in Handler : g # h => work'[g] = work[g]
      /\ work' \in [Handler -> Work \cup {NoWork}]
  BY <1>2, <1>3 DEF WorkOK
<1>5. /\ work'[h].stage = stage /\ work'[h].copy = copy /\ work'[h].event = work[h].event
  BY <1>1, <1>4 DEF Work
<1> QED  BY <1>1, <1>4, <1>5 DEF WorkOK, Idle

LEMMA Ending ==
  ASSUME WorkOK, NEW h \in Handler, Ends(h)
  PROVE  /\ WorkOK' /\ Idle(h)'
         /\ \A g \in Handler : g # h => work'[g] = work[g]
<1>1. work' = [work EXCEPT ![h] = NoWork]  BY DEF Ends
<1>2. /\ work'[h] = NoWork /\ work' \in [Handler -> Work \cup {NoWork}]
      /\ \A g \in Handler : g # h => work'[g] = work[g]
  BY <1>1 DEF WorkOK
<1> QED  BY <1>2 DEF WorkOK, Idle, NoWork

LEMMA Beginning ==
  ASSUME IInv, NEW h \in Handler, NEW e \in Event, Timely(e), Begins(h, e)
  PROVE  /\ WorkOK'
         /\ work'[h].stage = "read" /\ work'[h].copy = sub /\ work'[h].event = e
         /\ \A g \in Handler : g # h => work'[g] = work[g]
<1> DEFINE new == [stage |-> "read", event |-> e, at |-> clock, copy |-> sub, tcopy |-> task]
<1>1. new \in Work  BY DEF IInv, TypeOK, Work, Stage
<1>2. work' = [work EXCEPT ![h] = new]  BY DEF Begins
<1>3. /\ work'[h] = new /\ work' \in [Handler -> Work \cup {NoWork}]
      /\ \A g \in Handler : g # h => work'[g] = work[g]
  BY <1>1, <1>2 DEF IInv, WorkOK
<1> QED  BY <1>3 DEF IInv, WorkOK, Idle

LEMMA EventsTyped ==
  /\ \A k \in Kind : Ev(k) \in Event /\ Ev(k).kind = k
  /\ \A s \in StripeStatus : StatusEv(s) \in Event /\ StatusEv(s).kind = "status"
  /\ \A n \in Nat : PeriodEv(n) \in Event /\ PeriodEv(n).kind = "period" /\ PeriodEv(n).arg = n
  /\ \A n \in Nat : CancelEv(n) \in Event /\ CancelEv(n).kind = "cancel_at"
  BY DEF Ev, StatusEv, PeriodEv, CancelEv, Event, Kind, StripeStatus

LEMMA MappedIsStatus == \A s \in StripeStatus : Mapped(s) \in Status
  BY DEF Mapped, StripeStatus, Status

LEMMA ChangedTyped ==
  ASSUME TypeOK, NEW w \in Work, Timely(w.event), NEW answered \in BOOLEAN
  PROVE  /\ Changed(w, answered) \in Doc
         /\ Changed(w, answered).audit = w.copy.audit
         /\ Changed(w, answered).networks = w.copy.networks
         /\ Changed(w, answered).v = w.copy.v
<1> DEFINE d == w.copy
           Same(c) == c \in Doc /\ c.audit = d.audit /\ c.networks = d.networks /\ c.v = d.v
<1>1. /\ d \in Doc /\ w.event \in Event /\ w.at \in Nat /\ clock \in Nat
      /\ stripe.status \in StripeStatus
  BY WorkFields DEF TypeOK
<1>2. w.event.arg \in Nat /\ w.event.status \in StripeStatus  BY <1>1 DEF Event
<1>3. \A s \in Status : Same([d EXCEPT !.status = s])
  BY <1>1 DEF Doc
<1>4. ASSUME w.event.kind = "period" PROVE Same([d EXCEPT !.period = NextPeriod(d, w.event.arg)])
  <2>1. d.period.to \in Nat  BY <1>1 DEF Doc, Period
  <2>2. 2 * w.event.arg - 1 \in Nat  BY <1>2, <1>4 DEF Timely
  <2>3. NextPeriod(d, w.event.arg) \in Period
    BY <2>1, <2>2 DEF NextPeriod, MeteredEnd, Period
  <2> QED  BY <1>1, <2>3 DEF Doc
<1>5. PaidStatus(d, answered) \in Status
  <2>1. d.status \in Status /\ "Active" \in Status  BY <1>1, DocFields DEF Status
  <2> QED  BY <1>1, <2>1, MappedIsStatus DEF PaidStatus
<1>6. Same(WithEnd(w))
  <2>1. CancelDate(w) \in Nat  BY <1>1, <1>2 DEF CancelDate
  <2>2. PICK n \in Nat : n = IF InFuture(w) THEN CancelDate(w) - 1 ELSE CancelDate(w)
    BY <1>1, <2>1 DEF InFuture
  <2>3. PICK s \in Status : s = IF InFuture(w) THEN "PendingCancelation" ELSE "Canceled"
    BY DEF Status
  <2>4. WithEnd(w) = [d EXCEPT !.period.to = n, !.status = s]
    BY <2>2, <2>3 DEF WithEnd
  <2> QED  BY <1>1, <2>4 DEF Doc, Period
<1>7. Same(d)  BY <1>1
<1>8. Mapped(w.event.status) \in Status /\ "Unpaid" \in Status
  BY <1>2, MappedIsStatus DEF Status
<1> HIDE DEF Same
<1>9. Same(Changed(w, answered))
  BY <1>3, <1>4, <1>5, <1>6, <1>7, <1>8 DEF Changed
<1> QED  BY <1>9 DEF Same

(* A save, refused or not. *)
LEMMA SavedTyped ==
  ASSUME TypeOK, NEW new \in Doc
  PROVE  /\ Saved(new) \in Doc
         /\ Saved(new).audit = new.audit /\ Saved(new).networks = new.networks
         /\ Saved(new).v = IF ArraysDiffer(new) THEN new.v + 1 ELSE new.v
  BY DEF Saved, Doc

LEMMA Persisting ==
  ASSUME IInv, NEW h \in Handler, ~Idle(h), NEW new \in Doc, NEW stage \in Stage \cup {"idle"},
         Persists(h, new, stage)
  PROVE  /\ WorkOK' /\ sub' \in Doc
         /\ \A g \in Handler : g # h => work'[g] = work[g]
<1>1. WorkOK /\ sub \in Doc /\ Saved(new) \in Doc  BY SavedTyped DEF IInv, TypeOK
<1>2. Ends(h) \/ (stage \in Stage /\ Goes(h, stage, Saved(new)))
  BY DEF Persists
<1>3. sub' \in {sub, Saved(new)}  BY DEF Persists
<1> QED  BY <1>1, <1>2, <1>3, Ending, Going

LEMMA EmitsTyped ==
  ASSUME IInv, NEW E \in SUBSET Event, \A e \in E : Timely(e), Emits(E)
  PROVE  sent' \subseteq Event /\ \A e \in sent' : Timely(e)
  BY DEF IInv, TypeOK, Emits

(* What is left to show of the environment's steps. *)
LEMMA EnvironmentKeeps ==
  ASSUME IInv, UNCHANGED <<sub, task, ending, service, billed, work>>,
         clock' \in 0 .. MaxClock,
         stripe' \in [status : StripeStatus, cancelAt : BOOLEAN],
         count' \in [charges : 0 .. MaxCharges, dups : 0 .. MaxDups, faults : 0 .. MaxFaults],
         sent' \subseteq Event, \A e \in sent' : Timely(e)
  PROVE  IInv'
  BY DEF IInv, TypeOK, WorkOK, Idle

LEMMA MovesKeeps ==
  ASSUME IInv, NEW from, NEW to \in StripeStatus, NEW E \in SUBSET Event,
         \A e \in E : Timely(e), StripeMoves(from, to, E),
         count' \in [charges : 0 .. MaxCharges, dups : 0 .. MaxDups, faults : 0 .. MaxFaults]
  PROVE  IInv'
<1>1. sent' \subseteq Event /\ \A e \in sent' : Timely(e)
  BY EmitsTyped DEF StripeMoves
<1>2. stripe' \in [status : StripeStatus, cancelAt : BOOLEAN] /\ clock' \in 0 .. MaxClock
  BY DEF StripeMoves, IInv, TypeOK
<1> QED  BY <1>1, <1>2, EnvironmentKeeps DEF StripeMoves

LEMMA StripeKeeps ==
  ASSUME IInv, \/ StripePays \/ StripeFails \/ StripeRecovers \/ StripeCancels
               \/ StripeCancelsLater \/ TimePasses
  PROVE  IInv'
<1>0. /\ count \in [charges : 0 .. MaxCharges, dups : 0 .. MaxDups, faults : 0 .. MaxFaults]
      /\ stripe \in [status : StripeStatus, cancelAt : BOOLEAN] /\ clock \in 0 .. MaxClock
      /\ MaxClock \in Nat /\ MaxCharges \in Nat
  BY DEF IInv, TypeOK
<1>1. /\ {"active", "past_due", "unpaid", "canceled"} \subseteq StripeStatus
      /\ {"activate", "failed", "succeeded", "deleted"} \subseteq Kind
  BY DEF StripeStatus, Kind
<1>2. /\ \A k \in {"activate", "failed", "succeeded", "deleted"} : Ev(k) \in Event /\ Timely(Ev(k))
      /\ \A s \in StripeStatus : StatusEv(s) \in Event /\ Timely(StatusEv(s))
      /\ \A n \in Nat : CancelEv(n) \in Event /\ Timely(CancelEv(n))
      /\ \A n \in Nat : n >= 1 => PeriodEv(n) \in Event /\ Timely(PeriodEv(n))
  BY <1>1, EventsTyped DEF Timely
<1>3. CASE StripePays
  <2>1. {Ev("activate"), StatusEv("active")} \subseteq Event
        /\ \A e \in {Ev("activate"), StatusEv("active")} : Timely(e)
    BY <1>1, <1>2
  <2> QED  BY <1>0, <1>1, <1>3, <2>1, MovesKeeps DEF StripePays
<1>4. CASE StripeFails
  <2>1. \A s \in {"past_due", "unpaid"} :
          /\ {Ev("failed"), StatusEv(s)} \subseteq Event
          /\ \A e \in {Ev("failed"), StatusEv(s)} : Timely(e)
    BY <1>1, <1>2
  <2>2. count' \in [charges : 0 .. MaxCharges, dups : 0 .. MaxDups, faults : 0 .. MaxFaults]
    BY <1>0, <1>4 DEF StripeFails
  <2> QED  BY <1>1, <1>4, <2>1, <2>2, MovesKeeps DEF StripeFails
<1>5. CASE StripeRecovers
  <2>1. {Ev("succeeded"), StatusEv("active")} \subseteq Event
        /\ \A e \in {Ev("succeeded"), StatusEv("active")} : Timely(e)
    BY <1>1, <1>2
  <2> QED  BY <1>0, <1>1, <1>5, <2>1, MovesKeeps DEF StripeRecovers
<1>6. CASE StripeCancels
  <2>1. {Ev("deleted")} \subseteq Event /\ \A e \in {Ev("deleted")} : Timely(e)
    BY <1>1, <1>2
  <2> QED  BY <1>0, <1>1, <1>6, <2>1, MovesKeeps DEF StripeCancels
<1>7. CASE StripeCancelsLater
  <2>1. CycleEnd(StripeCycle) \in Nat
    <3>1. clock \div 2 \in Nat  BY <1>0
    <3> QED  BY <3>1 DEF CycleEnd, StripeCycle
  <2>2. {CancelEv(CycleEnd(StripeCycle))} \subseteq Event
        /\ \A e \in {CancelEv(CycleEnd(StripeCycle))} : Timely(e)
    BY <1>2, <2>1
  <2>3. sent' \subseteq Event /\ \A e \in sent' : Timely(e)
    BY <1>7, <2>2, EmitsTyped DEF StripeCancelsLater
  <2>4. stripe' \in [status : StripeStatus, cancelAt : BOOLEAN]
    BY <1>0, <1>7 DEF StripeCancelsLater
  <2> QED  BY <1>0, <1>7, <2>3, <2>4, EnvironmentKeeps DEF StripeCancelsLater
<1>8. CASE TimePasses
  <2>1. clock' \in 0 .. MaxClock  BY <1>0, <1>8 DEF TimePasses
  <2>2. clock' \div 2 + 1 \in Nat /\ clock' \div 2 + 1 >= 1
    <3>1. \A n \in Nat : n \div 2 + 1 \in Nat /\ n \div 2 + 1 >= 1  OBVIOUS
    <3>2. clock' \in Nat  BY <1>0, <2>1
    <3> QED  BY <3>1, <3>2
  <2>3. {Ev("deleted")} \subseteq Event /\ (\A e \in {Ev("deleted")} : Timely(e))
        /\ {PeriodEv(clock' \div 2 + 1)} \subseteq Event
        /\ \A e \in {PeriodEv(clock' \div 2 + 1)} : Timely(e)
    <3> HIDE DEF Timely
    <3> QED  BY <1>2, <2>2
  <2>4. \/ UNCHANGED <<stripe, sent>>
        \/ stripe' = [stripe EXCEPT !.status = "canceled"] /\ Emits({Ev("deleted")})
        \/ UNCHANGED stripe /\ Emits({PeriodEv(clock' \div 2 + 1)})
    BY <1>8 DEF TimePasses
  <2>5. sent' \subseteq Event /\ \A e \in sent' : Timely(e)
    <3>1. CASE UNCHANGED sent  BY <3>1 DEF IInv, TypeOK
    <3>2. CASE Emits({Ev("deleted")})  BY <2>3, <3>2, EmitsTyped
    <3>3. CASE Emits({PeriodEv(clock' \div 2 + 1)})  BY <2>3, <3>3, EmitsTyped
    <3> QED  BY <2>4, <3>1, <3>2, <3>3
  <2>6. stripe' \in [status : StripeStatus, cancelAt : BOOLEAN]
    BY <1>0, <1>1, <2>4
  <2> QED  BY <1>0, <1>8, <2>1, <2>5, <2>6, EnvironmentKeeps DEF TimePasses
<1> QED  BY <1>3, <1>4, <1>5, <1>6, <1>7, <1>8

(* What is left to show of the steps of handlers. *)
LEMMA HandlerKeeps ==
  ASSUME IInv, WorkOK', sub' \in Doc, UNCHANGED <<clock, sent>>,
         stripe' \in [status : StripeStatus, cancelAt : BOOLEAN],
         task' \in Task, ending' \in Task,
         service' \in {"none", "on", "disabled", "terminated"}, billed' \in [Tick -> Nat],
         count' \in [charges : 0 .. MaxCharges, dups : 0 .. MaxDups, faults : 0 .. MaxFaults]
  PROVE  IInv'
  BY DEF IInv, TypeOK, WorkOK

LEMMA BeginsKeeps ==
  ASSUME IInv, NEW h \in Handler, NEW e \in Event, Timely(e), Begins(h, e),
         sent' \subseteq sent,
         count' \in [charges : 0 .. MaxCharges, dups : 0 .. MaxDups, faults : 0 .. MaxFaults]
  PROVE  IInv'
<1>1. WorkOK'  BY Beginning
<1> QED  BY <1>1 DEF Begins, IInv, TypeOK, WorkOK

LEMMA TaskOperators ==
  ASSUME NEW t \in Task, NEW c \in Task, NEW n \in Nat
  PROVE  /\ JobDone(t, c) \in Task /\ LastRun(t, n) \in Task
         /\ [t EXCEPT !.state = "done"] \in Task /\ [t EXCEPT !.state = "deleted"] \in Task
<1>1. c.once \in BOOLEAN /\ c.due \in Nat /\ c.due + 2 \in Nat  BY DEF Task
<1>2. JobDone(t, c) \in Task
  <2>1. CASE t.state # "queued"  BY <2>1 DEF JobDone
  <2>2. CASE t.state = "queued" /\ c.once = TRUE  BY <1>1, <2>2 DEF JobDone, Task
  <2>3. CASE t.state = "queued" /\ c.once = FALSE  BY <1>1, <2>3 DEF JobDone, Task
  <2> QED  BY <1>1, <2>1, <2>2, <2>3
<1>3. [t EXCEPT !.once = TRUE, !.due = n] \in Task  BY DEF Task
<1>4. LastRun(t, n) \in Task  BY <1>3 DEF LastRun
<1>5. [t EXCEPT !.state = "done"] \in Task /\ [t EXCEPT !.state = "deleted"] \in Task
  BY DEF Task
<1> QED  BY <1>2, <1>4, <1>5

LEMMA HandlerStepKeeps ==
  ASSUME IInv, NEW h \in Handler, HandlerStep(h) \/ Throws(h)
  PROVE  IInv'
<1> DEFINE w == work[h]
<1>1. /\ stripe \in [status : StripeStatus, cancelAt : BOOLEAN]
      /\ sub \in Doc /\ task \in Task /\ ending \in Task
      /\ service \in {"none", "on", "disabled", "terminated"} /\ billed \in [Tick -> Nat]
      /\ count \in [charges : 0 .. MaxCharges, dups : 0 .. MaxDups, faults : 0 .. MaxFaults]
      /\ clock \in Nat /\ MaxFaults \in Nat /\ MaxClock \in Nat /\ TypeOK /\ WorkOK
  BY DEF IInv, TypeOK
<1>2. ~Idle(h)
  BY DEF HandlerStep, Throws, Idle, At, Read, Provision, Schedule, ScheduleEnd, Save, Report,
     SaveUsage, Terminate, SaveCanceled, UserSavesUsage, UserRereads, UserPends, UserStops
<1>3. w \in Work /\ Timely(w.event)  BY <1>1, <1>2, Busy
<1>4. /\ w.event \in Event /\ w.at \in Nat /\ w.copy \in Doc /\ w.tcopy \in Task
  BY <1>3, WorkFields
<1>5. \A stage \in Stage, copy \in Doc : Goes(h, stage, copy) => WorkOK'
  BY <1>1, <1>2, Going
<1>6. Ends(h) => WorkOK'  BY <1>1, Ending
<1>7. \A new \in Doc, stage \in Stage \cup {"idle"} :
        Persists(h, new, stage) => WorkOK' /\ sub' \in Doc
  BY <1>2, Persisting
<1>8. CASE Read(h)
  <2>1. NextStage(w.event.kind) \in Stage  BY DEF NextStage, Stage
  <2>2. WorkOK'  BY <1>1, <1>5, <1>6, <1>8, <2>1 DEF Read
  <2> QED  BY <1>1, <1>8, <2>2, HandlerKeeps DEF Read
<1>9. CASE Provision(h)
  <2>1. [w.copy EXCEPT !.status = "Active", !.networks = TRUE] \in Doc
    BY <1>4, DocUpdates DEF Status
  <2>2. WorkOK'  BY <1>5, <1>9, <2>1 DEF Provision, Stage
  <2> QED  BY <1>1, <1>9, <2>2, HandlerKeeps DEF Provision
<1>10. CASE Schedule(h)
  <2>1. [w.copy EXCEPT !.linked = TRUE] \in Doc  BY <1>4, DocUpdates
  <2>2. WorkOK'  BY <1>5, <1>10, <2>1 DEF Schedule, Stage
  <2>3. task' \in Task
    <3>1. w.copy.period.to \in Nat  BY <1>4 DEF Doc, Period
    <3> QED  BY <1>10, <3>1 DEF Schedule, Task
  <2> QED  BY <1>1, <1>10, <2>2, <2>3, HandlerKeeps DEF Schedule
<1>11. CASE ScheduleEnd(h)
  <2>1. w.copy.period.to \in Nat /\ CancelDate(w) \in Nat
    BY <1>4 DEF Doc, Period, CancelDate, Event
  <2>2. task' \in Task  BY <1>1, <1>11, <2>1, TaskOperators DEF ScheduleEnd
  <2>3. ending' \in Task  BY <1>11, <2>1 DEF ScheduleEnd, Task
  <2>4. WorkOK'  BY <1>6, <1>11 DEF ScheduleEnd
  <2> QED  BY <1>1, <1>11, <2>2, <2>3, <2>4, HandlerKeeps DEF ScheduleEnd
<1>12. ASSUME NEW answered \in BOOLEAN, Save(h, answered) PROVE IInv'
  <2>1. Changed(w, answered) \in Doc  BY <1>1, <1>3, ChangedTyped
  <2>2. PICK stage \in Stage \cup {"idle"} : Persists(h, Changed(w, answered), stage)
    BY <1>12 DEF Save, Stage
  <2>3. WorkOK' /\ sub' \in Doc  BY <1>7, <2>1, <2>2
  <2>4. count' \in [charges : 0 .. MaxCharges, dups : 0 .. MaxDups, faults : 0 .. MaxFaults]
    BY <1>1, <1>12 DEF Save
  <2> QED  BY <1>1, <1>12, <2>3, <2>4, HandlerKeeps DEF Save
<1>13. CASE Report(h)
  <2>1. billed' \in [Tick -> Nat]
    <3>1. \A n \in Tick : billed[n] + (IF Covers(w.copy.period, n) THEN 1 ELSE 0) \in Nat
      BY <1>1
    <3> QED  BY <1>13, <3>1 DEF Report
  <2>2. [w.copy EXCEPT !.audit = Append(w.copy.audit, [by |-> h, period |-> w.copy.period])] \in Doc
    <3>1. w.copy.audit \in Seq(Usage) /\ w.copy.period \in Period  BY <1>4, DocFields
    <3>2. [by |-> h, period |-> w.copy.period] \in Usage  BY <3>1 DEF Usage
    <3>3. Append(w.copy.audit, [by |-> h, period |-> w.copy.period]) \in Seq(Usage)
      BY <3>1, <3>2
    <3> QED  BY <1>4, <3>3, DocUpdates
  <2>3. WorkOK'  BY <1>5, <1>13, <2>2 DEF Report, Stage
  <2> QED  BY <1>1, <1>13, <2>1, <2>3, HandlerKeeps DEF Report
<1>14. CASE SaveUsage(h)
  <2>1. WorkOK' /\ sub' \in Doc  BY <1>4, <1>7, <1>14 DEF SaveUsage
  <2>2. task' \in Task  BY <1>1, <1>4, <1>14, TaskOperators DEF SaveUsage
  <2> QED  BY <1>1, <1>14, <2>1, <2>2, HandlerKeeps DEF SaveUsage
<1>15. CASE Terminate(h)
  <2>1. [w.copy EXCEPT !.status = "Canceled"] \in Doc  BY <1>4, DocUpdates DEF Status
  <2>2. WorkOK'  BY <1>5, <1>15, <2>1 DEF Terminate, Stage
  <2> QED  BY <1>1, <1>15, <2>2, HandlerKeeps DEF Terminate, Terminated
<1>16. CASE SaveCanceled(h)
  <2>1. WorkOK' /\ sub' \in Doc  BY <1>4, <1>7, <1>16 DEF SaveCanceled
  <2>2. ending' \in Task  BY <1>1, <1>16, TaskOperators DEF SaveCanceled
  <2> QED  BY <1>1, <1>16, <2>1, <2>2, HandlerKeeps DEF SaveCanceled
<1>17. CASE UserSavesUsage(h)
  <2>1. WorkOK' /\ sub' \in Doc  BY <1>4, <1>7, <1>17 DEF UserSavesUsage, Stage
  <2> QED  BY <1>1, <1>17, <2>1, HandlerKeeps DEF UserSavesUsage
<1>18. CASE UserRereads(h)
  <2>1. [sub EXCEPT !.status = "PendingCancelation"] \in Doc  BY <1>1, DocUpdates DEF Status
  <2>2. WorkOK'  BY <1>5, <1>18, <2>1 DEF UserRereads, Stage
  <2> QED  BY <1>1, <1>18, <2>2, HandlerKeeps DEF UserRereads
<1>19. CASE UserPends(h)
  <2>1. WorkOK' /\ sub' \in Doc  BY <1>4, <1>7, <1>19 DEF UserPends, Stage
  <2> QED  BY <1>1, <1>19, <2>1, HandlerKeeps DEF UserPends
<1>20. CASE UserStops(h)
  <2>1. stripe' \in [status : StripeStatus, cancelAt : BOOLEAN]
    BY <1>1, <1>20 DEF UserStops, StripeStatus
  <2>2. task' \in Task  BY <1>1, <1>20, TaskOperators DEF UserStops
  <2>3. WorkOK'  BY <1>4, <1>5, <1>6, <1>20 DEF UserStops, Stage
  <2>4. sent' \subseteq Event /\ \A e \in sent' : Timely(e)
    <3>1. {Ev("deleted")} \subseteq Event /\ \A e \in {Ev("deleted")} : Timely(e)
      BY EventsTyped DEF Timely, Kind
    <3>2. CASE UNCHANGED sent  BY <3>2 DEF IInv, TypeOK
    <3>3. CASE Emits({Ev("deleted")})  BY <3>1, <3>3, EmitsTyped
    <3> QED  BY <1>20, <3>2, <3>3 DEF UserStops
  <2>5. service' \in {"none", "on", "disabled", "terminated"}
        /\ UNCHANGED <<clock, sub, ending, billed, count>>
    BY <1>1, <1>20 DEF UserStops
  <2> QED  BY <1>1, <2>1, <2>2, <2>3, <2>4, <2>5 DEF IInv, TypeOK, WorkOK
<1>21. CASE Throws(h)
  <2>1. count' \in [charges : 0 .. MaxCharges, dups : 0 .. MaxDups, faults : 0 .. MaxFaults]
    BY <1>1, <1>21 DEF Throws
  <2>2. WorkOK'  BY <1>6, <1>21 DEF Throws
  <2> QED  BY <1>1, <1>21, <2>1, <2>2, HandlerKeeps DEF Throws
<1> QED
  BY <1>8, <1>9, <1>10, <1>11, <1>12, <1>13, <1>14, <1>15, <1>16, <1>17, <1>18, <1>19, <1>20,
     <1>21 DEF HandlerStep

LEMMA InvStep == IInv /\ [Next]_vars => IInv'
<1> SUFFICES ASSUME IInv, [Next]_vars PROVE IInv'  OBVIOUS
<1>1. ASSUME NEW h \in Handler, NEW e \in sent, Webhook(h, e) PROVE IInv'
  <2>1. e \in Event /\ Timely(e)  BY DEF IInv, TypeOK
  <2>2. count' \in [charges : 0 .. MaxCharges, dups : 0 .. MaxDups, faults : 0 .. MaxFaults]
    BY <1>1 DEF Webhook, IInv, TypeOK
  <2> QED  BY <1>1, <2>1, <2>2, BeginsKeeps DEF Webhook
<1>2. ASSUME NEW k \in {"usage", "end", "user"} PROVE Ev(k) \in Event /\ Timely(Ev(k))
  BY EventsTyped DEF Timely, Kind
<1>3. ASSUME NEW h \in Handler, NEW kind \in {"usage", "end"}, Job(h, kind) PROVE IInv'
  BY <1>2, <1>3, BeginsKeeps DEF Job, IInv, TypeOK
<1>4. ASSUME NEW h \in Handler, UserCancels(h) PROVE IInv'
  BY <1>2, <1>4, BeginsKeeps DEF UserCancels, IInv, TypeOK
<1>5. CASE UNCHANGED vars
  BY <1>5 DEF vars, IInv, TypeOK, WorkOK, Idle
<1> QED
  BY <1>1, <1>3, <1>4, <1>5, StripeKeeps, HandlerStepKeeps DEF Next

LEMMA InitInv == Init => IInv
<1> SUFFICES ASSUME Init PROVE IInv  OBVIOUS
<1>1. sub \in Doc
  BY DEF Init, Doc, Status, Period, MeteredEnd
<1>2. stripe \in [status : StripeStatus, cancelAt : BOOLEAN]  BY DEF Init, StripeStatus
<1>3. task \in Task /\ ending \in Task  BY DEF Init, NoTask, Task
<1>4. count \in [charges : 0 .. MaxCharges, dups : 0 .. MaxDups, faults : 0 .. MaxFaults]
  BY DEF Init
<1>5. WorkOK  BY DEF Init, WorkOK, Idle, NoWork
<1> QED  BY <1>1, <1>2, <1>3, <1>4, <1>5 DEF Init, IInv, TypeOK, WorkOK

(* The type invariant of the subscription, its tasks, the handlers' copies  *)
(* and the usage Stripe was sent, however handlers, failures and duplicated *)
(* events interleave.                                                       *)
THEOREM TypeCorrect == Spec => []TypeOK
<1>1. IInv => TypeOK  BY DEF IInv
<1> QED  BY <1>1, InitInv, InvStep, PTL DEF Spec

-----------------------------------------------------------------------------
(* The version check is sufficient, when no event is delivered twice: the   *)
(* copies of the handlers then tell apart what they hold.  An element of    *)
(* the audit trail is told apart by the handler that wrote it; the networks *)
(* of two activations of one subscription are not (see README, section 4).  *)

(* Has the handler reported usage that is in its copy only?                 *)
Reporting(w) == w.stage = "save" /\ w.event.kind \in {"usage", "user"}
Base(w) == Len(w.copy.audit) - (IF Reporting(w) THEN 1 ELSE 0)
Last(w) == w.copy.audit[Len(w.copy.audit)]

(* The copy was read after the last change of an array ...                  *)
Current(w, s) ==
  /\ w.copy.v = s.v
  /\ s.networks => w.copy.networks
  /\ w.copy.audit = IF Reporting(w) THEN Append(s.audit, Last(w)) ELSE s.audit

(* ... or before it, and then the arrays still differ.                      *)
Outdated(h, w, s) ==
  /\ w.copy.v < s.v
  /\ \/ Len(s.audit) > Base(w) /\ s.audit[Base(w) + 1].by # h
     \/ s.networks /\ ~w.copy.networks

Signed(h, w) == Reporting(w) => Len(w.copy.audit) > 0 /\ Last(w).by = h
Linked(w, s) == w.copy.networks /\ ~s.networks => w.event.kind = "activate"

CopyOK(h, w, s) == Signed(h, w) /\ Linked(w, s) /\ (Current(w, s) \/ Outdated(h, w, s))

Copies == \A h \in Handler : ~Idle(h) => CopyOK(h, work[h], sub)

(* The subscription is activated by one event, once. *)
Activating(h) == ~Idle(h) /\ work[h].event.kind = "activate"

Once ==
  /\ \A e \in sent : e.kind = "activate" => e = Ev("activate")
  /\ stripe.status = "incomplete" \/ Ev("activate") \in sent
       => ~sub.networks /\ \A h \in Handler : ~Activating(h)
  /\ stripe.status = "incomplete" => Ev("activate") \notin sent
  /\ \A h \in Handler : Activating(h) =>
       ~sub.networks /\ \A g \in Handler : Activating(g) => g = h

CInv == IInv /\ Copies /\ Once

LEMMA Appending ==
  ASSUME NEW s \in Seq(Usage), NEW u \in Usage
  PROVE  /\ Append(s, u) \in Seq(Usage) /\ Len(Append(s, u)) = Len(s) + 1
         /\ \A i \in 1 .. Len(s) : Append(s, u)[i] = s[i]
         /\ Append(s, u)[Len(s) + 1] = u
         /\ IsPrefixOf(s, s) /\ IsPrefixOf(s, Append(s, u))
<1>1. /\ Append(s, u) \in Seq(Usage) /\ Len(Append(s, u)) = Len(s) + 1
      /\ \A i \in 1 .. Len(s) : Append(s, u)[i] = s[i]
      /\ Append(s, u)[Len(s) + 1] = u /\ Len(s) \in Nat
  OBVIOUS
<1>2. \A t \in Seq(Usage) :
        Len(s) <= Len(t) /\ (\A i \in 1 .. Len(s) : t[i] = s[i]) => SubSeq(t, 1, Len(s)) = s
  OBVIOUS
<1> QED  BY <1>1, <1>2 DEF IsPrefixOf

(* What a save changes in the arrays: nothing, or the report of its handler *)
(* is added, or the networks are linked.                                    *)
Effect(h, s, t) ==
  \/ t.audit = s.audit /\ t.networks = s.networks /\ t.v = s.v
  \/ /\ t.v = s.v + 1
     /\ s.networks => t.networks
     /\ \/ \E u \in Usage : u.by = h /\ t.audit = Append(s.audit, u)
        \/ t.audit = s.audit /\ ~s.networks /\ t.networks

LEMMA BaseTyped ==
  ASSUME NEW h, NEW w \in Work, Signed(h, w)
  PROVE  /\ Base(w) \in Nat /\ w.copy \in Doc /\ (Reporting(w) => Last(w) \in Usage)
         /\ w.copy.audit \in Seq(Usage) /\ w.copy.v \in Nat /\ w.copy.networks \in BOOLEAN
<1>1. w.copy \in Doc  BY WorkFields
<1>2. w.copy.audit \in Seq(Usage) /\ w.copy.v \in Nat /\ w.copy.networks \in BOOLEAN
  BY <1>1, DocFields
<1>3. Len(w.copy.audit) \in Nat  BY <1>2
<1> QED  BY <1>1, <1>2, <1>3 DEF Base, Signed, Last

(* A handler that can save holds a current copy. *)
LEMMA SaveEffect ==
  ASSUME NEW h \in Handler, NEW w \in Work, NEW new \in Doc, sub \in Doc, CopyOK(h, w, sub),
         new.audit = w.copy.audit, new.networks = w.copy.networks, new.v = w.copy.v,
         Savable(new)
  PROVE  Effect(h, sub, Saved(new))
<1> DEFINE s == sub
           t == Saved(new)
<1>1. /\ s.audit \in Seq(Usage) /\ s.v \in Nat /\ s.networks \in BOOLEAN
      /\ Len(s.audit) \in Nat
  <2>1. s.audit \in Seq(Usage) /\ s.v \in Nat /\ s.networks \in BOOLEAN  BY DocFields
  <2> QED  BY <2>1
<1>2. /\ Base(w) \in Nat /\ (Reporting(w) => Last(w) \in Usage)
      /\ w.copy.audit \in Seq(Usage) /\ w.copy.v \in Nat /\ w.copy.networks \in BOOLEAN
  BY BaseTyped DEF CopyOK
<1>3. /\ t.audit = new.audit /\ t.networks = new.networks
      /\ t.v = IF ArraysDiffer(new) THEN new.v + 1 ELSE new.v
  BY DEF Saved, Doc
<1>4. ~Outdated(h, w, s)
  <2>1. CASE ArraysDiffer(new)
    BY <1>1, <1>2, <2>1 DEF Savable, VersionMatches, Outdated
  <2>2. CASE ~ArraysDiffer(new)
    <3>1. s.audit = w.copy.audit /\ s.networks = w.copy.networks
      BY <2>2 DEF ArraysDiffer
    <3>2. CASE Reporting(w)
      <4>1. Base(w) + 1 = Len(s.audit)  BY <1>1, <3>1, <3>2 DEF Base
      <4>2. s.audit[Base(w) + 1].by = h  BY <3>1, <3>2, <4>1 DEF CopyOK, Signed, Last
      <4> QED  BY <3>1, <4>2 DEF Outdated
    <3>3. CASE ~Reporting(w)
      <4>1. Base(w) = Len(s.audit)  BY <1>1, <3>1, <3>3 DEF Base
      <4> QED  BY <1>1, <3>1, <4>1 DEF Outdated
    <3> QED  BY <3>2, <3>3
  <2> QED  BY <2>1, <2>2
<1>5. Current(w, s)  BY <1>4 DEF CopyOK
<1>6. CASE ~ArraysDiffer(new)
  BY <1>3, <1>5, <1>6 DEF ArraysDiffer, Effect, Current
<1>7. CASE ArraysDiffer(new) /\ Reporting(w)
  <2>1. Last(w) \in Usage /\ Last(w).by = h  BY <1>2, <1>7 DEF CopyOK, Signed
  <2>2. t.audit = Append(s.audit, Last(w))  BY <1>3, <1>5, <1>7 DEF Current
  <2>3. t.v = s.v + 1 /\ (s.networks => t.networks)  BY <1>3, <1>5, <1>7 DEF Current
  <2> QED  BY <2>1, <2>2, <2>3 DEF Effect
<1>8. CASE ArraysDiffer(new) /\ ~Reporting(w)
  <2>1. t.audit = s.audit /\ t.v = s.v + 1 /\ (s.networks => t.networks)
    BY <1>3, <1>5, <1>8 DEF Current
  <2>2. ~s.networks /\ t.networks
    BY <1>1, <1>2, <1>3, <1>8, <2>1 DEF ArraysDiffer
  <2> QED  BY <2>1, <2>2 DEF Effect
<1> QED  BY <1>6, <1>7, <1>8

(* What it does to the copies of the others. *)
LEMMA OthersKeep ==
  ASSUME NEW g \in Handler, NEW h \in Handler, g # h, NEW w \in Work,
         NEW s \in Doc, NEW t \in Doc, CopyOK(g, w, s), Effect(h, s, t),
         ~s.networks /\ t.networks => w.event.kind # "activate"
  PROVE  CopyOK(g, w, t)
<1>1. /\ s.audit \in Seq(Usage) /\ s.v \in Nat /\ s.networks \in BOOLEAN
      /\ t.audit \in Seq(Usage) /\ t.v \in Nat /\ t.networks \in BOOLEAN
  BY DocFields
<1>2. Len(s.audit) \in Nat /\ Len(t.audit) \in Nat  BY <1>1
<1>3. /\ Base(w) \in Nat /\ (Reporting(w) => Last(w) \in Usage)
      /\ w.copy.audit \in Seq(Usage) /\ w.copy.v \in Nat /\ w.copy.networks \in BOOLEAN
  BY BaseTyped DEF CopyOK
<1>4. Signed(g, w) /\ Linked(w, t)  BY DEF CopyOK, Linked, Effect
<1>5. CASE t.audit = s.audit /\ t.networks = s.networks /\ t.v = s.v
  BY <1>4, <1>5 DEF CopyOK, Current, Outdated
<1>6. CASE t.v = s.v + 1 /\ (s.networks => t.networks)
           /\ \E u \in Usage : u.by = h /\ t.audit = Append(s.audit, u)
  <2>1. PICK u \in Usage : u.by = h /\ t.audit = Append(s.audit, u)  BY <1>6
  <2>2. /\ Len(t.audit) = Len(s.audit) + 1 /\ t.audit[Len(s.audit) + 1] = u
        /\ \A i \in 1 .. Len(s.audit) : t.audit[i] = s.audit[i]
    BY <1>1, <2>1, Appending
  <2>3. CASE Current(w, s)
    <3>1. Base(w) = Len(s.audit)
      <4>1. CASE Reporting(w)
        <5>1. Len(w.copy.audit) = Len(s.audit) + 1
          BY <1>1, <1>3, <2>3, <4>1, Appending DEF Current
        <5> QED  BY <1>2, <4>1, <5>1 DEF Base
      <4>2. CASE ~Reporting(w)  BY <1>2, <2>3, <4>2 DEF Current, Base
      <4> QED  BY <4>1, <4>2
    <3>2. w.copy.v < t.v  BY <1>1, <1>6, <2>3 DEF Current
    <3>3. Outdated(g, w, t)  BY <1>2, <2>1, <2>2, <3>1, <3>2 DEF Outdated
    <3> QED  BY <1>4, <3>3 DEF CopyOK
  <2>4. CASE Outdated(g, w, s)
    <3>1. w.copy.v < t.v
      <4>1. w.copy.v < s.v  BY <2>4 DEF Outdated
      <4>2. w.copy.v \in Nat /\ s.v \in Nat /\ t.v = s.v + 1  BY <1>1, <1>3, <1>6
      <4> QED  BY <4>1, <4>2
    <3>2. CASE Len(s.audit) > Base(w) /\ s.audit[Base(w) + 1].by # g
      <4>1. Base(w) + 1 \in 1 .. Len(s.audit)  BY <1>2, <1>3, <3>2
      <4>2. Base(w) \in Nat  BY <1>3
      <4>3. Len(t.audit) > Base(w)  BY <1>2, <2>2, <3>2, <4>2
      <4>4. t.audit[Base(w) + 1] = s.audit[Base(w) + 1]  BY <2>2, <4>1
      <4>5. t.audit[Base(w) + 1].by # g  BY <3>2, <4>4
      <4> QED  BY <1>4, <3>1, <4>3, <4>5 DEF CopyOK, Outdated
    <3>3. CASE s.networks /\ ~w.copy.networks
      BY <1>4, <1>6, <3>1, <3>3 DEF CopyOK, Outdated
    <3> QED  BY <2>4, <3>2, <3>3 DEF Outdated
  <2> QED  BY <2>3, <2>4 DEF CopyOK
<1>7. CASE t.v = s.v + 1 /\ t.audit = s.audit /\ ~s.networks /\ t.networks
  <2>1. w.copy.v < t.v  BY <1>1, <1>3, <1>7 DEF CopyOK, Current, Outdated
  <2>2. ~w.copy.networks  BY <1>7 DEF CopyOK, Linked
  <2> QED  BY <1>4, <1>7, <2>1, <2>2 DEF CopyOK, Outdated
<1> QED  BY <1>5, <1>6, <1>7 DEF Effect

(* A copy as it was read. *)
LEMMA Fresh ==
  ASSUME NEW h \in Handler, NEW w, NEW s, w.copy.v = s.v, w.copy.audit = s.audit,
         w.copy.networks = s.networks, ~Reporting(w)
  PROVE  CopyOK(h, w, s)
  BY DEF CopyOK, Signed, Linked, Current

(* A copy with the same arrays, no usage reported before or after.          *)
LEMMA SameArrays ==
  ASSUME NEW h \in Handler, NEW w, NEW x, NEW s, CopyOK(h, w, s),
         x.event = w.event, x.copy.v = w.copy.v, x.copy.audit = w.copy.audit,
         x.copy.networks = w.copy.networks, ~Reporting(w), ~Reporting(x)
  PROVE  CopyOK(h, x, s)
  BY DEF CopyOK, Signed, Linked, Current, Outdated, Base

(* What a step must keep: the copies, the one activation, the audit trail.  *)
Unrewritten == sub' = sub \/ \E h \in Handler : Effect(h, sub, sub')
StepOK == Copies' /\ Once' /\ Unrewritten

LEMMA OnceKeeps ==
  ASSUME IInv, Once, sub'.networks => sub.networks,
         \A e \in sent' : e.kind = "activate" => e \in sent,
         stripe'.status = "incomplete" => stripe.status = "incomplete",
         \A g \in Handler : Activating(g)' => Activating(g)
  PROVE  Once'
<1>1. Ev("activate") \in sent' => Ev("activate") \in sent
  BY EventsTyped DEF Kind
<1> QED  BY <1>1 DEF Once

LEMMA EnvironmentStep ==
  ASSUME CInv, UNCHANGED <<sub, work>>,
         \A e \in sent' : e.kind = "activate" => e \in sent,
         stripe'.status = "incomplete" => stripe.status = "incomplete"
  PROVE  StepOK
<1>1. \A g \in Handler : Activating(g)' => Activating(g)  BY DEF Activating, Idle
<1>2. Copies'  BY DEF CInv, Copies, Idle
<1> QED  BY <1>1, <1>2, OnceKeeps DEF CInv, StepOK, Unrewritten

LEMMA OtherEvents ==
  ASSUME NEW E, \A e \in E : e.kind # "activate", Emits(E)
  PROVE  \A e \in sent' : e.kind = "activate" => e \in sent
  BY DEF Emits

LEMMA PaysStep ==
  ASSUME CInv, StripePays
  PROVE  StepOK
<1>1. /\ stripe.status = "incomplete" /\ stripe'.status = "active"
      /\ Emits({Ev("activate"), StatusEv("active")}) /\ UNCHANGED <<sub, work>>
  BY DEF StripePays, StripeMoves, CInv, IInv, TypeOK
<1>2. StatusEv("active").kind # "activate"  BY EventsTyped DEF StripeStatus
<1>3. \A e \in sent' : e.kind = "activate" => e = Ev("activate")
  BY <1>1, <1>2 DEF Emits, CInv, Once
<1>4. ~sub'.networks /\ \A g \in Handler : ~Activating(g)'
  BY <1>1 DEF CInv, Once, Activating, Idle
<1>5. Once'  BY <1>1, <1>3, <1>4 DEF Once
<1>6. Copies'  BY <1>1 DEF CInv, Copies, Idle
<1> QED  BY <1>1, <1>5, <1>6 DEF StepOK, Unrewritten

LEMMA StripeStep ==
  ASSUME CInv, \/ StripePays \/ StripeFails \/ StripeRecovers \/ StripeCancels
               \/ StripeCancelsLater \/ TimePasses
  PROVE  StepOK
<1>1. stripe \in [status : StripeStatus, cancelAt : BOOLEAN] /\ clock \in Nat /\ MaxClock \in Nat
  BY DEF CInv, IInv, TypeOK
<1>2. ASSUME NEW from, NEW to \in StripeStatus, NEW E, to # "incomplete",
             \A e \in E : e.kind # "activate", StripeMoves(from, to, E)
      PROVE  StepOK
  <2>1. \A e \in sent' : e.kind = "activate" => e \in sent  BY <1>2, OtherEvents DEF StripeMoves
  <2> QED  BY <1>1, <1>2, <2>1, EnvironmentStep DEF StripeMoves
<1>3. \A k \in {"failed", "succeeded", "deleted"} : Ev(k).kind = k  BY EventsTyped DEF Kind
<1>4. \A s \in {"active", "past_due", "unpaid"} : StatusEv(s).kind = "status"
  BY EventsTyped DEF StripeStatus
<1>5. {"active", "past_due", "unpaid", "canceled"} \subseteq StripeStatus  BY DEF StripeStatus
<1>6. CASE StripeFails
  <2>1. \A s \in {"past_due", "unpaid"} :
          s # "incomplete" /\ \A e \in {Ev("failed"), StatusEv(s)} : e.kind # "activate"
    BY <1>3, <1>4
  <2> QED  BY <1>2, <1>5, <1>6, <2>1 DEF StripeFails
<1>7. CASE StripeRecovers
  <2>1. \A e \in {Ev("succeeded"), StatusEv("active")} : e.kind # "activate"  BY <1>3, <1>4
  <2> QED  BY <1>2, <1>5, <1>7, <2>1 DEF StripeRecovers
<1>8. CASE StripeCancels
  <2>1. \A e \in {Ev("deleted")} : e.kind # "activate"  BY <1>3
  <2> QED  BY <1>2, <1>5, <1>8, <2>1 DEF StripeCancels
<1>9. CASE StripeCancelsLater
  <2>1. \A e \in {CancelEv(CycleEnd(StripeCycle))} : e.kind # "activate"
    BY DEF CancelEv, Ev
  <2>2. \A e \in sent' : e.kind = "activate" => e \in sent
    BY <1>9, <2>1, OtherEvents DEF StripeCancelsLater
  <2> QED  BY <1>1, <1>9, <2>2, EnvironmentStep DEF StripeCancelsLater
<1>10. CASE TimePasses
  <2>1. /\ \A e \in {Ev("deleted")} : e.kind # "activate"
        /\ \A e \in {PeriodEv(clock' \div 2 + 1)} : e.kind # "activate"
    BY <1>3 DEF PeriodEv, Ev
  <2>2. \/ UNCHANGED <<stripe, sent>>
        \/ stripe' = [stripe EXCEPT !.status = "canceled"] /\ Emits({Ev("deleted")})
        \/ UNCHANGED stripe /\ Emits({PeriodEv(clock' \div 2 + 1)})
    BY <1>10 DEF TimePasses
  <2>3. \A e \in sent' : e.kind = "activate" => e \in sent
    BY <2>1, <2>2, OtherEvents
  <2>4. stripe'.status = "incomplete" => stripe.status = "incomplete"
    BY <1>1, <2>2
  <2> QED  BY <1>10, <2>3, <2>4, EnvironmentStep DEF TimePasses
<1> QED  BY PaysStep, <1>6, <1>7, <1>8, <1>9, <1>10

(* Work begins. *)
LEMMA BeginsCopies ==
  ASSUME CInv, NEW h \in Handler, NEW e \in Event, Timely(e), Begins(h, e)
  PROVE  /\ Copies' /\ UNCHANGED <<sub, stripe>>
         /\ \A g \in Handler : Activating(g)' => Activating(g) \/ (g = h /\ e.kind = "activate")
<1>1. /\ work'[h].stage = "read" /\ work'[h].copy = sub /\ work'[h].event = e
      /\ \A g \in Handler : g # h => work'[g] = work[g]
  BY Beginning DEF CInv
<1>2. UNCHANGED <<sub, stripe>>  BY DEF Begins
<1>3. CopyOK(h, work'[h], sub)
  <2>1. ~Reporting(work'[h])  BY <1>1 DEF Reporting
  <2> QED  BY <1>1, <2>1, Fresh
<1>4. \A g \in Handler : ~Idle(g)' => CopyOK(g, work'[g], sub')
  BY <1>1, <1>2, <1>3 DEF CInv, Copies, Idle
<1>5. Copies'  BY <1>4 DEF Copies
<1>6. \A g \in Handler : Activating(g)' => Activating(g) \/ (g = h /\ e.kind = "activate")
  BY <1>1 DEF Activating, Idle
<1> QED  BY <1>2, <1>5, <1>6

LEMMA BeginsStep ==
  ASSUME CInv, NEW h \in Handler, NEW e \in Event, Timely(e), Begins(h, e),
         e.kind # "activate", sent' \subseteq sent
  PROVE  StepOK
<1>1. /\ Copies' /\ UNCHANGED <<sub, stripe>>
      /\ \A g \in Handler : Activating(g)' => Activating(g)
  BY BeginsCopies
<1> QED  BY <1>1, OnceKeeps DEF CInv, StepOK, Unrewritten

LEMMA WebhookStep ==
  ASSUME CInv, MaxDups = 0, NEW h \in Handler, NEW e \in sent, Webhook(h, e)
  PROVE  StepOK
<1>1. e \in Event /\ Timely(e) /\ Begins(h, e)  BY DEF CInv, IInv, TypeOK, Webhook
<1>2. sent' = sent \ {e}
  <2>1. ~(count.dups < MaxDups)  BY DEF CInv, IInv, TypeOK
  <2> QED  BY <2>1 DEF Webhook
<1>3. CASE e.kind # "activate"  BY <1>1, <1>2, <1>3, BeginsStep
<1>4. CASE e.kind = "activate"
  <2>1. /\ e = Ev("activate") /\ stripe.status # "incomplete" /\ ~sub.networks
        /\ \A g \in Handler : ~Activating(g)
    BY <1>4 DEF CInv, Once
  <2>2. /\ Copies' /\ UNCHANGED <<sub, stripe>>
        /\ \A g \in Handler : Activating(g)' => g = h
    BY <1>1, <2>1, BeginsCopies
  <2>3. /\ Ev("activate") \notin sent'
        /\ \A x \in sent' : x.kind = "activate" => x = Ev("activate")
    BY <1>2, <2>1 DEF CInv, Once
  <2>4. Once'  BY <2>1, <2>2, <2>3 DEF Once
  <2> QED  BY <2>2, <2>4 DEF StepOK, Unrewritten
<1> QED  BY <1>3, <1>4

(* A handler goes on with another copy, or ends, and saves nothing.         *)
LEMMA GoesStep ==
  ASSUME CInv, NEW h \in Handler, ~Idle(h), NEW stage \in Stage, NEW copy \in Doc,
         Goes(h, stage, copy), UNCHANGED sub,
         \A x \in Work : x.stage = stage /\ x.copy = copy /\ x.event = work[h].event
                           => CopyOK(h, x, sub),
         \A e \in sent' : e.kind = "activate" => e \in sent,
         stripe'.status = "incomplete" => stripe.status = "incomplete"
  PROVE  StepOK
<1>1. /\ WorkOK'
      /\ work'[h].stage = stage /\ work'[h].copy = copy /\ work'[h].event = work[h].event
      /\ \A g \in Handler : g # h => work'[g] = work[g]
  BY Going DEF CInv, IInv
<1>2. work'[h] \in Work
  <2>1. stage # "idle"  BY DEF Stage
  <2> QED  BY <1>1, <2>1 DEF WorkOK, NoWork
<1>3. CopyOK(h, work'[h], sub)  BY <1>1, <1>2
<1>4. \A g \in Handler : ~Idle(g)' => CopyOK(g, work'[g], sub')
  BY <1>1, <1>3 DEF CInv, Copies, Idle
<1>5. Copies'  BY <1>4 DEF Copies
<1>6. \A g \in Handler : Activating(g)' => Activating(g)  BY <1>1 DEF Activating, Idle
<1> QED  BY <1>5, <1>6, OnceKeeps DEF CInv, StepOK, Unrewritten

LEMMA EndsStep ==
  ASSUME CInv, NEW h \in Handler, Ends(h), UNCHANGED sub,
         \A e \in sent' : e.kind = "activate" => e \in sent,
         stripe'.status = "incomplete" => stripe.status = "incomplete"
  PROVE  StepOK
<1>1. /\ Idle(h)' /\ \A g \in Handler : g # h => work'[g] = work[g]
  BY Ending DEF CInv, IInv
<1>2. \A g \in Handler : ~Idle(g)' => CopyOK(g, work'[g], sub')
  BY <1>1 DEF CInv, Copies, Idle
<1>3. Copies'  BY <1>2 DEF Copies
<1>4. \A g \in Handler : Activating(g)' => Activating(g)  BY <1>1 DEF Activating, Idle
<1> QED  BY <1>3, <1>4, OnceKeeps DEF CInv, StepOK, Unrewritten

(* A handler saves. *)
LEMMA PersistsStep ==
  ASSUME CInv, NEW h \in Handler, ~Idle(h), NEW new \in Doc, NEW stage \in Stage \cup {"idle"},
         stage # "save", work[h].event.kind = "activate" => stage = "idle",
         new.audit = work[h].copy.audit, new.networks = work[h].copy.networks,
         new.v = work[h].copy.v, Persists(h, new, stage), UNCHANGED <<stripe, sent>>
  PROVE  StepOK
<1>1. /\ IInv /\ WorkOK /\ work[h] \in Work /\ sub \in Doc /\ Saved(new) \in Doc
      /\ CopyOK(h, work[h], sub) /\ Saved(new).networks = work[h].copy.networks
  BY Busy, SavedTyped DEF CInv, IInv, TypeOK, Copies
<1>2. CASE ~Savable(new)
  <2>1. Ends(h) /\ UNCHANGED sub  BY <1>2 DEF Persists
  <2> QED  BY <2>1, EndsStep
<1>3. CASE Savable(new)
  <2>1. sub' = Saved(new) /\ Effect(h, sub, Saved(new))
    BY <1>1, <1>3, SaveEffect DEF Persists
  <2>2. \A g \in Handler : g # h => work'[g] = work[g]
    BY <1>1, Persisting
  <2>3. ~sub.networks /\ sub'.networks => Activating(h) /\ stage = "idle"
    BY <1>1, <2>1 DEF CopyOK, Linked, Activating
  <2>4. ASSUME NEW g \in Handler, g # h, ~Idle(g)' PROVE CopyOK(g, work'[g], sub')
    <3>1. work'[g] = work[g] /\ ~Idle(g)  BY <2>2, <2>4 DEF Idle
    <3>2. work[g] \in Work /\ CopyOK(g, work[g], sub)  BY <1>1, <3>1, Busy DEF CInv, Copies
    <3>3. ~sub.networks /\ sub'.networks => work[g].event.kind # "activate"
      BY <2>3, <2>4, <3>1 DEF CInv, Once, Activating
    <3> QED  BY <1>1, <2>1, <2>4, <3>1, <3>2, <3>3, OthersKeep
  <2>5. CASE stage = "idle"
    <3>1. Ends(h)  BY <1>3, <2>5 DEF Persists
    <3>2. Idle(h)'  BY <1>1, <3>1, Ending
    <3>3. Copies'  BY <2>4, <3>2 DEF Copies
    <3>4. \A g \in Handler : Activating(g)' => Activating(g) /\ g # h
      BY <2>2, <3>2 DEF Activating, Idle
    <3>5. Once'
      <4>1. CASE sub'.networks => sub.networks  BY <3>4, <4>1, OnceKeeps DEF CInv
      <4>2. CASE ~sub.networks /\ sub'.networks
        <5>1. Activating(h)  BY <2>3, <4>2
        <5>2. \A g \in Handler : ~Activating(g)'  BY <3>4, <5>1 DEF CInv, Once
        <5>3. stripe.status # "incomplete" /\ Ev("activate") \notin sent
          BY <5>1 DEF CInv, Once
        <5> QED  BY <5>2, <5>3 DEF CInv, Once
      <4> QED  BY <4>1, <4>2
    <3> QED  BY <2>1, <3>3, <3>5 DEF StepOK, Unrewritten
  <2>6. CASE stage # "idle"
    <3>1. Goes(h, stage, Saved(new)) /\ stage \in Stage  BY <1>3, <2>6 DEF Persists
    <3>2. /\ work'[h].stage = stage /\ work'[h].copy = sub' /\ work'[h].event = work[h].event
      BY <1>1, <2>1, <3>1, Going
    <3>3. ~Reporting(work'[h])  BY <3>2 DEF Reporting
    <3>4. CopyOK(h, work'[h], sub')  BY <3>2, <3>3, Fresh
    <3>5. Copies'  BY <2>4, <3>4 DEF Copies
    <3>6. \A g \in Handler : Activating(g)' => Activating(g)
      BY <2>2, <3>2 DEF Activating, Idle
    <3>7. Once'  BY <2>3, <2>6, <3>6, OnceKeeps DEF CInv
    <3> QED  BY <2>1, <3>5, <3>7 DEF StepOK, Unrewritten
  <2> QED  BY <2>5, <2>6
<1> QED  BY <1>2, <1>3

LEMMA HandlerStepOK ==
  ASSUME CInv, NEW h \in Handler, HandlerStep(h) \/ Throws(h)
  PROVE  StepOK
<1> DEFINE w == work[h]
<1>1. ~Idle(h)
  BY DEF HandlerStep, Throws, Idle, At, Read, Provision, Schedule, ScheduleEnd, Save, Report,
     SaveUsage, Terminate, SaveCanceled, UserSavesUsage, UserRereads, UserPends, UserStops
<1>2. /\ IInv /\ TypeOK /\ WorkOK /\ sub \in Doc /\ w \in Work /\ Timely(w.event)
      /\ w.copy \in Doc /\ CopyOK(h, w, sub)
  BY <1>1, Busy, WorkFields DEF CInv, IInv, TypeOK, Copies
<1>3. CASE Read(h)
  <2>1. NextStage(w.event.kind) \in Stage  BY DEF NextStage, Stage
  <2>2. CASE Goes(h, NextStage(w.event.kind), sub)
    <3>1. ASSUME NEW x \in Work, x.stage = NextStage(w.event.kind), x.copy = sub,
                 x.event = w.event
          PROVE  CopyOK(h, x, sub)
      <4>1. ~Reporting(x)  BY <3>1 DEF Reporting, NextStage
      <4> QED  BY <3>1, <4>1, Fresh
    <3> QED  BY <1>1, <1>2, <1>3, <2>1, <2>2, <3>1, GoesStep DEF Read
  <2>3. CASE Ends(h)  BY <1>3, <2>3, EndsStep DEF Read
  <2> QED  BY <1>3, <2>2, <2>3 DEF Read
<1>4. CASE Provision(h)
  <2> DEFINE d == [w.copy EXCEPT !.status = "Active", !.networks = TRUE]
  <2>1. /\ d \in Doc /\ d.v = w.copy.v /\ d.audit = w.copy.audit /\ d.networks = TRUE
    BY <1>2 DEF Doc, Status
  <2>2. w.stage = "provision" /\ w.event.kind = "activate" /\ ~sub.networks
    BY <1>1, <1>4 DEF Provision, At, CInv, Once, Activating
  <2> HIDE DEF d
  <2>3. ASSUME NEW x \in Work, x.stage = "schedule", x.copy = d, x.event = w.event
        PROVE  CopyOK(h, x, sub)
    BY <1>2, <2>1, <2>2, <2>3
       DEF CopyOK, Signed, Linked, Current, Outdated, Base, Reporting
  <2>4. Goes(h, "schedule", d) /\ UNCHANGED <<sub, sent, stripe>> /\ "schedule" \in Stage
    BY <1>4 DEF Provision, d, Stage
  <2> QED  BY <1>1, <2>1, <2>3, <2>4, GoesStep
<1>5. CASE Schedule(h)
  <2> DEFINE d == [w.copy EXCEPT !.linked = TRUE]
  <2>1. /\ d \in Doc /\ d.v = w.copy.v /\ d.audit = w.copy.audit
        /\ d.networks = w.copy.networks
    BY <1>2 DEF Doc
  <2>2. w.stage = "schedule" /\ w.event.kind = "activate"  BY <1>5 DEF Schedule, At
  <2> HIDE DEF d
  <2>3. ASSUME NEW x \in Work, x.stage = "save", x.copy = d, x.event = w.event
        PROVE  CopyOK(h, x, sub)
    BY <1>2, <2>1, <2>2, <2>3, SameArrays DEF Reporting
  <2>4. Goes(h, "save", d) /\ UNCHANGED <<sub, sent, stripe>> /\ "save" \in Stage
    BY <1>5 DEF Schedule, d, Stage
  <2> QED  BY <1>1, <2>1, <2>3, <2>4, GoesStep
<1>6. CASE ScheduleEnd(h)  BY <1>6, EndsStep DEF ScheduleEnd
<1>7. ASSUME NEW answered \in BOOLEAN, Save(h, answered) PROVE StepOK
  <2>1. /\ Changed(w, answered) \in Doc
        /\ Changed(w, answered).audit = w.copy.audit
        /\ Changed(w, answered).networks = w.copy.networks
        /\ Changed(w, answered).v = w.copy.v
    BY <1>2, ChangedTyped
  <2>2. PICK stage \in {"tasks", "idle"} :
          /\ Persists(h, Changed(w, answered), stage)
          /\ w.event.kind = "activate" => stage = "idle"
    BY <1>7 DEF Save
  <2>3. UNCHANGED <<stripe, sent>> /\ stage \in Stage \cup {"idle"} /\ stage # "save"
    BY <1>7 DEF Save, Stage
  <2> QED  BY <1>1, <2>1, <2>2, <2>3, PersistsStep
<1>8. CASE Report(h)
  <2> DEFINE u == [by |-> h, period |-> w.copy.period]
             d == [w.copy EXCEPT !.audit = Append(w.copy.audit, u)]
  <2>1. w.copy.audit \in Seq(Usage) /\ u \in Usage  BY <1>2, DocFields DEF Usage
  <2>2. /\ Append(w.copy.audit, u) \in Seq(Usage)
        /\ Len(Append(w.copy.audit, u)) = Len(w.copy.audit) + 1
        /\ Append(w.copy.audit, u)[Len(w.copy.audit) + 1] = u
        /\ Len(w.copy.audit) \in Nat
    <3> HIDE DEF u
    <3>1. \A t \in Seq(Usage), e \in Usage :
            /\ Append(t, e) \in Seq(Usage) /\ Len(Append(t, e)) = Len(t) + 1
            /\ Append(t, e)[Len(t) + 1] = e
      BY Appending
    <3>2. Len(w.copy.audit) \in Nat  BY <2>1
    <3> QED  BY <2>1, <3>1, <3>2
  <2>3. /\ d \in Doc /\ d.v = w.copy.v /\ d.audit = Append(w.copy.audit, u)
        /\ d.networks = w.copy.networks
    BY <1>2, <2>2 DEF Doc
  <2>4. w.stage = "report" /\ w.event.kind \in {"usage", "user"}  BY <1>8 DEF Report, At
  <2>5. u.by = h  OBVIOUS
  <2>6. Goes(h, "save", d) /\ UNCHANGED <<sub, sent, stripe>> /\ "save" \in Stage
    BY <1>8 DEF Report, Stage
  <2> HIDE DEF d, u
  <2>7. ASSUME NEW x \in Work, x.stage = "save", x.copy = d, x.event = w.event
        PROVE  CopyOK(h, x, sub)
    <3>1. Reporting(x) /\ ~Reporting(w)  BY <2>4, <2>7 DEF Reporting
    <3>2. Len(x.copy.audit) = Len(w.copy.audit) + 1 /\ Last(x) = u
      BY <2>2, <2>3, <2>7 DEF Last
    <3>3. Signed(h, x)  BY <2>2, <2>5, <3>2 DEF Signed
    <3>4. Base(x) = Base(w)  BY <2>2, <3>1, <3>2 DEF Base
    <3>5. Linked(x, sub)  BY <1>2, <2>3, <2>7 DEF CopyOK, Linked
    <3>6. Current(w, sub) => Current(x, sub)
      BY <2>3, <2>7, <3>1, <3>2 DEF Current
    <3>7. Outdated(h, w, sub) => Outdated(h, x, sub)
      BY <2>3, <2>7, <3>4 DEF Outdated
    <3> QED  BY <1>2, <3>3, <3>5, <3>6, <3>7 DEF CopyOK
  <2> QED  BY <1>1, <2>3, <2>6, <2>7, GoesStep
<1>9. CASE SaveUsage(h)
  <2>1. Persists(h, w.copy, "idle") /\ UNCHANGED <<stripe, sent>>  BY <1>9 DEF SaveUsage
  <2>2. "idle" # "save"  OBVIOUS
  <2> QED  BY <1>1, <1>2, <2>1, <2>2, PersistsStep
<1>10. CASE Terminate(h)
  <2> DEFINE d == [w.copy EXCEPT !.status = "Canceled"]
  <2>1. /\ d \in Doc /\ d.v = w.copy.v /\ d.audit = w.copy.audit
        /\ d.networks = w.copy.networks
    BY <1>2 DEF Doc, Status
  <2>2. w.stage = "terminate"  BY <1>10 DEF Terminate, At
  <2>3. Goes(h, "cancel", d) /\ UNCHANGED <<sub, sent, stripe>> /\ "cancel" \in Stage
    BY <1>10 DEF Terminate, Stage
  <2> HIDE DEF d
  <2>4. ASSUME NEW x \in Work, x.stage = "cancel", x.copy = d, x.event = w.event
        PROVE  CopyOK(h, x, sub)
    BY <1>2, <2>1, <2>2, <2>4, SameArrays DEF Reporting
  <2> QED  BY <1>1, <2>1, <2>3, <2>4, GoesStep
<1>11. CASE SaveCanceled(h)
  <2>1. Persists(h, w.copy, "idle") /\ UNCHANGED <<stripe, sent>>  BY <1>11 DEF SaveCanceled
  <2>2. "idle" # "save"  OBVIOUS
  <2> QED  BY <1>1, <1>2, <2>1, <2>2, PersistsStep
<1>12. CASE UserSavesUsage(h)
  <2>1. Persists(h, w.copy, "reread") /\ UNCHANGED <<stripe, sent>> /\ w.event.kind = "user"
    BY <1>12 DEF UserSavesUsage, At
  <2>2. "reread" \in Stage \cup {"idle"} /\ "reread" # "save"  BY DEF Stage
  <2> QED  BY <1>1, <1>2, <2>1, <2>2, PersistsStep
<1>13. CASE UserRereads(h)
  <2> DEFINE d == [sub EXCEPT !.status = "PendingCancelation"]
  <2>1. d \in Doc /\ d.v = sub.v /\ d.audit = sub.audit /\ d.networks = sub.networks
    BY <1>2 DEF Doc, Status
  <2>2. Goes(h, "pend", d) /\ UNCHANGED <<sub, sent, stripe>> /\ "pend" \in Stage
    BY <1>13 DEF UserRereads, Stage
  <2> HIDE DEF d
  <2>3. ASSUME NEW x \in Work, x.stage = "pend", x.copy = d, x.event = w.event
        PROVE  CopyOK(h, x, sub)
    <3>1. ~Reporting(x)  BY <2>3 DEF Reporting
    <3> QED  BY <2>1, <2>3, <3>1, Fresh
  <2> QED  BY <1>1, <2>1, <2>2, <2>3, GoesStep
<1>14. CASE UserPends(h)
  <2>1. Persists(h, w.copy, "stop") /\ UNCHANGED <<stripe, sent>> /\ w.event.kind = "user"
    BY <1>14 DEF UserPends, At
  <2>2. "stop" \in Stage \cup {"idle"} /\ "stop" # "save"  BY DEF Stage
  <2>3. w.event.kind # "activate"  BY <2>1
  <2> QED  BY <1>1, <1>2, <2>1, <2>2, <2>3, PersistsStep
<1>15. CASE UserStops(h)
  <2>1. stripe'.status # "incomplete" /\ UNCHANGED sub /\ w.stage = "stop"
    BY <1>2, <1>15 DEF UserStops, At, TypeOK
  <2>2. \A e \in sent' : e.kind = "activate" => e \in sent
    <3>1. \A e \in {Ev("deleted")} : e.kind # "activate"  BY EventsTyped DEF Kind
    <3> QED  BY <1>15, <3>1, OtherEvents DEF UserStops
  <2>3. CASE Ends(h)  BY <2>1, <2>2, <2>3, EndsStep
  <2>4. CASE Goes(h, "terminate", w.copy)
    <3>1. ASSUME NEW x \in Work, x.stage = "terminate", x.copy = w.copy, x.event = w.event
          PROVE  CopyOK(h, x, sub)
      BY <1>2, <2>1, <3>1, SameArrays DEF Reporting
    <3>2. "terminate" \in Stage  BY DEF Stage
    <3> QED  BY <1>1, <1>2, <2>1, <2>2, <2>4, <3>1, <3>2, GoesStep
  <2> QED  BY <1>15, <2>3, <2>4 DEF UserStops
<1>16. CASE Throws(h)  BY <1>16, EndsStep DEF Throws
<1> QED
  BY <1>3, <1>4, <1>5, <1>6, <1>7, <1>8, <1>9, <1>10, <1>11, <1>12, <1>13, <1>14, <1>15, <1>16
     DEF HandlerStep

LEMMA CStep == MaxDups = 0 /\ CInv /\ [Next]_vars => CInv' /\ Unrewritten
<1> SUFFICES ASSUME MaxDups = 0, CInv, [Next]_vars PROVE CInv' /\ Unrewritten  OBVIOUS
<1>1. IInv'  BY InvStep DEF CInv
<1>2. StepOK
  <2>1. ASSUME NEW k \in {"usage", "end", "user"}
        PROVE  Ev(k) \in Event /\ Ev(k).kind = k /\ Timely(Ev(k))
    BY EventsTyped DEF Timely, Kind
  <2>2. ASSUME NEW h \in Handler, NEW kind \in {"usage", "end"}, Job(h, kind) PROVE StepOK
    BY <2>1, <2>2, BeginsStep DEF Job
  <2>3. ASSUME NEW h \in Handler, UserCancels(h) PROVE StepOK
    BY <2>1, <2>3, BeginsStep DEF UserCancels
  <2>4. CASE UNCHANGED vars  BY <2>4, EnvironmentStep DEF vars
  <2> QED  BY <2>2, <2>3, <2>4, WebhookStep, StripeStep, HandlerStepOK DEF Next
<1> QED  BY <1>1, <1>2 DEF StepOK, CInv

LEMMA CInit == Init => CInv
<1> SUFFICES ASSUME Init PROVE CInv  OBVIOUS
<1>1. IInv  BY InitInv
<1>2. \A h \in Handler : Idle(h)  BY DEF Init, Idle, NoWork
<1>3. Copies  BY <1>2 DEF Copies
<1>4. sent = {} /\ ~sub.networks  BY DEF Init
<1>5. Once  BY <1>2, <1>4 DEF Once, Activating
<1> QED  BY <1>1, <1>3, <1>5 DEF CInv

LEMMA CopiesVersionedNow == CInv => CopiesAreVersioned
<1> SUFFICES ASSUME CInv, NEW h \in Handler, ~Idle(h), work[h].copy.v = sub.v
             PROVE  /\ IsPrefixOf(sub.audit, work[h].copy.audit)
                    /\ sub.networks => work[h].copy.networks
  BY DEF CopiesAreVersioned
<1>1. work[h] \in Work /\ CopyOK(h, work[h], sub) /\ sub \in Doc
  BY Busy DEF CInv, IInv, TypeOK, Copies
<1>2. sub.audit \in Seq(Usage) /\ sub.v \in Nat  BY <1>1, DocFields
<1>3. Current(work[h], sub)  BY <1>1, <1>2 DEF CopyOK, Outdated
<1>4. CASE Reporting(work[h])
  <2>1. Last(work[h]) \in Usage  BY <1>1, <1>4, BaseTyped DEF CopyOK
  <2> QED  BY <1>2, <1>3, <1>4, <2>1, Appending DEF Current
<1>5. CASE ~Reporting(work[h])
  <2>1. IsPrefixOf(sub.audit, sub.audit)  BY <1>2 DEF IsPrefixOf
  <2> QED  BY <1>3, <1>5, <2>1 DEF Current
<1> QED  BY <1>4, <1>5

LEMMA AuditGrowsNow == CInv /\ Unrewritten => IsPrefixOf(sub.audit, sub'.audit)
<1> SUFFICES ASSUME CInv, Unrewritten PROVE IsPrefixOf(sub.audit, sub'.audit)  OBVIOUS
<1>1. sub.audit \in Seq(Usage)  BY DocFields DEF CInv, IInv, TypeOK
<1>2. IsPrefixOf(sub.audit, sub.audit)  BY <1>1 DEF IsPrefixOf
<1>3. \A u \in Usage : IsPrefixOf(sub.audit, Append(sub.audit, u))  BY <1>1, Appending
<1> QED  BY <1>2, <1>3 DEF Unrewritten, Effect

(* A handler's copy with the stored version holds every usage report and    *)
(* network that is stored, with its own report on top: the refusal of the   *)
(* other saves (updateByIdAndSave, __v) is enough.                          *)
THEOREM CopiesVersioned ==
  ASSUME MaxDups = 0
  PROVE  Spec => []CopiesAreVersioned
<1>1. CInv /\ [Next]_vars => CInv'  BY CStep
<1> QED  BY <1>1, CInit, CopiesVersionedNow, PTL DEF Spec

(* ... so no report is ever lost from the audit trail.                      *)
THEOREM AuditGrows ==
  ASSUME MaxDups = 0
  PROVE  Spec => AuditOnlyGrows
<1>1. CInv /\ [Next]_vars => CInv'  BY CStep
<1>2. CInv /\ [Next]_vars => [IsPrefixOf(sub.audit, sub'.audit)]_vars
  BY CStep, AuditGrowsNow
<1> QED  BY <1>1, <1>2, CInit, PTL DEF Spec, AuditOnlyGrows
=============================================================================
