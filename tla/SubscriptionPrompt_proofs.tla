--------------------- MODULE SubscriptionPrompt_proofs ---------------------
(***************************************************************************)
(* Theorems about ConnectSubscription when everything is handled promptly: *)
(* one event, job or request at a time, and all of them before time passes *)
(* or Stripe goes on.  What is proved here depends on that; what holds     *)
(* however handlers interleave is in ConnectSubscription_proofs.           *)
(***************************************************************************)
EXTENDS ConnectSubscription_proofs

(* What waits to be handled, or is being handled. *)
Waiting == sent \cup {work[h].event : h \in {g \in Handler : ~Idle(g)}}
Waits(kinds) == \E e \in Waiting : e.kind \in kinds

(* One at a time: only one handler is at work ... *)
Alone == \A g, h \in Handler : ~Idle(g) /\ ~Idle(h) => g = h

(* ... on an event that was taken off the list.                             *)
Apart == \A h \in Handler : ~Idle(h) => work[h].event \notin sent

(* What it has read is still stored, but for its own changes: s is stored.  *)
HeldStatus(w, s) ==
  CASE w.stage = "pend" -> "PendingCancelation"
    [] w.stage = "cancel" -> "Canceled"
    [] w.stage \in {"schedule", "save"} /\ w.event.kind = "activate" -> "Active"
    [] OTHER -> s.status

HeldLinked(w, s) == IF w.stage = "save" /\ w.event.kind = "activate" THEN TRUE ELSE s.linked

Held(w, s) ==
  /\ w.copy.v = s.v /\ w.copy.period = s.period
  /\ w.copy.status = HeldStatus(w, s) /\ w.copy.linked = HeldLinked(w, s)
  /\ w.stage = "tasks" => w.event.kind \in {"cancel_at", "deleted"}
  /\ w.stage = "cancel" => w.event.kind \in {"end", "user"}

CopiesHeld == \A h \in Handler : ~Idle(h) /\ work[h].stage # "read" => Held(work[h], sub)

OneAtATime == Alone /\ CopiesHeld

LEMMA OnlyOne ==
  ASSUME Alone, NEW h \in Handler, ~Idle(h)
  PROVE  /\ \A g \in Handler : g # h => Idle(g)
         /\ Waiting = sent \cup {work[h].event}
  BY DEF Alone, Waiting

LEMMA NoneAtWork ==
  ASSUME \A g \in Handler : Idle(g)
  PROVE  Waiting = sent /\ Alone /\ CopiesHeld
  BY DEF Waiting, Alone, CopiesHeld

LEMMA OneGoes ==
  ASSUME IInv, Alone, NEW h \in Handler, ~Idle(h), NEW stage \in Stage, NEW copy \in Doc,
         Goes(h, stage, copy)
  PROVE  /\ work'[h].stage = stage /\ work'[h].copy = copy /\ work'[h].event = work[h].event
         /\ work'[h].tcopy = work[h].tcopy /\ work'[h].at = work[h].at
         /\ ~Idle(h)' /\ \A g \in Handler : g # h => Idle(g)'
         /\ Alone' /\ Waiting' = sent' \cup {work[h].event}
         /\ Held(work'[h], sub') => CopiesHeld'
<1>1. work[h] \in Work  BY Busy DEF IInv
<1>2. work' = [work EXCEPT ![h] = [work[h] EXCEPT !.stage = stage, !.copy = copy]]
  BY DEF Goes
<1>3. work'[h] = [work[h] EXCEPT !.stage = stage, !.copy = copy]
      /\ \A g \in Handler : g # h => work'[g] = work[g]
  BY <1>2 DEF IInv, WorkOK
<1>4. /\ work'[h].stage = stage /\ work'[h].copy = copy /\ work'[h].event = work[h].event
      /\ work'[h].tcopy = work[h].tcopy /\ work'[h].at = work[h].at
  BY <1>1, <1>3 DEF Work
<1>5. ~Idle(h)'  BY <1>4 DEF Idle, Stage
<1>6. \A g \in Handler : g # h => Idle(g)'  BY <1>3, OnlyOne DEF Idle
<1>7. Waiting' = sent' \cup {work[h].event}  BY <1>4, <1>5, <1>6 DEF Waiting
<1> QED  BY <1>4, <1>5, <1>6, <1>7 DEF Alone, CopiesHeld

LEMMA OneEnds ==
  ASSUME IInv, Alone, NEW h \in Handler, ~Idle(h), Ends(h)
  PROVE  (\A g \in Handler : Idle(g)') /\ Waiting' = sent' /\ OneAtATime'
<1>1. Idle(h)' /\ \A g \in Handler : g # h => work'[g] = work[g]  BY Ending DEF IInv
<1>2. \A g \in Handler : Idle(g)'  BY <1>1, OnlyOne DEF Idle
<1> QED  BY <1>2 DEF Waiting, OneAtATime, Alone, CopiesHeld

LEMMA OneBegins ==
  ASSUME IInv, Prompt, NEW h \in Handler, NEW e \in Event, Timely(e), Begins(h, e)
  PROVE  /\ \A g \in Handler : Idle(g)
         /\ UNCHANGED <<clock, stripe, sub, task, ending, service, billed>>
         /\ work'[h].stage = "read" /\ work'[h].event = e /\ work'[h].tcopy = task
         /\ work'[h].at = clock
         /\ ~Idle(h)' /\ \A g \in Handler : g # h => Idle(g)'
         /\ Waiting = sent /\ Waiting' = sent' \cup {e} /\ OneAtATime'
<1>1. /\ work'[h].stage = "read" /\ work'[h].event = e
      /\ \A g \in Handler : g # h => work'[g] = work[g]
  BY Beginning
<1>2. \A g \in Handler : Idle(g)  BY DEF Begins
<1>3. ~Idle(h)' /\ \A g \in Handler : g # h => Idle(g)'  BY <1>1, <1>2 DEF Idle
<1>4. work'[h].tcopy = task /\ work'[h].at = clock
  BY DEF Begins, IInv, WorkOK
<1>5. Waiting' = sent' \cup {e}  BY <1>1, <1>3 DEF Waiting
<1>6. OneAtATime'  BY <1>1, <1>3 DEF OneAtATime, Alone, CopiesHeld
<1> QED  BY <1>1, <1>2, <1>3, <1>4, <1>5, <1>6, NoneAtWork DEF Begins

(* A save of what is held is refused only for an Active subscription        *)
(* without a task.                                                          *)
LEMMA SavesHeld ==
  ASSUME IInv, NEW h \in Handler, NEW new \in Doc, new.v = sub.v, NEW stage, Persists(h, new, stage)
  PROVE  \/ ~Valid(new) /\ Ends(h) /\ UNCHANGED sub
         \/ /\ Valid(new)
            /\ sub' \in Doc /\ sub'.status = new.status /\ sub'.period = new.period
            /\ sub'.linked = new.linked
            /\ IF stage = "idle" THEN Ends(h) ELSE Goes(h, stage, sub')
<1>1. VersionMatches(new)  BY DEF VersionMatches
<1>2. /\ Saved(new) \in Doc /\ Saved(new).status = new.status
      /\ Saved(new).period = new.period /\ Saved(new).linked = new.linked
  BY DEF Saved, Doc
<1> QED  BY <1>1, <1>2 DEF Persists, Savable

(* What the webhooks make of the copy they hold. *)
LEMMA ChangedHeld ==
  ASSUME TypeOK, NEW w \in Work, Timely(w.event), NEW answered \in BOOLEAN
  PROVE  LET d == w.copy  n == Changed(w, answered)  kind == w.event.kind IN
         /\ n.linked = d.linked
         /\ kind \notin {"period", "cancel_at", "deleted"} => n.period = d.period
         /\ kind = "period" => n.period = NextPeriod(d, w.event.arg)
         /\ kind \in {"activate", "period"} => n.status = d.status
         /\ kind = "status" => n.status = Mapped(w.event.status)
         /\ kind = "failed" => n.status = "Unpaid"
         /\ kind = "succeeded" => n.status = PaidStatus(d, answered)
         /\ kind \in {"cancel_at", "deleted"}
              => n.status = IF InFuture(w) THEN "PendingCancelation" ELSE "Canceled"
  BY WorkFields DEF Changed, WithEnd, Doc, Period

-----------------------------------------------------------------------------
(* One step of the one handler at work. *)
Same(s, t) == t.status = s.status /\ t.period = s.period /\ t.linked = s.linked

LEMMA AtWork ==
  ASSUME IInv, NEW h \in Handler, HandlerStep(h) \/ Throws(h)
  PROVE  /\ ~Idle(h) /\ work[h] \in Work /\ Timely(work[h].event) /\ work[h].copy \in Doc
         /\ work[h].event \in Event /\ work[h].event \in Waiting /\ UNCHANGED clock
<1>1. ~Idle(h) /\ UNCHANGED clock
  BY DEF HandlerStep, Throws, Idle, At, Read, Provision, Schedule, ScheduleEnd, Save, Report,
     SaveUsage, Terminate, SaveCanceled, UserSavesUsage, UserRereads, UserPends, UserStops
<1>2. work[h] \in Work /\ Timely(work[h].event)  BY <1>1, Busy DEF IInv
<1> QED  BY <1>1, <1>2, WorkFields DEF Waiting

(* A save by a webhook: the new document is stored, unless it is an Active  *)
(* subscription without a task.                                             *)
LEMMA SaveTurn ==
  ASSUME IInv, OneAtATime, NEW h \in Handler, NEW answered \in BOOLEAN, Save(h, answered)
  PROVE  LET w == work[h]  new == Changed(w, answered) IN
         /\ new \in Doc /\ Held(w, sub) /\ OneAtATime'
         /\ \/ ~Valid(new) /\ Ends(h) /\ UNCHANGED sub
            \/ /\ Valid(new)
               /\ sub'.status = new.status /\ sub'.period = new.period /\ sub'.linked = new.linked
               /\ IF w.event.kind \in {"cancel_at", "deleted"} THEN Goes(h, "tasks", sub') ELSE Ends(h)
<1> DEFINE w == work[h]
           new == Changed(w, answered)
           stage == IF w.event.kind \in {"cancel_at", "deleted"} THEN "tasks" ELSE "idle"
<1>1. ~Idle(h) /\ w \in Work /\ Timely(w.event)  BY AtWork DEF HandlerStep
<1>2. w.stage = "save" /\ Held(w, sub)  BY <1>1 DEF Save, At, OneAtATime, CopiesHeld
<1>3. new \in Doc /\ new.v = w.copy.v  BY <1>1, ChangedTyped DEF IInv
<1>4. Persists(h, new, stage)  BY DEF Save
<1>5. new.v = sub.v  BY <1>2, <1>3 DEF Held
<1> HIDE DEF new
<1>6. \/ ~Valid(new) /\ Ends(h) /\ UNCHANGED sub
      \/ /\ Valid(new)
         /\ sub' \in Doc /\ sub'.status = new.status /\ sub'.period = new.period
         /\ sub'.linked = new.linked
         /\ IF stage = "idle" THEN Ends(h) ELSE Goes(h, stage, sub')
  BY <1>3, <1>4, <1>5, SavesHeld
<1>7. OneAtATime'
  <2>1. CASE Ends(h)  BY <1>1, <2>1, OneEnds DEF OneAtATime
  <2>2. CASE stage = "tasks" /\ sub' \in Doc /\ Goes(h, "tasks", sub')
    <3>1. "tasks" \in Stage  BY DEF Stage
    <3>2. /\ work'[h].stage = "tasks" /\ work'[h].copy = sub' /\ work'[h].event = w.event
          /\ Alone' /\ (Held(work'[h], sub') => CopiesHeld')
      BY <1>1, <2>2, <3>1, OneGoes DEF OneAtATime
    <3>3. Held(work'[h], sub')  BY <2>2, <3>2 DEF Held, HeldStatus, HeldLinked
    <3> QED  BY <3>2, <3>3 DEF OneAtATime
  <2> QED  BY <1>6, <2>1, <2>2
<1> QED  BY <1>2, <1>3, <1>6, <1>7 DEF new

(* A save of the copy itself. *)
LEMMA CopyTurn ==
  ASSUME IInv, OneAtATime, NEW h \in Handler, ~Idle(h), work[h].stage # "read",
         NEW stage, Persists(h, work[h].copy, stage),
         \/ stage = "idle"
         \/ stage = "reread" /\ work[h].stage = "save" /\ work[h].event.kind = "user"
         \/ stage = "stop" /\ work[h].stage = "pend"
  PROVE  /\ Held(work[h], sub) /\ OneAtATime'
         /\ \/ ~Valid(work[h].copy) /\ Ends(h) /\ UNCHANGED sub
            \/ /\ Valid(work[h].copy) /\ Same(work[h].copy, sub')
               /\ IF stage = "idle" THEN Ends(h) ELSE Goes(h, stage, sub')
<1> DEFINE w == work[h]
<1>1. w \in Work /\ w.copy \in Doc  BY Busy, WorkFields DEF IInv
<1>2. Held(w, sub)  BY DEF OneAtATime, CopiesHeld
<1>3. w.copy.v = sub.v  BY <1>2 DEF Held
<1>4. \/ ~Valid(w.copy) /\ Ends(h) /\ UNCHANGED sub
      \/ /\ Valid(w.copy)
         /\ sub' \in Doc /\ sub'.status = w.copy.status /\ sub'.period = w.copy.period
         /\ sub'.linked = w.copy.linked
         /\ IF stage = "idle" THEN Ends(h) ELSE Goes(h, stage, sub')
  BY <1>1, <1>3, SavesHeld
<1>5. OneAtATime'
  <2>1. CASE Ends(h)  BY <2>1, OneEnds DEF OneAtATime
  <2>2. CASE stage \in {"reread", "stop"} /\ sub' \in Doc /\ Goes(h, stage, sub')
    <3>1. stage \in Stage  BY <2>2 DEF Stage
    <3>2. /\ work'[h].stage = stage /\ work'[h].copy = sub'
          /\ Alone' /\ (Held(work'[h], sub') => CopiesHeld')
      BY <2>2, <3>1, OneGoes DEF OneAtATime
    <3>3. Held(work'[h], sub')  BY <2>2, <3>2 DEF Held, HeldStatus, HeldLinked
    <3> QED  BY <3>2, <3>3 DEF OneAtATime
  <2> QED  BY <1>4, <2>1, <2>2
<1> QED  BY <1>2, <1>4, <1>5 DEF Same

(* A step that saves nothing. *)
LEMMA GoesTurn ==
  ASSUME IInv, OneAtATime, NEW h \in Handler, ~Idle(h), UNCHANGED sub,
         NEW stage \in Stage, NEW copy \in Doc, Goes(h, stage, copy),
         \A w \in Work : w.stage = stage /\ w.event = work[h].event /\ w.copy = copy => Held(w, sub)
  PROVE  OneAtATime'
<1>1. /\ work'[h].stage = stage /\ work'[h].copy = copy /\ work'[h].event = work[h].event
      /\ Alone' /\ (Held(work'[h], sub') => CopiesHeld')
  BY OneGoes DEF OneAtATime
<1>2. WorkOK'  BY Going DEF IInv
<1>3. work'[h] \in Work /\ ~Idle(h)'
  <2>1. ~Idle(h)'  BY OneGoes DEF OneAtATime
  <2> QED  BY <1>2, <2>1 DEF WorkOK, Idle, NoWork
<1>4. Held(work'[h], sub')  BY <1>1, <1>3
<1> QED  BY <1>1, <1>4 DEF OneAtATime

LEMMA HandlerTurn ==
  ASSUME IInv, OneAtATime, NEW h \in Handler, HandlerStep(h) \/ Throws(h)
  PROVE  OneAtATime'
<1> DEFINE w == work[h]
<1>1. /\ ~Idle(h) /\ w \in Work /\ w.copy \in Doc /\ sub \in Doc /\ Alone
  BY AtWork DEF OneAtATime, IInv, TypeOK
<1>2. w.stage # "read" => Held(w, sub)  BY <1>1 DEF OneAtATime, CopiesHeld
<1>3. CASE Ends(h)  BY <1>1, <1>3, OneEnds DEF OneAtATime
<1>4. CASE Read(h)
  <2>1. NextStage(w.event.kind) \in {"provision", "report", "terminate", "save"}
    BY DEF NextStage
  <2>2. NextStage(w.event.kind) = "save" => w.event.kind # "activate"
    BY DEF NextStage
  <2>3. CASE Goes(h, NextStage(w.event.kind), sub)
    <3>1. NextStage(w.event.kind) \in Stage  BY <2>1 DEF Stage
    <3>2. UNCHANGED sub  BY <1>4 DEF Read
    <3>3. ASSUME NEW x \in Work, x.stage = NextStage(w.event.kind), x.event = w.event, x.copy = sub
          PROVE  Held(x, sub)
      BY <1>1, <2>1, <2>2, <2>3, <3>1, <3>2, <3>3 DEF Held, HeldStatus, HeldLinked
    <3> QED  BY <1>1, <2>1, <2>2, <2>3, <3>1, <3>2, <3>3, GoesTurn
  <2> QED  BY <1>3, <1>4, <2>3 DEF Read
<1>5. CASE Provision(h)
  <2> DEFINE d == [w.copy EXCEPT !.status = "Active", !.networks = TRUE]
  <2>1. d \in Doc /\ d.v = w.copy.v /\ d.period = w.copy.period /\ d.status = "Active"
        /\ d.linked = w.copy.linked
    BY <1>1 DEF Doc, Status
  <2>2. Goes(h, "schedule", d) /\ UNCHANGED sub /\ w.stage = "provision"
        /\ w.event.kind = "activate" /\ "schedule" \in Stage
    BY <1>5 DEF Provision, At, Stage
  <2> HIDE DEF d
  <2>3. w.copy.v = sub.v /\ w.copy.period = sub.period /\ w.copy.linked = sub.linked
    BY <1>2, <2>2 DEF Held, HeldLinked
  <2>4. ASSUME NEW x \in Work, x.stage = "schedule", x.event = w.event, x.copy = d
        PROVE  Held(x, sub)
    BY <1>1, <2>1, <2>2, <2>3, <2>4 DEF Held, HeldStatus, HeldLinked
  <2> QED  BY <1>1, <2>1, <2>2, <2>3, <2>4, GoesTurn
<1>6. CASE Schedule(h)
  <2> DEFINE d == [w.copy EXCEPT !.linked = TRUE]
  <2>1. d \in Doc /\ d.v = w.copy.v /\ d.period = w.copy.period /\ d.status = w.copy.status
        /\ d.linked = TRUE
    BY <1>1 DEF Doc
  <2>2. Goes(h, "save", d) /\ UNCHANGED sub /\ w.stage = "schedule"
        /\ w.event.kind = "activate" /\ "save" \in Stage
    BY <1>6 DEF Schedule, At, Stage
  <2> HIDE DEF d
  <2>3. w.copy.v = sub.v /\ w.copy.period = sub.period /\ w.copy.status = "Active"
    BY <1>2, <2>2 DEF Held, HeldStatus
  <2>4. sub.linked \in BOOLEAN  BY <1>1, DocFields
  <2>5. ASSUME NEW x \in Work, x.stage = "save", x.event = w.event, x.copy = d
        PROVE  Held(x, sub)
    BY <1>1, <2>1, <2>2, <2>3, <2>4, <2>5 DEF Held, HeldStatus, HeldLinked
  <2> QED  BY <1>1, <2>1, <2>2, <2>3, <2>4, <2>5, GoesTurn
<1>7. CASE \E answered \in BOOLEAN : Save(h, answered)  BY <1>7, SaveTurn
<1>8. CASE Report(h)
  <2> DEFINE d == [w.copy EXCEPT !.audit = Append(@, [by |-> h, period |-> w.copy.period])]
  <2>1. d \in Doc
    <3>1. w.copy.audit \in Seq(Usage) /\ w.copy.period \in Period  BY <1>1, DocFields
    <3>2. [by |-> h, period |-> w.copy.period] \in Usage  BY <3>1 DEF Usage
    <3>3. Append(w.copy.audit, [by |-> h, period |-> w.copy.period]) \in Seq(Usage)
      BY <3>1, <3>2
    <3> QED  BY <1>1, <3>3, DocUpdates
  <2>2. d.v = w.copy.v /\ d.period = w.copy.period /\ d.status = w.copy.status
        /\ d.linked = w.copy.linked
    BY <1>1 DEF Doc
  <2>3. Goes(h, "save", d) /\ UNCHANGED sub /\ w.stage = "report"
        /\ w.event.kind \in {"usage", "user"} /\ "save" \in Stage
    BY <1>8 DEF Report, At, Stage
  <2> HIDE DEF d
  <2>4. w.copy.v = sub.v /\ w.copy.period = sub.period /\ w.copy.status = sub.status
        /\ w.copy.linked = sub.linked
    BY <1>2, <2>3 DEF Held, HeldStatus, HeldLinked
  <2>5. ASSUME NEW x \in Work, x.stage = "save", x.event = w.event, x.copy = d
        PROVE  Held(x, sub)
    BY <1>1, <2>1, <2>2, <2>3, <2>4, <2>5 DEF Held, HeldStatus, HeldLinked
  <2> QED  BY <1>1, <2>1, <2>2, <2>3, <2>4, <2>5, GoesTurn
<1>9. CASE SaveUsage(h)
  BY <1>1, <1>9, CopyTurn DEF SaveUsage, At
<1>10. CASE SaveCanceled(h)
  BY <1>1, <1>10, CopyTurn DEF SaveCanceled
<1>11. CASE UserSavesUsage(h)
  BY <1>1, <1>11, CopyTurn DEF UserSavesUsage, At
<1>12. CASE UserPends(h)
  BY <1>1, <1>12, CopyTurn DEF UserPends, At
<1>13. CASE Terminate(h)
  <2> DEFINE d == [w.copy EXCEPT !.status = "Canceled"]
  <2>1. d \in Doc /\ d.v = w.copy.v /\ d.period = w.copy.period /\ d.status = "Canceled"
        /\ d.linked = w.copy.linked
    BY <1>1 DEF Doc, Status
  <2>2. Goes(h, "cancel", d) /\ UNCHANGED sub /\ w.stage = "terminate"
        /\ w.event.kind \in {"end", "user"} /\ "cancel" \in Stage
    BY <1>13 DEF Terminate, At, Stage
  <2> HIDE DEF d
  <2>3. w.copy.v = sub.v /\ w.copy.period = sub.period /\ w.copy.linked = sub.linked
    BY <1>2, <2>2 DEF Held, HeldLinked
  <2>4. ASSUME NEW x \in Work, x.stage = "cancel", x.event = w.event, x.copy = d
        PROVE  Held(x, sub)
    BY <1>1, <2>1, <2>2, <2>3, <2>4 DEF Held, HeldStatus, HeldLinked
  <2> QED  BY <1>1, <2>1, <2>2, <2>3, <2>4, GoesTurn
<1>14. CASE UserRereads(h)
  <2> DEFINE d == [sub EXCEPT !.status = "PendingCancelation"]
  <2>1. d \in Doc /\ d.v = sub.v /\ d.period = sub.period /\ d.status = "PendingCancelation"
        /\ d.linked = sub.linked
    BY <1>1 DEF Doc, Status
  <2>2. Goes(h, "pend", d) /\ UNCHANGED sub /\ "pend" \in Stage
    BY <1>14 DEF UserRereads, Stage
  <2> HIDE DEF d
  <2>3. ASSUME NEW x \in Work, x.stage = "pend", x.event = w.event, x.copy = d
        PROVE  Held(x, sub)
    BY <1>1, <2>1, <2>2, <2>3 DEF Held, HeldStatus, HeldLinked
  <2> QED  BY <1>1, <2>1, <2>2, <2>3, GoesTurn
<1>15. CASE UserStops(h)
  <2>1. UNCHANGED sub /\ w.stage = "stop" /\ w.event.kind = "user" /\ "terminate" \in Stage
    BY <1>15 DEF UserStops, At, Stage
  <2>2. w.copy.v = sub.v /\ w.copy.period = sub.period /\ w.copy.status = sub.status
        /\ w.copy.linked = sub.linked
    BY <1>2, <2>1 DEF Held, HeldStatus, HeldLinked
  <2>3. CASE Goes(h, "terminate", w.copy)
    <3>1. ASSUME NEW x \in Work, x.stage = "terminate", x.event = w.event, x.copy = w.copy
          PROVE  Held(x, sub)
      BY <1>1, <2>1, <2>2, <3>1 DEF Held, HeldStatus, HeldLinked
    <3> QED  BY <1>1, <2>1, <2>2, <2>3, <3>1, GoesTurn
  <2> QED  BY <1>3, <1>15, <2>3 DEF UserStops
<1>16. CASE ScheduleEnd(h) \/ Throws(h)  BY <1>3, <1>16 DEF ScheduleEnd, Throws
<1> QED
  BY <1>4, <1>5, <1>6, <1>7, <1>8, <1>9, <1>10, <1>11, <1>12, <1>13, <1>14, <1>15, <1>16
     DEF HandlerStep

(* A handler is at work alone, with what is stored.                         *)
LEMMA OneAtATimeStep ==
  ASSUME Prompt, IInv, OneAtATime, [Next]_vars
  PROVE  OneAtATime'
<1>1. ASSUME UNCHANGED <<sub, work>> PROVE OneAtATime'
  BY <1>1 DEF OneAtATime, Alone, CopiesHeld, Idle
<1>2. ASSUME NEW h \in Handler, NEW e \in sent, Webhook(h, e) PROVE OneAtATime'
  <2>1. e \in Event /\ Timely(e)  BY DEF IInv, TypeOK
  <2> QED  BY <1>2, <2>1, OneBegins DEF Webhook
<1>3. ASSUME NEW k \in {"usage", "end", "user"} PROVE Ev(k) \in Event /\ Timely(Ev(k))
  BY EventsTyped DEF Timely, Kind
<1>4. ASSUME NEW h \in Handler, NEW kind \in {"usage", "end"}, Job(h, kind) PROVE OneAtATime'
  BY <1>3, <1>4, OneBegins DEF Job
<1>5. ASSUME NEW h \in Handler, UserCancels(h) PROVE OneAtATime'
  BY <1>3, <1>5, OneBegins DEF UserCancels
<1>6. CASE \/ StripePays \/ StripeFails \/ StripeRecovers \/ StripeCancels
           \/ StripeCancelsLater \/ TimePasses
  BY <1>1, <1>6 DEF StripePays, StripeFails, StripeRecovers, StripeCancels, StripeCancelsLater,
     TimePasses, StripeMoves
<1>7. CASE UNCHANGED vars  BY <1>1, <1>7 DEF vars
<1> QED  BY <1>2, <1>4, <1>5, <1>6, <1>7, HandlerTurn DEF Next

LEMMA OneAtATimeInit == Init => OneAtATime
<1> SUFFICES ASSUME Init PROVE OneAtATime  OBVIOUS
<1>1. \A h \in Handler : Idle(h)  BY DEF Init, Idle, NoWork
<1> QED  BY <1>1, NoneAtWork DEF OneAtATime

-----------------------------------------------------------------------------
(* Cancelation.  Stripe has nothing to say before the first payment; *)
BeforePayment ==
  stripe.status = "incomplete" =>
    Waiting = {} /\ sub.status = "Incomplete" /\ task.state = "none" /\ ending.state = "none"

(* the activation is over before anything but a status can follow it; *)
ActivatedFirst ==
  Waits({"activate"}) =>
    /\ sub.status \notin Ended /\ ending.state = "none"
    /\ ~Waits(Kind \ {"activate", "status", "usage"})

(* Stripe sends nothing more about the status of what it canceled; *)
StatusInTime ==
  \A e \in Waiting : e.kind = "status" => e.status # "canceled" /\ stripe.status # "canceled"

StatusNotPending ==
  \A h \in Handler : At(h, "save", {"status"}) => sub.status # "PendingCancelation"

(* what is Canceled, or about to be, Stripe has canceled; *)
CanceledByStripe ==
  \/ stripe.status = "canceled"
  \/ /\ sub.status # "Canceled"
     /\ ~Waits({"deleted", "end"})
     /\ \A h \in Handler : work[h].stage \notin {"terminate", "cancel"}

(* till then an end is planned for the end of the cycle only; *)
EndOfCycle(s, t) == s.cancelAt /\ t = CycleEnd(StripeCycle)

EndPlanned ==
  stripe.status # "canceled" =>
    /\ ending.state = "queued" => EndOfCycle(stripe, ending.due)
    /\ \A e \in Waiting : e.kind = "cancel_at" => EndOfCycle(stripe, e.arg)

(* and the user cancels when nothing else is waiting. *)
UserAlone == Waits({"user"}) /\ stripe.status # "canceled" => sent = {}

NoPayments == ~Waits({"failed", "succeeded"})

EndInv ==
  /\ BeforePayment /\ ActivatedFirst /\ StatusInTime /\ StatusNotPending
  /\ CanceledByStripe /\ EndPlanned /\ UserAlone /\ NoPayments

StaysEnded == sub.status \in Ended => sub'.status \in Ended

LEMMA CycleAhead ==
  ASSUME TypeOK
  PROVE  CycleEnd(StripeCycle) \in Nat /\ CycleEnd(StripeCycle) > clock
<1>1. clock \in Nat  BY DEF TypeOK
<1>2. \A n \in Nat : 2 * (n \div 2 + 1) \in Nat /\ 2 * (n \div 2 + 1) > n  OBVIOUS
<1> QED  BY <1>1, <1>2 DEF CycleEnd, StripeCycle

LEMMA CycleGoesOn ==
  ASSUME TypeOK, clock' = clock + 1, clock' % 2 = 1
  PROVE  CycleEnd(StripeCycle)' = CycleEnd(StripeCycle)
<1>1. PICK n \in Nat : n = clock  BY DEF TypeOK
<1>2. (n + 1) % 2 = 1 => (n + 1) \div 2 = n \div 2  OBVIOUS
<1> QED  BY <1>1, <1>2 DEF CycleEnd, StripeCycle

(* Stripe and the clock move when everything is handled. *)
LEMMA EndQuiet ==
  ASSUME IInv, EndInv, Quiet, UNCHANGED <<sub, ending, work>>,
         stripe'.status # "incomplete",
         stripe.status = "canceled" => stripe'.status = "canceled",
         \A e \in sent' :
           /\ e.kind \notin {"user", "end", "failed", "succeeded"}
           /\ e.kind = "activate" =>
                /\ sub.status \notin Ended /\ ending.state = "none"
                /\ \A f \in sent' : f.kind \in {"activate", "status"}
           /\ e.kind = "status" => e.status # "canceled" /\ stripe'.status # "canceled"
           /\ e.kind = "deleted" => stripe'.status = "canceled"
           /\ e.kind = "cancel_at" => EndOfCycle(stripe, e.arg)',
         stripe'.status # "canceled" /\ ending.state = "queued" => EndOfCycle(stripe, ending.due)'
  PROVE  EndInv'
<1>1. \A h \in Handler : Idle(h) /\ Idle(h)'  BY DEF Quiet, Idle
<1>2. Waiting = {} /\ Waiting' = sent'  BY <1>1 DEF Quiet, Waiting
<1>3. \A h \in Handler : work'[h].stage = "idle"  BY <1>1 DEF Idle
<1>4. BeforePayment'  BY DEF BeforePayment
<1>5. ActivatedFirst'  BY <1>2 DEF ActivatedFirst, Waits
<1>6. StatusInTime'  BY <1>2 DEF StatusInTime
<1>7. StatusNotPending'  BY <1>3 DEF StatusNotPending, At
<1>8. CanceledByStripe'  BY <1>2, <1>3 DEF EndInv, CanceledByStripe, Waits
<1>9. EndPlanned'  BY <1>2 DEF EndPlanned
<1>10. UserAlone' /\ NoPayments'  BY <1>2 DEF UserAlone, NoPayments, Waits
<1> QED  BY <1>4, <1>5, <1>6, <1>7, <1>8, <1>9, <1>10 DEF EndInv

LEMMA EndStripe ==
  ASSUME Prompt, Kinds \cap {"failed", "succeeded"} = {}, IInv, EndInv,
         \/ StripePays \/ StripeFails \/ StripeRecovers \/ StripeCancels
         \/ StripeCancelsLater \/ TimePasses
  PROVE  EndInv'
<1>0. /\ stripe \in [status : StripeStatus, cancelAt : BOOLEAN] /\ clock \in Nat /\ TypeOK
      /\ stripe.cancelAt \in BOOLEAN
  BY DEF IInv, TypeOK
<1>1. Quiet /\ UNCHANGED <<sub, ending, work>>
  BY DEF StripePays, StripeFails, StripeRecovers, StripeCancels, StripeCancelsLater, TimePasses,
     StripeMoves
<1>2. sent = {}  BY <1>1 DEF Quiet
<1>3. /\ Ev("activate").kind = "activate" /\ Ev("failed").kind = "failed"
      /\ Ev("succeeded").kind = "succeeded" /\ Ev("deleted").kind = "deleted"
      /\ \A s : StatusEv(s).kind = "status" /\ StatusEv(s).status = s
      /\ \A n : PeriodEv(n).kind = "period"
      /\ \A n : CancelEv(n).kind = "cancel_at" /\ CancelEv(n).arg = n
  BY DEF Ev, StatusEv, PeriodEv, CancelEv
<1>4. CASE StripePays
  <2>1. /\ stripe.status = "incomplete" /\ stripe'.status = "active"
        /\ \A e \in sent' : e \in {Ev("activate"), StatusEv("active")}
    BY <1>0, <1>2, <1>4 DEF StripePays, StripeMoves, Emits
  <2>2. sub.status = "Incomplete" /\ ending.state = "none"
    BY <2>1 DEF EndInv, BeforePayment
  <2> QED  BY <1>1, <1>3, <2>1, <2>2, EndQuiet DEF Ended
<1>5. CASE StripeFails \/ StripeRecovers
  <2>1. PICK s \in {"active", "past_due", "unpaid"} :
          /\ stripe'.status = s /\ stripe'.cancelAt = stripe.cancelAt /\ UNCHANGED clock
          /\ \A e \in sent' : e.kind \in Kinds /\ e \in {Ev("failed"), Ev("succeeded"), StatusEv(s)}
    BY <1>0, <1>2, <1>5 DEF StripeFails, StripeRecovers, StripeMoves, Emits
  <2>2. stripe.status # "canceled"
    BY <1>5 DEF StripeFails, StripeRecovers, StripeMoves
  <2>3. \A e \in sent' : e = StatusEv(s)  BY <1>3, <2>1
  <2>4. ending.state = "queued" => EndOfCycle(stripe, ending.due)'
    BY <1>1, <2>1, <2>2 DEF EndInv, EndPlanned, EndOfCycle, CycleEnd, StripeCycle
  <2> QED  BY <1>1, <1>3, <2>1, <2>2, <2>3, <2>4, EndQuiet
<1>6. CASE StripeCancels
  <2>1. stripe'.status = "canceled" /\ \A e \in sent' : e = Ev("deleted")
    BY <1>0, <1>2, <1>6 DEF StripeCancels, StripeMoves, Emits
  <2> QED  BY <1>1, <1>3, <2>1, EndQuiet
<1>7. CASE StripeCancelsLater
  <2>1. /\ stripe.status = "active" /\ ~stripe.cancelAt /\ UNCHANGED clock
        /\ stripe'.status = "active" /\ stripe'.cancelAt
        /\ \A e \in sent' : e = CancelEv(CycleEnd(StripeCycle))
    BY <1>0, <1>2, <1>7 DEF StripeCancelsLater, Emits
  <2>2. ending.state # "queued"
    BY <2>1 DEF EndInv, EndPlanned, EndOfCycle
  <2>3. \A e \in sent' : EndOfCycle(stripe, e.arg)'
    BY <1>3, <2>1 DEF EndOfCycle, CycleEnd, StripeCycle
  <2> QED  BY <1>1, <1>3, <2>1, <2>2, <2>3, EndQuiet
<1>8. CASE TimePasses
  <2>1. stripe.status # "incomplete" /\ clock' = clock + 1  BY <1>8 DEF TimePasses
  <2>2. CASE UNCHANGED <<stripe, sent>> /\ (stripe.status = "canceled" \/ clock' % 2 = 1)
    <3>1. stripe'.status # "canceled" /\ ending.state = "queued" => EndOfCycle(stripe, ending.due)'
      BY <1>0, <1>1, <2>1, <2>2, CycleGoesOn DEF EndInv, EndPlanned, EndOfCycle
    <3> QED  BY <1>1, <1>2, <2>1, <2>2, <3>1, EndQuiet
  <2>3. CASE stripe' = [stripe EXCEPT !.status = "canceled"] /\ Emits({Ev("deleted")})
    <3>1. stripe'.status = "canceled"  BY <1>0, <2>3
    <3>2. \A e \in sent' : e = Ev("deleted")  BY <1>2, <2>3 DEF Emits
    <3> QED  BY <1>1, <1>3, <3>1, <3>2, EndQuiet
  <2>4. CASE /\ stripe.status # "canceled" /\ ~stripe.cancelAt /\ UNCHANGED stripe
             /\ Emits({PeriodEv(clock' \div 2 + 1)})
    <3>1. ending.state # "queued"  BY <2>4 DEF EndInv, EndPlanned, EndOfCycle
    <3>2. \A e \in sent' : e.kind = "period"  BY <1>2, <1>3, <2>4 DEF Emits
    <3> QED  BY <1>1, <2>1, <2>4, <3>1, <3>2, EndQuiet
  <2> QED  BY <1>8, <2>2, <2>3, <2>4 DEF TimePasses
<1> QED  BY <1>4, <1>5, <1>6, <1>7, <1>8

(* Work begins. *)
LEMMA EndBegins ==
  ASSUME Prompt, MaxDups = 0, IInv, EndInv, NEW h \in Handler,
         \/ \E e \in sent : Webhook(h, e)
         \/ \E kind \in {"usage", "end"} : Job(h, kind)
         \/ UserCancels(h)
  PROVE  EndInv' /\ UNCHANGED sub
<1>1. PICK e \in Event :
        /\ Begins(h, e) /\ Timely(e) /\ sent' \subseteq sent
        /\ \/ e \in sent
           \/ e.kind = "usage" /\ Due(task)
           \/ e.kind = "end" /\ Due(ending)
           \/ e.kind = "user" /\ sub.status = "Active" /\ sent = {}
  <2>1. ASSUME NEW e \in sent, Webhook(h, e)
        PROVE  e \in Event /\ Begins(h, e) /\ Timely(e) /\ sent' \subseteq sent
    BY <2>1 DEF Webhook, IInv, TypeOK
  <2>2. \A k \in {"usage", "end", "user"} : Ev(k) \in Event /\ Ev(k).kind = k /\ Timely(Ev(k))
    BY EventsTyped DEF Timely, Kind
  <2>3. ASSUME NEW k \in {"usage", "end"}, Job(h, k)
        PROVE  /\ Begins(h, Ev(k)) /\ sent' = sent
               /\ k = "usage" => Due(task)
               /\ k = "end" => Due(ending)
    BY <2>3 DEF Job
  <2>4. ASSUME UserCancels(h)
        PROVE  Begins(h, Ev("user")) /\ sent' \subseteq sent /\ sub.status = "Active" /\ sent = {}
    BY <2>4 DEF UserCancels, Quiet
  <2> QED  BY <2>1, <2>2, <2>3, <2>4
<1>2. /\ UNCHANGED <<clock, stripe, sub, task, ending>>
      /\ work'[h].stage = "read" /\ \A g \in Handler : g # h => Idle(g)'
      /\ Waiting = sent /\ Waiting' = sent' \cup {e}
  BY <1>1, OneBegins
<1>3. Waiting' \subseteq Waiting \cup {e}  BY <1>1, <1>2
<1>4. \A g \in Handler : work'[g].stage \in {"read", "idle"}  BY <1>2 DEF Idle
<1>5. ASSUME Due(ending) PROVE stripe.status = "canceled"
  <2>1. clock \in Nat /\ ending.due \in Nat /\ CycleEnd(StripeCycle) > clock
    BY CycleAhead DEF IInv, TypeOK, Task
  <2> QED  BY <1>5, <2>1 DEF Due, EndInv, EndPlanned, EndOfCycle
<1>6. BeforePayment'
  <2>1. stripe.status # "incomplete"
    BY <1>1, <1>2 DEF EndInv, BeforePayment, Due
  <2> QED  BY <1>2, <2>1 DEF BeforePayment
<1>7. ActivatedFirst'
  <2>1. CASE e \in sent \/ e.kind = "usage"
    BY <1>2, <1>3, <2>1 DEF EndInv, ActivatedFirst, Waits, Kind
  <2>2. CASE e.kind = "end" /\ Due(ending)
    BY <1>2, <1>3, <2>2 DEF EndInv, ActivatedFirst, Waits, Due
  <2>3. CASE e.kind = "user" /\ sent = {}
    BY <1>2, <1>3, <2>3 DEF ActivatedFirst, Waits
  <2> QED  BY <1>1, <2>1, <2>2, <2>3
<1>8. StatusInTime'  BY <1>1, <1>2, <1>3 DEF EndInv, StatusInTime
<1>9. StatusNotPending'  BY <1>4 DEF StatusNotPending, At
<1>10. CanceledByStripe'
  BY <1>1, <1>2, <1>3, <1>4, <1>5 DEF EndInv, CanceledByStripe, Waits
<1>11. EndPlanned'
  <2>1. \A t : EndOfCycle(stripe, t)' = EndOfCycle(stripe, t)
    BY <1>2 DEF EndOfCycle, CycleEnd, StripeCycle
  <2>2. e.kind = "cancel_at" => e \in Waiting  BY <1>1, <1>2
  <2>3. \A f \in Waiting' : f.kind = "cancel_at" => f \in Waiting  BY <1>3, <2>2
  <2>4. ASSUME stripe.status # "canceled", NEW f \in Waiting', f.kind = "cancel_at"
        PROVE  EndOfCycle(stripe, f.arg)'
    BY <2>1, <2>3, <2>4 DEF EndInv, EndPlanned
  <2>5. stripe.status # "canceled" /\ ending.state = "queued" => EndOfCycle(stripe, ending.due)'
    BY <1>2, <2>1 DEF EndInv, EndPlanned
  <2> QED  BY <1>2, <2>4, <2>5 DEF EndPlanned
<1>12. UserAlone'
  <2>1. CASE sent = {}  BY <1>1, <2>1 DEF UserAlone
  <2>2. CASE e.kind # "user"
    BY <1>1, <1>2, <1>3, <2>2 DEF EndInv, UserAlone, Waits
  <2>3. CASE e \in sent  BY <1>1, <1>2, <2>3 DEF EndInv, UserAlone, Waits
  <2> QED  BY <1>1, <2>1, <2>2, <2>3
<1>13. NoPayments'  BY <1>1, <1>2, <1>3 DEF EndInv, NoPayments, Waits
<1> QED  BY <1>2, <1>6, <1>7, <1>8, <1>9, <1>10, <1>11, <1>12, <1>13 DEF EndInv

(* What is to show of a step of a handler that Stripe does not see.         *)
Leads(w, stage) ==
  /\ stage \in {"terminate", "cancel"}
       => w.event.kind = "end" \/ w.stage = "terminate" \/ stripe.status = "canceled"
  /\ stage = "save" /\ w.event.kind = "status" => sub'.status # "PendingCancelation"

LEMMA EndKept ==
  ASSUME IInv, OneAtATime, EndInv, NEW h \in Handler, ~Idle(h),
         UNCHANGED <<clock, stripe, sent>>,
         ending.state = "none" /\ ending'.state # "none"
           => work[h].event.kind \notin {"activate", "status", "usage"},
         ending'.state = "queued"
           => ending' = ending \/ stripe.status = "canceled" \/ EndOfCycle(stripe, ending'.due),
         sub'.status \in Ended
           => sub.status \in Ended \/ work[h].event.kind \notin {"activate", "status", "usage"},
         sub'.status = "Canceled" => sub.status = "Canceled" \/ stripe.status = "canceled",
         \/ Ends(h)
         \/ \E stage \in Stage, copy \in Doc : Goes(h, stage, copy) /\ Leads(work[h], stage)
  PROVE  EndInv'
<1> DEFINE w == work[h]
<1>1. w.event \in Waiting /\ w.event \in Event /\ stripe.status # "incomplete"
  <2>1. w.event \in Waiting  BY DEF Waiting
  <2>2. w.event \in Event  BY Busy, WorkFields DEF IInv
  <2> QED  BY <2>1, <2>2 DEF EndInv, BeforePayment
<1>2. Waiting = sent \cup {w.event}  BY OnlyOne DEF OneAtATime
<1>3. PICK st \in Stage \cup {"idle"} :
        /\ work'[h].stage = st /\ \A g \in Handler : g # h => work'[g].stage = "idle"
        /\ Waiting' \subseteq Waiting /\ Leads(w, st)
        /\ st # "idle" => work'[h].event = w.event
  <2>1. CASE Ends(h)
    <3>1. (\A g \in Handler : Idle(g)') /\ Waiting' = sent'
      BY <2>1, OneEnds DEF OneAtATime
    <3> QED  BY <1>2, <3>1 DEF Idle, Leads
  <2>2. ASSUME NEW stage \in Stage, NEW copy \in Doc, Goes(h, stage, copy), Leads(w, stage)
        PROVE  /\ work'[h].stage = stage /\ \A g \in Handler : g # h => work'[g].stage = "idle"
               /\ Waiting' \subseteq Waiting /\ work'[h].event = w.event
    <3>1. /\ work'[h].stage = stage /\ work'[h].event = w.event
          /\ (\A g \in Handler : g # h => Idle(g)') /\ Waiting' = sent' \cup {w.event}
      BY <2>2, OneGoes DEF OneAtATime
    <3> QED  BY <1>2, <3>1 DEF Idle
  <2> QED  BY <2>1, <2>2
<1>4. BeforePayment'  BY <1>1 DEF BeforePayment
<1>5. ActivatedFirst'
  <2>1. ASSUME Waits({"activate"}) PROVE w.event.kind \in {"activate", "status", "usage"}
    BY <1>1, <2>1 DEF EndInv, ActivatedFirst, Waits, Event
  <2> QED  BY <1>3, <2>1 DEF EndInv, ActivatedFirst, Waits
<1>6. StatusInTime'  BY <1>3 DEF EndInv, StatusInTime
<1>7. StatusNotPending'  BY <1>3 DEF StatusNotPending, At, Leads
<1>8. CanceledByStripe'
  BY <1>1, <1>3 DEF EndInv, CanceledByStripe, Waits, Leads
<1>9. EndPlanned'
  <2>1. \A t : EndOfCycle(stripe, t)' = EndOfCycle(stripe, t)
    BY DEF EndOfCycle, CycleEnd, StripeCycle
  <2>2. ASSUME stripe.status # "canceled", NEW f \in Waiting', f.kind = "cancel_at"
        PROVE  EndOfCycle(stripe, f.arg)'
    BY <1>3, <2>1, <2>2 DEF EndInv, EndPlanned
  <2>3. ASSUME stripe.status # "canceled", ending'.state = "queued"
        PROVE  EndOfCycle(stripe, ending.due)'
    <3>1. EndOfCycle(stripe, ending'.due)  BY <2>3 DEF EndInv, EndPlanned
    <3> QED  BY <3>1 DEF EndOfCycle, CycleEnd, StripeCycle
  <2> QED  BY <2>2, <2>3 DEF EndPlanned
<1>10. UserAlone' /\ NoPayments'  BY <1>3 DEF EndInv, UserAlone, NoPayments, Waits
<1> QED  BY <1>4, <1>5, <1>6, <1>7, <1>8, <1>9, <1>10 DEF EndInv

(* The steps of a handler: none takes a cancelation back.                   *)
LEMMA EndSave ==
  ASSUME IInv, OneAtATime, EndInv, NEW h \in Handler, NEW answered \in BOOLEAN, Save(h, answered)
  PROVE  EndInv' /\ StaysEnded
<1> DEFINE w == work[h]
           new == Changed(w, answered)
<1>1. /\ ~Idle(h) /\ w \in Work /\ Timely(w.event) /\ w.event \in Event /\ w.event \in Waiting
      /\ TypeOK /\ UNCHANGED <<clock, stripe, sent, ending>>
  BY AtWork DEF HandlerStep, Save, IInv
<1>2. /\ Held(w, sub) /\ w.stage = "save" /\ w.event.kind \in WebhookKinds
      /\ \/ Ends(h) /\ UNCHANGED sub
         \/ /\ sub'.status = new.status
            /\ Ends(h) \/ \E copy \in Doc : Goes(h, "tasks", copy)
  <2>1. w.stage = "save" /\ w.event.kind \in WebhookKinds  BY DEF Save, At
  <2>2. sub' \in Doc  BY HandlerStepKeeps DEF HandlerStep, IInv, TypeOK
  <2> QED  BY <2>1, <2>2, SaveTurn
<1>3. ASSUME sub'.status = new.status, w.event.kind \notin {"cancel_at", "deleted"}
      PROVE  /\ sub'.status \in Ended => sub.status \in Ended /\ sub'.status = sub.status
             /\ StaysEnded
  <2>1. CASE w.event.kind = "activate"
    <3>1. new.status = "Active"  BY <1>1, <1>2, <2>1, ChangedHeld DEF Held, HeldStatus
    <3>2. sub.status \notin Ended  BY <1>1, <2>1 DEF EndInv, ActivatedFirst, Waits
    <3> QED  BY <1>3, <3>1, <3>2 DEF Ended, StaysEnded
  <2>2. CASE w.event.kind = "period"
    <3>1. new.status = sub.status  BY <1>1, <1>2, <2>2, ChangedHeld DEF Held, HeldStatus
    <3> QED  BY <1>3, <3>1 DEF StaysEnded
  <2>3. CASE w.event.kind = "status"
    <3>1. new.status = Mapped(w.event.status)  BY <1>1, <2>3, ChangedHeld
    <3>2. w.event.status # "canceled" /\ stripe.status # "canceled"
      BY <1>1, <2>3 DEF EndInv, StatusInTime
    <3>3. w.event.status \in StripeStatus  BY <1>1 DEF Event
    <3>4. new.status \notin Ended  BY <3>1, <3>2, <3>3 DEF Mapped, StripeStatus, Ended
    <3>5. sub.status # "PendingCancelation"
      BY <1>2, <2>3 DEF EndInv, StatusNotPending, At
    <3>6. sub.status # "Canceled"  BY <3>2 DEF EndInv, CanceledByStripe
    <3> QED  BY <1>3, <3>4, <3>5, <3>6 DEF Ended, StaysEnded
  <2>4. w.event.kind \notin {"failed", "succeeded"}
    BY <1>1 DEF EndInv, NoPayments, Waits
  <2> QED  BY <1>2, <1>3, <2>1, <2>2, <2>3, <2>4 DEF WebhookKinds
<1>4. ASSUME sub'.status = new.status, w.event.kind \in {"cancel_at", "deleted"}
      PROVE  /\ sub'.status \in Ended
             /\ sub'.status = "Canceled" => stripe.status = "canceled"
  <2>1. new.status = IF InFuture(w) THEN "PendingCancelation" ELSE "Canceled"
    BY <1>1, <1>4, ChangedHeld
  <2>2. CASE w.event.kind = "deleted"
    <3>1. stripe.status = "canceled"  BY <1>1, <2>2 DEF EndInv, CanceledByStripe, Waits
    <3> QED  BY <1>4, <2>1, <3>1 DEF Ended
  <2>3. CASE w.event.kind = "cancel_at"
    <3>1. stripe.status # "canceled" => w.event.arg = CycleEnd(StripeCycle)
      BY <1>1, <2>3 DEF EndInv, EndPlanned, EndOfCycle
    <3>2. stripe.status # "canceled" => InFuture(w)
      BY <1>1, <2>3, <3>1, CycleAhead DEF InFuture, CancelDate
    <3> QED  BY <1>4, <2>1, <3>2 DEF Ended
  <2> QED  BY <1>4, <2>2, <2>3
<1>5. StaysEnded  BY <1>2, <1>3, <1>4 DEF StaysEnded
<1>6. sub'.status \in Ended
        => sub.status \in Ended \/ w.event.kind \notin {"activate", "status", "usage"}
  BY <1>2, <1>3
<1>7. sub'.status = "Canceled" => sub.status = "Canceled" \/ stripe.status = "canceled"
  BY <1>2, <1>3, <1>4 DEF Ended
<1>8. Ends(h) \/ \E stage \in Stage, copy \in Doc : Goes(h, stage, copy) /\ Leads(w, stage)
  <2>1. Leads(w, "tasks") /\ "tasks" \in Stage  BY DEF Leads, Stage
  <2> QED  BY <1>2, <2>1
<1>9. ending' = ending  BY <1>1
<1> QED  BY <1>1, <1>5, <1>6, <1>7, <1>8, <1>9, EndKept

LEMMA EndStops ==
  ASSUME IInv, OneAtATime, EndInv, NEW h \in Handler, UserStops(h)
  PROVE  EndInv' /\ StaysEnded
<1> DEFINE w == work[h]
<1>1. /\ ~Idle(h) /\ w \in Work /\ w.copy \in Doc /\ w.event \in Waiting /\ Alone
      /\ w.event.kind = "user" /\ w.stage = "stop" /\ UNCHANGED <<clock, sub, ending>>
  BY AtWork DEF HandlerStep, UserStops, At, OneAtATime
<1>2. stripe'.status = "canceled"  BY DEF UserStops, IInv, TypeOK
<1>3. \A e \in sent' : e \in sent \/ e = Ev("deleted")  BY DEF UserStops, Emits
<1>4. stripe.status # "canceled" => sent = {}
  BY <1>1 DEF EndInv, UserAlone, Waits
<1>5. stripe.status = "canceled" => sent' = sent  BY DEF UserStops
<1>6. PICK st \in {"terminate", "idle"} :
        /\ work'[h].stage = st /\ \A g \in Handler : g # h => work'[g].stage = "idle"
        /\ Waiting' \subseteq sent' \cup {w.event}
  <2>1. CASE Ends(h)
    <3>1. (\A g \in Handler : Idle(g)') /\ Waiting' = sent'  BY <1>1, <2>1, OneEnds
    <3> QED  BY <3>1 DEF Idle
  <2>2. CASE Goes(h, "terminate", w.copy)
    <3>1. "terminate" \in Stage  BY DEF Stage
    <3>2. /\ work'[h].stage = "terminate" /\ (\A g \in Handler : g # h => Idle(g)')
          /\ Waiting' = sent' \cup {w.event}
      BY <1>1, <2>2, <3>1, OneGoes
    <3> QED  BY <3>2 DEF Idle
  <2> QED  BY <2>1, <2>2 DEF UserStops
<1>7. Ev("deleted").kind = "deleted"  BY DEF Ev
<1>8. \A e \in Waiting' : e \in Waiting \/ e = Ev("deleted")
  BY <1>1, <1>3, <1>6 DEF Waiting
<1>9. Waits({"activate", "status"})' => Waits({"activate", "status"}) /\ FALSE
  <2>1. ASSUME NEW e \in Waiting', e.kind \in {"activate", "status"} PROVE FALSE
    <3>1. e \in sent  BY <1>1, <1>3, <1>6, <1>7, <2>1
    <3>2. stripe.status = "canceled"  BY <1>4, <3>1
    <3>3. e \in Waiting  BY <3>1 DEF Waiting
    <3>4. e.kind # "status"  BY <3>2, <3>3 DEF EndInv, StatusInTime
    <3>5. e.kind # "activate"
      <4>1. w.event.kind \in Kind \ {"activate", "status", "usage"}  BY <1>1 DEF Kind
      <4> QED  BY <1>1, <3>3, <4>1 DEF EndInv, ActivatedFirst, Waits
    <3> QED  BY <2>1, <3>4, <3>5
  <2> QED  BY <2>1 DEF Waits
<1>10. BeforePayment' /\ CanceledByStripe' /\ EndPlanned' /\ UserAlone'
  BY <1>2 DEF BeforePayment, CanceledByStripe, EndPlanned, UserAlone
<1>11. ActivatedFirst' /\ StatusInTime'  BY <1>9 DEF ActivatedFirst, StatusInTime, Waits
<1>12. StatusNotPending'  BY <1>6 DEF StatusNotPending, At
<1>13. NoPayments'  BY <1>7, <1>8 DEF EndInv, NoPayments, Waits
<1> QED  BY <1>1, <1>10, <1>11, <1>12, <1>13 DEF EndInv, StaysEnded

LEMMA EndHandler ==
  ASSUME IInv, OneAtATime, EndInv, NEW h \in Handler, HandlerStep(h) \/ Throws(h)
  PROVE  EndInv' /\ StaysEnded
<1> DEFINE w == work[h]
<1>1. /\ ~Idle(h) /\ w \in Work /\ w.copy \in Doc /\ w.event \in Event /\ w.event \in Waiting
      /\ UNCHANGED clock /\ sub \in Doc /\ sub' \in Doc
  <2>1. IInv'  BY HandlerStepKeeps
  <2> QED  BY <2>1, AtWork DEF IInv, TypeOK
<1>2. w.stage # "read" => Held(w, sub)  BY <1>1 DEF OneAtATime, CopiesHeld
<1>3. ASSUME UNCHANGED <<stripe, sent, ending>>, sub'.status = sub.status,
             \/ Ends(h)
             \/ \E stage \in Stage, copy \in Doc : Goes(h, stage, copy) /\ Leads(w, stage)
      PROVE  EndInv' /\ StaysEnded
  BY <1>1, <1>3, EndKept DEF StaysEnded
<1>4. CASE Read(h)
  <2>1. CASE Ends(h)  BY <1>3, <1>4, <2>1 DEF Read
  <2>2. CASE Proceeds(w.event, sub) /\ Goes(h, NextStage(w.event.kind), sub)
    <3>1. NextStage(w.event.kind) \in Stage  BY DEF NextStage, Stage
    <3>2. Leads(w, NextStage(w.event.kind))
      BY <1>4, <2>2 DEF Leads, NextStage, Proceeds, Read
    <3> QED  BY <1>1, <1>3, <1>4, <2>2, <3>1, <3>2 DEF Read
  <2> QED  BY <1>4, <2>1, <2>2 DEF Read
<1>5. CASE Provision(h) \/ Schedule(h) \/ Report(h) \/ UserRereads(h)
  <2>1. /\ UNCHANGED <<stripe, sent, ending, sub>> /\ w.event.kind # "status"
        /\ \E stage \in {"schedule", "save", "pend"} : \E copy : Goes(h, stage, copy)
    BY <1>5 DEF Provision, Schedule, Report, UserRereads, At
  <2>2. PICK stage, copy : stage \in {"schedule", "save", "pend"} /\ Goes(h, stage, copy)
    BY <2>1
  <2>3. copy \in Doc
    <3>1. work'[h] = [w EXCEPT !.stage = stage, !.copy = copy]
      BY <2>2 DEF Goes, IInv, WorkOK
    <3>2. work'[h].copy = copy /\ work'[h].stage = stage  BY <1>1, <3>1 DEF Work
    <3>3. IInv'  BY HandlerStepKeeps
    <3>4. work'[h] \in Work  BY <2>2, <3>2, <3>3 DEF IInv, WorkOK, NoWork
    <3> QED  BY <3>2, <3>4, WorkFields
  <2>4. stage \in Stage /\ Leads(w, stage)  BY <2>1, <2>2 DEF Leads, Stage
  <2> QED  BY <1>3, <2>1, <2>2, <2>3, <2>4
<1>6. CASE \E answered \in BOOLEAN : Save(h, answered)  BY <1>6, EndSave
<1>7. CASE ScheduleEnd(h)
  <2>1. /\ Ends(h) /\ UNCHANGED <<stripe, sent, sub>> /\ w.stage = "tasks"
        /\ ending'.due = CancelDate(w)
    BY <1>7 DEF ScheduleEnd
  <2>2. w.event.kind \in {"cancel_at", "deleted"}  BY <1>2, <2>1 DEF Held
  <2>3. stripe.status = "canceled" \/ EndOfCycle(stripe, ending'.due)
    <3>1. CASE w.event.kind = "deleted"
      BY <1>1, <3>1 DEF EndInv, CanceledByStripe, Waits
    <3>2. CASE w.event.kind = "cancel_at"
      BY <1>1, <2>1, <3>2 DEF EndInv, EndPlanned, CancelDate
    <3> QED  BY <2>2, <3>1, <3>2
  <2> QED  BY <1>1, <2>1, <2>2, <2>3, EndKept DEF StaysEnded
<1>8. CASE SaveUsage(h) \/ UserSavesUsage(h)
  <2>1. PICK stage \in {"idle", "reread"} :
          /\ Persists(h, w.copy, stage) /\ w.stage = "save" /\ UNCHANGED <<stripe, sent, ending>>
          /\ w.event.kind \in {"usage", "user"} /\ (stage = "reread" => w.event.kind = "user")
    BY <1>8 DEF SaveUsage, UserSavesUsage, At
  <2>2. w.copy.status = sub.status  BY <1>2, <2>1 DEF Held, HeldStatus
  <2>3. \/ Ends(h) /\ UNCHANGED sub
        \/ Same(w.copy, sub') /\ (IF stage = "idle" THEN Ends(h) ELSE Goes(h, stage, sub'))
    BY <1>1, <2>1, CopyTurn
  <2>4. "reread" \in Stage /\ Leads(w, "reread")  BY DEF Stage, Leads
  <2>5. sub'.status = sub.status  BY <2>2, <2>3 DEF Same
  <2>6. Ends(h) \/ \E st \in Stage, copy \in Doc : Goes(h, st, copy) /\ Leads(w, st)
    BY <1>1, <2>1, <2>3, <2>4
  <2> QED  BY <1>3, <2>1, <2>5, <2>6
<1>9. CASE Terminate(h)
  <2> DEFINE d == [w.copy EXCEPT !.status = "Canceled"]
  <2>1. d \in Doc  BY <1>1 DEF Doc, Status
  <2>2. Goes(h, "cancel", d) /\ UNCHANGED <<stripe, sent, ending, sub>> /\ w.stage = "terminate"
    BY <1>9 DEF Terminate, At
  <2>3. "cancel" \in Stage /\ Leads(w, "cancel")  BY <2>2 DEF Stage, Leads
  <2> HIDE DEF d
  <2> QED  BY <1>3, <2>1, <2>2, <2>3
<1>10. CASE SaveCanceled(h)
  <2>1. Persists(h, w.copy, "idle") /\ w.stage = "cancel" /\ UNCHANGED <<stripe, sent>>
    BY <1>10 DEF SaveCanceled
  <2>2. w.copy.status = "Canceled" /\ w.event.kind \in {"end", "user"}
    BY <1>2, <2>1 DEF Held, HeldStatus
  <2>3. stripe.status = "canceled"  BY <2>1 DEF EndInv, CanceledByStripe
  <2>4. Ends(h) /\ sub'.status \in {sub.status, "Canceled"}
    BY <1>1, <2>1, <2>2, CopyTurn DEF Same
  <2>5. EndInv'
    <3>1. ASSUME ending' = ending PROVE EndInv'
      BY <1>1, <2>1, <2>2, <2>3, <2>4, <3>1, EndKept
    <3>2. ASSUME ending'.state = "done" PROVE EndInv'
      BY <1>1, <2>1, <2>2, <2>3, <2>4, <3>2, EndKept
    <3> QED  BY <1>10, <3>1, <3>2 DEF SaveCanceled, IInv, TypeOK, Task
  <2> QED  BY <2>4, <2>5 DEF StaysEnded, Ended
<1>11. CASE UserPends(h)
  <2>1. /\ Persists(h, w.copy, "stop") /\ w.stage = "pend" /\ w.event.kind = "user"
        /\ UNCHANGED <<stripe, sent, ending>>
    BY <1>11 DEF UserPends, At
  <2>2. w.copy.status = "PendingCancelation"  BY <1>2, <2>1 DEF Held, HeldStatus
  <2>3. \/ Ends(h) /\ UNCHANGED sub
        \/ Same(w.copy, sub') /\ Goes(h, "stop", sub')
    BY <1>1, <2>1, CopyTurn
  <2>4. "stop" \in Stage /\ Leads(w, "stop")  BY DEF Stage, Leads
  <2>5. sub'.status \in {sub.status, "PendingCancelation"}  BY <2>2, <2>3 DEF Same
  <2>6. Ends(h) \/ \E st \in Stage, copy \in Doc : Goes(h, st, copy) /\ Leads(w, st)
    BY <1>1, <2>3, <2>4
  <2>7. EndInv'  BY <1>1, <2>1, <2>5, <2>6, EndKept
  <2> QED  BY <2>5, <2>7 DEF StaysEnded, Ended
<1>12. CASE UserStops(h)  BY <1>12, EndStops
<1>13. CASE Throws(h)  BY <1>3, <1>13 DEF Throws
<1> QED
  BY <1>4, <1>5, <1>6, <1>7, <1>8, <1>9, <1>10, <1>11, <1>12, <1>13 DEF HandlerStep

LEMMA EndInit == Init => EndInv
<1> SUFFICES ASSUME Init PROVE EndInv  OBVIOUS
<1>1. \A h \in Handler : work[h].stage = "idle"  BY DEF Init, NoWork
<1>2. Waiting = {}  BY <1>1 DEF Init, Waiting, Idle
<1> QED
  BY <1>1, <1>2 DEF Init, EndInv, BeforePayment, ActivatedFirst, StatusInTime, StatusNotPending,
     CanceledByStripe, EndPlanned, UserAlone, NoPayments, Waits, At, NoTask

(* A subscription that is canceled, or scheduled to cancel, stays so, while *)
(* everything is handled promptly, no event is delivered twice, and no      *)
(* payment of a renewal fails or succeeds: the handlers of those events     *)
(* write a status whatever the subscription's is.                           *)
THEOREM EndedForGood ==
  ASSUME Prompt, MaxDups = 0, Kinds \cap {"failed", "succeeded"} = {}
  PROVE  Spec => CancelationStays
<1> DEFINE Inv == IInv /\ OneAtATime /\ EndInv
<1>1. Init => Inv  BY InitInv, OneAtATimeInit, EndInit
<1>2. ASSUME Inv, [Next]_vars PROVE Inv' /\ StaysEnded
  <2>1. IInv' /\ OneAtATime'  BY <1>2, InvStep, OneAtATimeStep
  <2>2. EndInv' /\ StaysEnded
    <3>1. CASE \/ StripePays \/ StripeFails \/ StripeRecovers \/ StripeCancels
               \/ StripeCancelsLater \/ TimePasses
      <4>1. UNCHANGED sub
        BY <3>1 DEF StripePays, StripeFails, StripeRecovers, StripeCancels, StripeCancelsLater,
           TimePasses, StripeMoves
      <4> QED  BY <1>2, <3>1, <4>1, EndStripe DEF StaysEnded
    <3>2. CASE \E h \in Handler : \/ \E e \in sent : Webhook(h, e)
                                  \/ \E kind \in {"usage", "end"} : Job(h, kind)
                                  \/ UserCancels(h)
      BY <1>2, <3>2, EndBegins DEF StaysEnded
    <3>3. CASE \E h \in Handler : HandlerStep(h) \/ Throws(h)  BY <1>2, <3>3, EndHandler
    <3>4. CASE UNCHANGED vars
      <4>1. Waiting' = Waiting  BY <3>4 DEF vars, Waiting, Idle
      <4>2. BeforePayment' /\ ActivatedFirst' /\ StatusInTime' /\ UserAlone' /\ NoPayments'
        BY <1>2, <3>4, <4>1 DEF vars, EndInv, BeforePayment, ActivatedFirst, StatusInTime,
           UserAlone, NoPayments, Waits
      <4>3. StatusNotPending' /\ CanceledByStripe'
        BY <1>2, <3>4, <4>1 DEF vars, EndInv, StatusNotPending, CanceledByStripe, Waits, At
      <4>4. EndPlanned'
        BY <1>2, <3>4, <4>1 DEF vars, EndInv, EndPlanned, EndOfCycle, CycleEnd, StripeCycle
      <4> QED  BY <3>4, <4>2, <4>3, <4>4 DEF vars, EndInv, StaysEnded
    <3> QED  BY <1>2, <3>1, <3>2, <3>3, <3>4 DEF Next
  <2> QED  BY <2>1, <2>2
<1>3. Inv /\ [Next]_vars => Inv'  BY <1>2
<1>4. Inv /\ [Next]_vars => [sub.status \in Ended => sub'.status \in Ended]_vars
  BY <1>2 DEF StaysEnded
<1> QED  BY <1>1, <1>3, <1>4, PTL DEF Spec, CancelationStays

-----------------------------------------------------------------------------
(* Renewal, of a subscription that nobody cancels: nothing else is waiting, *)
(* an activation is one, *)
Renewing == {"activate", "period", "status", "failed", "succeeded", "usage"}
StatusKinds == {"activate", "status", "failed", "succeeded"}

NotEnding ==
  /\ stripe.status # "canceled" /\ ~stripe.cancelAt /\ ending.state = "none"
  /\ \A e \in Waiting : e.kind \in Renewing
  /\ \A e \in sent : e.kind # "usage"

(* and what is about the status is about the one Stripe has.                *)
EventsOfStatus ==
  \A e \in Waiting :
    /\ e.kind = "activate" => e = Ev("activate") /\ stripe.status = "active"
    /\ e.kind = "status" => e.status = stripe.status
    /\ e.kind = "failed" => stripe.status \in {"past_due", "unpaid"}
    /\ e.kind = "succeeded" => stripe.status = "active"

(* No time passes before the first payment is handled, nothing is billed,   *)
Unstarted ==
  stripe.status = "incomplete" \/ Waits({"activate"}) =>
    /\ clock = 0 /\ sub.status = "Incomplete" /\ ~sub.linked
    /\ \A n \in Tick : billed[n] = 0
    /\ ~Waits({"period", "failed", "succeeded", "usage"})

(* and the task is put on the queue for the end of the first period.        *)
FirstTask ==
  Waits({"activate"}) =>
    /\ task.state = "none" \/ (task.state = "queued" /\ ~task.once /\ task.due = MeteredEnd(1))
    /\ \A h \in Handler : At(h, "save", {"activate"}) => task.state = "queued"

(* From then on the task is there, due at the end of this metered period    *)
(* or, when that is over and reported, of the next.                         *)
Started == stripe.status # "incomplete" /\ ~Waits({"activate"})

Scheduled ==
  Started =>
    /\ sub.linked /\ sub.status \in {"Active", "PastDue", "Unpaid"}
    /\ task.state = "queued" /\ ~task.once
    /\ \/ task.due = MeteredEnd(StripeCycle)
       \/ task.due = MeteredEnd(StripeCycle) + 2 /\ clock = MeteredEnd(StripeCycle)

(* What is billed is all there is up to the last period reported: the one   *)
(* before that for which the task is due, or that one while its job runs.   *)
ReportedTo == IF \E h \in Handler : At(h, "save", {"usage"}) THEN task.due ELSE task.due - 2

BilledTo ==
  Started => \A n \in Tick : billed[n] = IF n <= ReportedTo THEN 1 ELSE 0

UsageDue ==
  \A h \in Handler : ~Idle(h) /\ work[h].event.kind = "usage" => Due(task) /\ work[h].tcopy = task

(* The period is that of Stripe's cycle, or the one before while the event  *)
(* of a new cycle is on its way.                                            *)
Metered(c) == [from |-> MeteredStart(c), to |-> MeteredEnd(c)]

Window ==
  \/ ~Waits({"period"}) /\ sub.period = Metered(StripeCycle)
  \/ /\ StripeCycle > 1 /\ clock = CycleEnd(StripeCycle - 1)
     /\ Waits({"period"}) /\ sub.period = Metered(StripeCycle - 1)
     /\ \A e \in Waiting : e.kind = "period" => e = PeriodEv(StripeCycle)

StatusMirrored == ~Waits(StatusKinds) => sub.status \in Mirrors(stripe.status)

RenewInv ==
  /\ BeforePayment /\ Apart /\ NotEnding /\ EventsOfStatus /\ Unstarted /\ FirstTask
  /\ Scheduled /\ BilledTo /\ UsageDue /\ Window /\ StatusMirrored

LEMMA CycleOfClock ==
  ASSUME TypeOK
  PROVE  /\ StripeCycle \in Nat /\ StripeCycle >= 1
         /\ clock = 2 * StripeCycle - 2 \/ clock = 2 * StripeCycle - 1
<1>1. PICK n \in Nat : n = clock  BY DEF TypeOK
<1>2. PICK c : c = n \div 2 + 1  OBVIOUS
<1>3. c \in Nat /\ c >= 1 /\ (n = 2 * c - 2 \/ n = 2 * c - 1)  BY <1>2
<1> QED  BY <1>1, <1>2, <1>3 DEF StripeCycle

LEMMA CycleOfNext ==
  ASSUME TypeOK, clock' = clock + 1
  PROVE  \/ clock = 2 * StripeCycle - 2 /\ clock' % 2 = 1 /\ StripeCycle' = StripeCycle
         \/ /\ clock = 2 * StripeCycle - 1 /\ clock' % 2 = 0
            /\ StripeCycle' = StripeCycle + 1 /\ clock' \div 2 + 1 = StripeCycle + 1
<1>1. PICK n \in Nat : n = clock  BY DEF TypeOK
<1>2. PICK c : c = n \div 2 + 1  OBVIOUS
<1>3. PICK d : d = (n + 1) \div 2 + 1  OBVIOUS
<1>4. \/ n = 2 * c - 2 /\ (n + 1) % 2 = 1 /\ d = c
      \/ n = 2 * c - 1 /\ (n + 1) % 2 = 0 /\ d = c + 1
  BY <1>2, <1>3
<1> QED  BY <1>1, <1>2, <1>3, <1>4 DEF StripeCycle

LEMMA WaitsFor ==
  ASSUME NEW kinds
  PROVE  Waits(kinds)' <=> \E e \in Waiting' : e.kind \in kinds
  BY DEF Waits

(* Stripe and the clock move when everything is handled. *)
LEMMA AllHandled ==
  ASSUME Quiet, UNCHANGED work
  PROVE  /\ Waiting = {} /\ Waiting' = sent' /\ \A kinds : ~Waits(kinds)
         /\ \A h \in Handler : work[h].stage = "idle" /\ work'[h].stage = "idle"
  BY DEF Quiet, Idle, Waiting, Waits

LEMMA RenewPays ==
  ASSUME Prompt, Kinds = Renewing, IInv, RenewInv, StripePays
  PROVE  RenewInv'
<1>1. /\ Quiet /\ UNCHANGED <<clock, sub, task, ending, billed, work>>
      /\ stripe.status = "incomplete" /\ stripe'.status = "active"
      /\ stripe'.cancelAt = stripe.cancelAt
  BY DEF StripePays, StripeMoves, IInv, TypeOK
<1>2. sent' = {Ev("activate"), StatusEv("active")}
  BY <1>1 DEF StripePays, StripeMoves, Emits, Renewing, Ev, StatusEv, Quiet
<1>3. /\ Waiting = {} /\ Waiting' = {Ev("activate"), StatusEv("active")}
      /\ \A h \in Handler : work'[h].stage = "idle"
  BY <1>1, <1>2, AllHandled
<1>4. /\ Ev("activate").kind = "activate" /\ StatusEv("active").kind = "status"
      /\ StatusEv("active").status = "active"
  BY DEF Ev, StatusEv
<1>5. /\ Waits({"activate"})' /\ Waits(StatusKinds)' /\ ~Waits({"period"})'
      /\ ~Waits({"period", "failed", "succeeded", "usage"})'
  BY <1>3, <1>4, WaitsFor DEF StatusKinds
<1>6. /\ clock = 0 /\ sub.status = "Incomplete" /\ ~sub.linked /\ task.state = "none"
      /\ \A n \in Tick : billed[n] = 0
  BY <1>1 DEF RenewInv, Unstarted, BeforePayment
<1>7. sub.period = Metered(StripeCycle)
  BY <1>3 DEF RenewInv, Window, Waits
<1>8. BeforePayment' /\ Apart' /\ UsageDue' /\ FirstTask'
  BY <1>1, <1>3, <1>6 DEF BeforePayment, Apart, UsageDue, FirstTask, Idle, At
<1>9. NotEnding' /\ EventsOfStatus'
  BY <1>1, <1>2, <1>3, <1>4 DEF RenewInv, NotEnding, EventsOfStatus, Renewing
<1>10. Unstarted'  BY <1>1, <1>5, <1>6 DEF Unstarted
<1>11. Scheduled' /\ BilledTo' /\ StatusMirrored'
  BY <1>5 DEF Scheduled, BilledTo, StatusMirrored, Started
<1>12. Window'
  <2>1. sub'.period = Metered(StripeCycle)'
    BY <1>1, <1>7 DEF Metered, StripeCycle
  <2> QED  BY <1>5, <2>1 DEF Window
<1> QED  BY <1>8, <1>9, <1>10, <1>11, <1>12 DEF RenewInv

LEMMA RenewCharges ==
  ASSUME Prompt, Kinds = Renewing, IInv, RenewInv, StripeFails \/ StripeRecovers
  PROVE  RenewInv'
<1>1. /\ Quiet /\ UNCHANGED <<clock, sub, task, ending, billed, work>>
      /\ stripe'.cancelAt = stripe.cancelAt
  BY DEF StripeFails, StripeRecovers, StripeMoves, IInv, TypeOK
<1>2. stripe.status \in {"active", "past_due", "unpaid"}
  BY DEF StripeFails, StripeRecovers, StripeMoves
<1>3. PICK k \in {"failed", "succeeded"}, s \in {"active", "past_due", "unpaid"} :
        /\ stripe'.status = s /\ sent' = {Ev(k), StatusEv(s)}
        /\ k = "failed" => s \in {"past_due", "unpaid"}
        /\ k = "succeeded" => s = "active"
  BY <1>1 DEF StripeFails, StripeRecovers, StripeMoves, Emits, Renewing, Ev, StatusEv, Quiet,
     IInv, TypeOK
<1>4. /\ Waiting = {} /\ Waiting' = {Ev(k), StatusEv(s)} /\ \A kinds : ~Waits(kinds)
      /\ \A h \in Handler : work[h].stage = "idle" /\ work'[h].stage = "idle"
  BY <1>1, <1>3, AllHandled
<1>5. Ev(k).kind = k /\ StatusEv(s).kind = "status" /\ StatusEv(s).status = s
  BY DEF Ev, StatusEv
<1>6. ~Waits({"activate"})' /\ Waits(StatusKinds)' /\ ~Waits({"period"})'
  BY <1>4, <1>5, WaitsFor DEF StatusKinds
<1>7. Started /\ Started'  BY <1>2, <1>3, <1>4, <1>6 DEF Started
<1>8. sub.period = Metered(StripeCycle)  BY <1>4 DEF RenewInv, Window
<1>9. BeforePayment' /\ Apart' /\ UsageDue' /\ FirstTask' /\ Unstarted' /\ StatusMirrored'
  BY <1>3, <1>4, <1>6
     DEF BeforePayment, Apart, UsageDue, FirstTask, Unstarted, StatusMirrored, Idle, At
<1>10. NotEnding' /\ EventsOfStatus'
  BY <1>1, <1>3, <1>4, <1>5 DEF RenewInv, NotEnding, EventsOfStatus, Renewing
<1>11. Scheduled'
  BY <1>1, <1>7 DEF RenewInv, Scheduled, MeteredEnd, StripeCycle
<1>12. BilledTo'
  BY <1>1, <1>4, <1>7 DEF RenewInv, BilledTo, ReportedTo, At
<1>13. Window'
  <2>1. sub'.period = Metered(StripeCycle)'
    BY <1>1, <1>8 DEF Metered, StripeCycle
  <2> QED  BY <1>6, <2>1 DEF Window
<1> QED  BY <1>9, <1>10, <1>11, <1>12, <1>13 DEF RenewInv

LEMMA RenewTime ==
  ASSUME Prompt, Kinds = Renewing, IInv, RenewInv, TimePasses
  PROVE  RenewInv'
<1>1. /\ Quiet /\ UNCHANGED <<sub, task, ending, billed, work>> /\ clock' = clock + 1
      /\ stripe.status # "incomplete" /\ ~Due(task) /\ clock \in Nat /\ task.due \in Nat
  BY DEF TimePasses, IInv, TypeOK, Task
<1>2. /\ Waiting = {} /\ Waiting' = sent' /\ \A kinds : ~Waits(kinds)
      /\ \A h \in Handler : work[h].stage = "idle" /\ work'[h].stage = "idle"
  BY <1>1, AllHandled
<1>3. PICK c \in Nat : c = StripeCycle /\ c >= 1 /\ (clock = 2 * c - 2 \/ clock = 2 * c - 1)
  BY CycleOfClock DEF IInv
<1>4. Started  BY <1>1, <1>2 DEF Started
<1>5. /\ sub.linked /\ sub.status \in {"Active", "PastDue", "Unpaid"}
      /\ task.state = "queued" /\ ~task.once
      /\ \/ task.due = 2 * c - 1
         \/ task.due = 2 * c + 1 /\ clock = 2 * c - 1
  BY <1>3, <1>4 DEF RenewInv, Scheduled, MeteredEnd
<1>6. sub.period = Metered(c)  BY <1>2, <1>3 DEF RenewInv, Window
<1>7. stripe.status # "canceled" /\ ~stripe.cancelAt  BY DEF RenewInv, NotEnding
<1>8. /\ UNCHANGED stripe
      /\ IF clock' % 2 = 1 THEN sent' = {} ELSE sent' = {PeriodEv(clock' \div 2 + 1)}
  BY <1>1, <1>7 DEF TimePasses, Emits, PeriodEv, Ev, Renewing, Quiet
<1>9. \A n : PeriodEv(n).kind = "period"  BY DEF PeriodEv, Ev
<1>10. /\ \A e \in Waiting' : e.kind = "period"
       /\ ~Waits({"activate"})' /\ ~Waits(StatusKinds)'
  BY <1>2, <1>8, <1>9, WaitsFor DEF StatusKinds
<1>11. Started'  BY <1>1, <1>8, <1>10 DEF Started
<1>12. BeforePayment' /\ Apart' /\ UsageDue' /\ FirstTask' /\ Unstarted'
  BY <1>1, <1>2, <1>8, <1>10 DEF BeforePayment, Apart, UsageDue, FirstTask, Unstarted, Idle, At
<1>13. NotEnding' /\ EventsOfStatus'
  BY <1>1, <1>2, <1>8, <1>10 DEF RenewInv, NotEnding, EventsOfStatus, Renewing
<1>14. StatusMirrored'
  BY <1>1, <1>2, <1>8, <1>10 DEF RenewInv, StatusMirrored, Mirrors
<1>15. BilledTo'
  BY <1>1, <1>2, <1>4 DEF RenewInv, BilledTo, ReportedTo, At
<1>16. Scheduled' /\ Window'
  <2>1. CASE clock = 2 * c - 2 /\ clock' % 2 = 1 /\ StripeCycle' = StripeCycle
    <3>1. task.due = 2 * c - 1  BY <1>3, <1>5, <2>1
    <3>2. Scheduled'  BY <1>1, <1>3, <1>5, <2>1, <3>1 DEF Scheduled, MeteredEnd
    <3>3. ~Waits({"period"})'  BY <1>2, <1>8, <2>1, WaitsFor
    <3>4. Window'  BY <1>1, <1>3, <1>6, <2>1, <3>3 DEF Window, Metered
    <3> QED  BY <3>2, <3>4
  <2>2. CASE /\ clock = 2 * c - 1 /\ clock' % 2 = 0
             /\ StripeCycle' = StripeCycle + 1 /\ clock' \div 2 + 1 = StripeCycle + 1
    <3>1. task.due = 2 * c + 1
      BY <1>1, <1>3, <1>5, <2>2 DEF Due
    <3>2. Scheduled'  BY <1>1, <1>3, <1>5, <2>2, <3>1 DEF Scheduled, MeteredEnd
    <3>3. Waiting' = {PeriodEv(c + 1)}  BY <1>2, <1>3, <1>8, <2>2
    <3>4. Waits({"period"})'  BY <1>9, <3>3, WaitsFor
    <3>5. StripeCycle' = c + 1 /\ c + 1 > 1 /\ clock' = 2 * (c + 1 - 1) /\ c + 1 - 1 = c
      BY <1>1, <1>3, <2>2
    <3>6. sub'.period = Metered(StripeCycle' - 1)  BY <1>1, <1>6, <3>5
    <3>7. Window'
      BY <3>3, <3>4, <3>5, <3>6 DEF Window, CycleEnd, Metered
    <3> QED  BY <3>2, <3>7
  <2> QED  BY <1>1, <1>3, <2>1, <2>2, CycleOfNext DEF IInv
<1> QED  BY <1>12, <1>13, <1>14, <1>15, <1>16 DEF RenewInv

(* Work begins. *)
LEMMA RenewBegins ==
  ASSUME Prompt, Kinds = Renewing, MaxDups = 0, IInv, RenewInv, NEW h \in Handler,
         \/ \E e \in sent : Webhook(h, e)
         \/ \E kind \in {"usage", "end"} : Job(h, kind)
         \/ UserCancels(h)
  PROVE  RenewInv'
<1>1. PICK e \in Event :
        /\ Begins(h, e) /\ Timely(e)
        /\ \/ e \in sent /\ sent' = sent \ {e}
           \/ e = Ev("usage") /\ Due(task) /\ sent' = sent
  <2>1. ASSUME NEW e \in sent, Webhook(h, e)
        PROVE  e \in Event /\ Begins(h, e) /\ Timely(e) /\ sent' = sent \ {e}
    <3>1. ~(count.dups < MaxDups)  BY DEF IInv, TypeOK
    <3> QED  BY <2>1, <3>1 DEF Webhook, IInv, TypeOK
  <2>2. Ev("usage") \in Event /\ Timely(Ev("usage"))
    BY EventsTyped DEF Timely, Kind
  <2>3. ASSUME NEW kind \in {"usage", "end"}, Job(h, kind)
        PROVE  Begins(h, Ev("usage")) /\ sent' = sent /\ Due(task)
    BY <2>3 DEF Job, Renewing
  <2>4. ~UserCancels(h)  BY DEF UserCancels, Renewing
  <2> QED  BY <2>1, <2>2, <2>3, <2>4
<1>2. /\ UNCHANGED <<clock, stripe, sub, task, ending, billed>>
      /\ work'[h].stage = "read" /\ work'[h].event = e /\ work'[h].tcopy = task
      /\ (\A g \in Handler : Idle(g)) /\ \A g \in Handler : g # h => Idle(g)'
      /\ Waiting = sent /\ Waiting' = sent' \cup {e}
  BY <1>1, OneBegins DEF Begins
<1>3. \A g \in Handler : work[g].stage = "idle" /\ work'[g].stage \in {"read", "idle"}
  BY <1>2 DEF Idle
<1>4. Ev("usage").kind = "usage"  BY DEF Ev
<1>5. \A f \in Waiting' : f \in Waiting \/ (f.kind = "usage" /\ Due(task))
  BY <1>1, <1>2, <1>4
<1>6. Waiting \subseteq Waiting'  BY <1>1, <1>2
<1>7. \A kinds : "usage" \notin kinds => (Waits(kinds)' <=> Waits(kinds))
  BY <1>5, <1>6 DEF Waits
<1>8. "usage" \notin {"activate"} /\ "usage" \notin {"period"} /\ "usage" \notin StatusKinds
  BY DEF StatusKinds
<1>9. /\ Waits({"activate"})' <=> Waits({"activate"})
      /\ Waits({"period"})' <=> Waits({"period"})
      /\ Waits(StatusKinds)' <=> Waits(StatusKinds)
  BY <1>7, <1>8
<1>10. Started' <=> Started  BY <1>2, <1>9 DEF Started
<1>11. stripe.status = "incomplete" \/ Waits({"activate"}) => ~Due(task)
  <2>1. clock = 0 => ~(task.state = "queued" /\ task.due = MeteredEnd(1) /\ task.due <= clock)
    BY DEF MeteredEnd
  <2> QED  BY <2>1 DEF RenewInv, Unstarted, BeforePayment, FirstTask, Due
<1>12. BeforePayment'
  BY <1>2, <1>5, <1>11 DEF RenewInv, BeforePayment
<1>13. Apart'
  <2>1. e \notin sent'
    BY <1>1, <1>4 DEF RenewInv, NotEnding
  <2> QED  BY <1>2, <2>1 DEF Apart
<1>14. NotEnding'
  <2>1. \A f \in Waiting' : f.kind \in Renewing
    BY <1>5 DEF RenewInv, NotEnding, Renewing
  <2> QED  BY <1>1, <1>2, <2>1 DEF RenewInv, NotEnding
<1>15. EventsOfStatus'  BY <1>2, <1>5 DEF RenewInv, EventsOfStatus
<1>16. Unstarted'
  <2> SUFFICES ASSUME (stripe.status = "incomplete" \/ Waits({"activate"}))'
               PROVE  /\ clock' = 0 /\ sub'.status = "Incomplete" /\ ~sub'.linked
                      /\ \A n \in Tick : billed'[n] = 0
                      /\ ~Waits({"period", "failed", "succeeded", "usage"})'
    BY DEF Unstarted
  <2>1. stripe.status = "incomplete" \/ Waits({"activate"})  BY <1>2, <1>9
  <2>2. Waiting' = Waiting  BY <1>5, <1>6, <1>11, <2>1
  <2> QED  BY <1>2, <2>1, <2>2 DEF RenewInv, Unstarted, Waits
<1>17. FirstTask'  BY <1>2, <1>3, <1>9 DEF RenewInv, FirstTask, At
<1>18. Scheduled'
  BY <1>2, <1>10 DEF RenewInv, Scheduled, MeteredEnd, StripeCycle
<1>19. BilledTo'
  BY <1>2, <1>3, <1>10 DEF RenewInv, BilledTo, ReportedTo, At
<1>20. UsageDue'
  <2>1. e.kind = "usage" => Due(task)  BY <1>1 DEF RenewInv, NotEnding
  <2> QED  BY <1>2, <2>1 DEF UsageDue, Due
<1>21. Window'
  BY <1>2, <1>5, <1>9 DEF RenewInv, Window, Metered, StripeCycle, CycleEnd
<1>22. StatusMirrored'  BY <1>2, <1>9 DEF RenewInv, StatusMirrored, Mirrors
<1> QED
  BY <1>12, <1>13, <1>14, <1>15, <1>16, <1>17, <1>18, <1>19, <1>20, <1>21, <1>22 DEF RenewInv

(* The steps of a handler: it goes on with its event ... *)
LEMMA RenewGoes ==
  ASSUME IInv, OneAtATime, RenewInv, NEW h \in Handler, ~Idle(h), work[h].stage # "save",
         UNCHANGED <<clock, stripe, sent, sub, task, ending, billed>>,
         NEW stage \in Stage, NEW copy \in Doc, Goes(h, stage, copy),
         work[h].event.kind \in {"activate", "usage"} => stage # "save"
  PROVE  RenewInv'
<1> DEFINE w == work[h]
<1>1. /\ work'[h].stage = stage /\ work'[h].event = w.event /\ work'[h].tcopy = w.tcopy
      /\ \A g \in Handler : g # h => Idle(g) /\ Idle(g)'
      /\ Waiting' = Waiting /\ ~Idle(h)'
  BY OneGoes, OnlyOne DEF OneAtATime
<1>2. \A g \in Handler, k \in {"activate", "usage"} : ~At(g, "save", {k}) /\ ~At(g, "save", {k})'
  BY <1>1 DEF At, Idle
<1>3. \A kinds : Waits(kinds)' <=> Waits(kinds)  BY <1>1 DEF Waits
<1>4. Started' <=> Started  BY <1>3 DEF Started
<1>5. BeforePayment'  BY <1>1 DEF RenewInv, BeforePayment
<1>6. Apart'  BY <1>1 DEF RenewInv, Apart
<1>7. NotEnding' /\ EventsOfStatus'  BY <1>1 DEF RenewInv, NotEnding, EventsOfStatus
<1>8. Unstarted'  BY <1>3 DEF RenewInv, Unstarted
<1>9. FirstTask'  BY <1>2, <1>3 DEF RenewInv, FirstTask
<1>10. Scheduled'  BY <1>4 DEF RenewInv, Scheduled, MeteredEnd, StripeCycle
<1>11. BilledTo'  BY <1>2, <1>4 DEF RenewInv, BilledTo, ReportedTo
<1>12. UsageDue'  BY <1>1 DEF RenewInv, UsageDue, Due
<1>13. Window'
  BY <1>1, <1>3 DEF RenewInv, Window, Metered, StripeCycle, CycleEnd
<1>14. StatusMirrored'  BY <1>3 DEF RenewInv, StatusMirrored, Mirrors
<1> QED
  BY <1>5, <1>6, <1>7, <1>8, <1>9, <1>10, <1>11, <1>12, <1>13, <1>14 DEF RenewInv

(* ... or is done with it, and has seen to what it says. *)
LEMMA RenewEnds ==
  ASSUME IInv, OneAtATime, RenewInv, NEW h \in Handler, ~Idle(h), Ends(h),
         UNCHANGED <<clock, stripe, sent, task, ending, billed>>,
         work[h].event.kind \in {"period", "status", "failed", "succeeded"},
         ~Started => UNCHANGED sub,
         sub'.linked = sub.linked,
         Started => sub'.status \in {"Active", "PastDue", "Unpaid"},
         IF work[h].event.kind = "period"
           THEN sub'.period = Metered(StripeCycle) /\ sub'.status = sub.status
           ELSE sub'.period = sub.period /\ (Started => sub'.status \in Mirrors(stripe.status))
  PROVE  RenewInv'
<1> DEFINE w == work[h]
<1>1. /\ \A g \in Handler : work'[g].stage = "idle"
      /\ \A g \in Handler : g # h => work[g].stage = "idle"
      /\ Waiting = sent \cup {w.event} /\ Waiting' = sent /\ w.event \in Waiting
      /\ w.event \notin sent
  <2>1. (\A g \in Handler : Idle(g)') /\ Waiting' = sent' /\ Waiting = sent \cup {w.event}
        /\ \A g \in Handler : g # h => Idle(g)
    BY OneEnds, OnlyOne DEF OneAtATime
  <2> QED  BY <2>1 DEF RenewInv, Apart, Idle
<1>2. stripe.status # "incomplete"  BY <1>1 DEF RenewInv, BeforePayment
<1>3. \A kinds : Waits(kinds)' => Waits(kinds)  BY <1>1 DEF Waits
<1>4. Waits({"activate"})' <=> Waits({"activate"})  BY <1>1 DEF Waits
<1>5. Started' <=> Started  BY <1>4 DEF Started
<1>6. BeforePayment' /\ Apart' /\ UsageDue'
  BY <1>1, <1>2 DEF BeforePayment, Apart, UsageDue, Idle
<1>7. NotEnding' /\ EventsOfStatus'  BY <1>1 DEF RenewInv, NotEnding, EventsOfStatus
<1>8. Unstarted'
  <2>1. (stripe.status = "incomplete" \/ Waits({"activate"}))' => ~Started
    BY <1>4 DEF Started
  <2> QED  BY <1>3, <1>4, <2>1 DEF RenewInv, Unstarted
<1>9. FirstTask'  BY <1>1, <1>4 DEF RenewInv, FirstTask, At
<1>10. Scheduled'  BY <1>5 DEF RenewInv, Scheduled, MeteredEnd, StripeCycle
<1>11. BilledTo'
  <2>1. \A g \in Handler : ~At(g, "save", {"usage"}) /\ ~At(g, "save", {"usage"})'
    BY <1>1 DEF At
  <2> QED  BY <1>5, <2>1 DEF RenewInv, BilledTo, ReportedTo
<1>12. Window'
  <2>0. Metered(StripeCycle)' = Metered(StripeCycle) /\ UNCHANGED StripeCycle
    BY DEF Metered, StripeCycle
  <2>1. CASE w.event.kind = "period"
    <3>1. \A e \in Waiting : e.kind = "period" => e = w.event
      BY <1>1, <2>1 DEF RenewInv, Window, Waits
    <3>2. ~Waits({"period"})'  BY <1>1, <3>1 DEF Waits
    <3> QED  BY <2>0, <2>1, <3>2 DEF Window
  <2>2. CASE w.event.kind # "period"
    <3>1. Waits({"period"})' <=> Waits({"period"})  BY <1>1, <2>2 DEF Waits
    <3> QED
      BY <1>1, <2>2, <3>1 DEF RenewInv, Window, Metered, StripeCycle, CycleEnd
  <2> QED  BY <2>1, <2>2
<1>13. StatusMirrored'
  <2>1. CASE w.event.kind = "period"
    <3>1. Waits(StatusKinds)' <=> Waits(StatusKinds)
      BY <1>1, <2>1 DEF Waits, StatusKinds
    <3> QED  BY <2>1, <3>1 DEF RenewInv, StatusMirrored, Mirrors
  <2>2. CASE w.event.kind # "period" /\ Started
    BY <2>2 DEF StatusMirrored, Mirrors
  <2>3. CASE ~Started
    <3>1. Waits(StatusKinds)'  BY <1>2, <1>4, <2>3 DEF Started, Waits, StatusKinds
    <3> QED  BY <3>1 DEF StatusMirrored
  <2> QED  BY <2>1, <2>2, <2>3
<1> QED
  BY <1>6, <1>7, <1>8, <1>9, <1>10, <1>11, <1>12, <1>13 DEF RenewInv

(* What is at work, while nobody cancels. *)
LEMMA RenewWork ==
  ASSUME IInv, OneAtATime, RenewInv, NEW h \in Handler, ~Idle(h)
  PROVE  /\ work[h] \in Work /\ work[h].copy \in Doc /\ Timely(work[h].event)
         /\ work[h].event \in Waiting /\ work[h].event.kind \in Renewing
         /\ Waiting = sent \cup {work[h].event} /\ work[h].event \notin sent
         /\ work[h].stage # "read" => Held(work[h], sub)
         /\ \A g \in Handler : g # h => Idle(g)
         /\ stripe.status \in {"active", "past_due", "unpaid"}
<1>1. work[h] \in Work /\ work[h].copy \in Doc /\ Timely(work[h].event)
  BY Busy, WorkFields DEF IInv
<1>2. work[h].event \in Waiting  BY DEF Waiting
<1>3. stripe.status # "incomplete"  BY <1>2 DEF RenewInv, BeforePayment
<1>4. stripe.status \in StripeStatus /\ stripe.status # "canceled"
  BY DEF RenewInv, NotEnding, IInv, TypeOK
<1>5. work[h].stage # "read" => Held(work[h], sub)  BY DEF OneAtATime, CopiesHeld
<1> QED
  BY <1>1, <1>2, <1>3, <1>4, <1>5, OnlyOne
     DEF RenewInv, NotEnding, Apart, OneAtATime, StripeStatus

LEMMA RenewStarted ==
  ASSUME IInv, OneAtATime, RenewInv, NEW h \in Handler, ~Idle(h)
  PROVE  /\ work[h].event.kind \in {"period", "failed", "succeeded", "usage"} => Started
         /\ ~Started => Waits({"activate"}) /\ stripe.status = "active"
         /\ Started => sub.linked /\ sub.status \in {"Active", "PastDue", "Unpaid"}
<1>1. work[h].event \in Waiting /\ stripe.status # "incomplete"  BY RenewWork
<1>2. work[h].event.kind \in {"period", "failed", "succeeded", "usage"} => Started
  BY <1>1 DEF RenewInv, Unstarted, Started, Waits
<1>3. ~Started => Waits({"activate"})  BY <1>1 DEF Started
<1>4. Waits({"activate"}) => stripe.status = "active"
  BY DEF RenewInv, EventsOfStatus, Waits
<1>5. Started => sub.linked /\ sub.status \in {"Active", "PastDue", "Unpaid"}
  BY DEF RenewInv, Scheduled
<1> QED  BY <1>2, <1>3, <1>4, <1>5

LEMMA RenewRead ==
  ASSUME IInv, OneAtATime, RenewInv, NEW h \in Handler, Read(h)
  PROVE  RenewInv'
<1> DEFINE w == work[h]
<1>1. ~Idle(h) /\ w.stage = "read"
      /\ UNCHANGED <<clock, stripe, sent, sub, task, ending, billed>>
  BY DEF Read, Idle
<1>2. w.event.kind \in Renewing /\ w.event \in Waiting /\ sub \in Doc
      /\ stripe.status \in {"active", "past_due", "unpaid"}
  BY <1>1, RenewWork DEF IInv, TypeOK
<1>3. CASE Goes(h, NextStage(w.event.kind), sub)
  <2>1. /\ NextStage(w.event.kind) \in Stage
        /\ w.event.kind \in {"activate", "usage"} => NextStage(w.event.kind) # "save"
    BY DEF NextStage, Stage
  <2> QED  BY <1>1, <1>2, <1>3, <2>1, RenewGoes
<1>4. CASE Ends(h) /\ ~Proceeds(w.event, sub)
  <2>1. w.event.kind \in {"status", "failed"}
    BY <1>2, <1>4 DEF Proceeds, Renewing
  <2>2. w.event.kind = "status" => w.event.status = stripe.status
    BY <1>2 DEF RenewInv, EventsOfStatus
  <2>3. w.event.kind = "failed" => stripe.status \in {"past_due", "unpaid"}
    BY <1>2 DEF RenewInv, EventsOfStatus
  <2>4. Started => sub.status \in {"Active", "PastDue", "Unpaid"}
    BY <1>1, RenewStarted
  <2>5. Started => sub.status \in Mirrors(stripe.status)
    <3>1. CASE w.event.kind = "status"
      BY <1>2, <1>4, <2>2, <2>4, <3>1 DEF Proceeds, Mapped, Mirrors
    <3>2. CASE w.event.kind = "failed"
      BY <1>4, <2>3, <3>2 DEF Proceeds, Mirrors
    <3> QED  BY <2>1, <3>1, <3>2
  <2> QED  BY <1>1, <1>4, <2>1, <2>4, <2>5, RenewEnds
<1> QED  BY <1>3, <1>4 DEF Read

(* The activation puts the task on the queue, then saves the subscription.  *)
LEMMA RenewSchedule ==
  ASSUME IInv, OneAtATime, RenewInv, NEW h \in Handler, Schedule(h)
  PROVE  RenewInv'
<1> DEFINE w == work[h]
           d == [w.copy EXCEPT !.linked = TRUE]
<1>1. ~Idle(h) /\ w.stage = "schedule" /\ w.event.kind = "activate"
      /\ UNCHANGED <<clock, stripe, sent, sub, ending, billed>> /\ Goes(h, "save", d)
      /\ task' = [state |-> "queued", once |-> FALSE, due |-> w.copy.period.to]
  BY DEF Schedule, At, Idle
<1>2. w.copy \in Doc /\ w.event \in Waiting /\ w.copy.period = sub.period
      /\ \A g \in Handler : g # h => Idle(g)
  BY <1>1, RenewWork DEF Held
<1>3. d \in Doc /\ "save" \in Stage  BY <1>2, DocUpdates DEF Stage
<1> HIDE DEF d
<1>4. /\ work'[h].stage = "save" /\ work'[h].event = w.event
      /\ \A g \in Handler : g # h => Idle(g)'
      /\ Waiting' = Waiting
  BY <1>1, <1>2, <1>3, OneGoes, OnlyOne DEF OneAtATime
<1>5. Waits({"activate"})  BY <1>1, <1>2 DEF Waits
<1>6. \A kinds : Waits(kinds)' <=> Waits(kinds)  BY <1>4 DEF Waits
<1>7. ~Started /\ ~Started'  BY <1>5, <1>6 DEF Started
<1>8. task'.due = MeteredEnd(1)
  <2>1. clock = 0 /\ ~Waits({"period"})  BY <1>5 DEF RenewInv, Unstarted, Waits
  <2>2. StripeCycle = 1  BY <2>1 DEF StripeCycle
  <2>3. sub.period = Metered(1)  BY <2>1, <2>2 DEF RenewInv, Window
  <2> QED  BY <1>1, <1>2, <2>3 DEF Metered
<1>9. BeforePayment'  BY <1>1, RenewWork DEF BeforePayment
<1>10. Apart'  BY <1>1, <1>2, <1>4 DEF RenewInv, Apart
<1>11. NotEnding' /\ EventsOfStatus'
  BY <1>1, <1>4 DEF RenewInv, NotEnding, EventsOfStatus
<1>12. Unstarted'  BY <1>1, <1>6 DEF RenewInv, Unstarted
<1>13. FirstTask'  BY <1>1, <1>8 DEF FirstTask, MeteredEnd
<1>14. Scheduled' /\ BilledTo'  BY <1>7 DEF Scheduled, BilledTo
<1>15. UsageDue'  BY <1>1, <1>4 DEF UsageDue
<1>16. Window'
  BY <1>1, <1>4, <1>6 DEF RenewInv, Window, Metered, StripeCycle, CycleEnd
<1>17. StatusMirrored'  BY <1>1, <1>6 DEF RenewInv, StatusMirrored, Mirrors
<1> QED
  BY <1>9, <1>10, <1>11, <1>12, <1>13, <1>14, <1>15, <1>16, <1>17 DEF RenewInv

LEMMA RenewActivates ==
  ASSUME MaxFaults = 0, IInv, OneAtATime, RenewInv, NEW h \in Handler, NEW answered \in BOOLEAN,
         Save(h, answered), work[h].event.kind = "activate"
  PROVE  RenewInv'
<1> DEFINE w == work[h]
           new == Changed(w, answered)
<1>1. /\ ~Idle(h) /\ w.stage = "save"
      /\ UNCHANGED <<clock, stripe, sent, task, ending, billed>>
  BY DEF Save, At, Idle
<1>2. /\ w \in Work /\ w.event \in Waiting /\ Held(w, sub) /\ Timely(w.event)
      /\ Waiting = sent \cup {w.event} /\ w.event \notin sent /\ TypeOK
  BY <1>1, RenewWork DEF IInv
<1>3. new.status = "Active" /\ new.linked = TRUE /\ new.period = sub.period
  BY <1>1, <1>2, ChangedHeld DEF Held, HeldStatus, HeldLinked
<1>4. Valid(new)  BY <1>3 DEF Valid
<1>5. Ends(h) /\ sub'.status = "Active" /\ sub'.linked /\ sub'.period = sub.period
  BY <1>3, <1>4, SaveTurn
<1>6. (\A g \in Handler : work'[g].stage = "idle") /\ Waiting' = sent
  BY <1>1, <1>5, OneEnds DEF OneAtATime, Idle
<1>7. Waits({"activate"})  BY <1>2 DEF Waits
<1>8. ~Waits({"activate"})'
  <2>1. \A e \in Waiting : e.kind = "activate" => e = w.event
    BY <1>2 DEF RenewInv, EventsOfStatus
  <2> QED  BY <1>2, <1>6, <2>1 DEF Waits
<1>9. stripe.status = "active"
  BY <1>2 DEF RenewInv, EventsOfStatus
<1>10. /\ clock = 0 /\ StripeCycle = 1 /\ ~Waits({"period"})
       /\ \A n \in Tick : billed[n] = 0
  BY <1>7 DEF RenewInv, Unstarted, StripeCycle, Waits
<1>11. task.state = "queued" /\ ~task.once /\ task.due = 1
  BY <1>1, <1>7 DEF RenewInv, FirstTask, At, MeteredEnd
<1>12. BeforePayment' /\ Apart' /\ UsageDue' /\ Unstarted' /\ FirstTask'
  BY <1>1, <1>6, <1>8, <1>9
     DEF BeforePayment, Apart, UsageDue, Unstarted, FirstTask, Idle
<1>13. NotEnding' /\ EventsOfStatus'
  BY <1>1, <1>2, <1>6 DEF RenewInv, NotEnding, EventsOfStatus
<1>14. Scheduled'
  BY <1>1, <1>5, <1>10, <1>11 DEF Scheduled, MeteredEnd, StripeCycle
<1>15. BilledTo'
  <2>1. ReportedTo' = -1  BY <1>1, <1>6, <1>11 DEF ReportedTo, At
  <2>2. \A n \in Tick : ~(n <= -1)  BY DEF Tick, SubscriptionAssumption
  <2> QED  BY <1>1, <1>10, <2>1, <2>2 DEF BilledTo
<1>16. Window'
  <2>1. ~Waits({"period"})'  BY <1>2, <1>6, <1>10 DEF Waits
  <2> QED  BY <1>1, <1>5, <1>10, <2>1 DEF RenewInv, Window, Metered, StripeCycle
<1>17. StatusMirrored'  BY <1>1, <1>5, <1>9 DEF StatusMirrored, Mirrors
<1> QED  BY <1>12, <1>13, <1>14, <1>15, <1>16, <1>17 DEF RenewInv

(* The saves of the other webhooks. *)
LEMMA RenewSave ==
  ASSUME MaxFaults = 0, IInv, OneAtATime, RenewInv, NEW h \in Handler, NEW answered \in BOOLEAN,
         Save(h, answered), work[h].event.kind # "activate"
  PROVE  RenewInv'
<1> DEFINE w == work[h]
           new == Changed(w, answered)
<1>0. answered  BY DEF Save, IInv, TypeOK
<1>1. /\ ~Idle(h) /\ w.stage = "save" /\ w.event.kind \in WebhookKinds
      /\ UNCHANGED <<clock, stripe, sent, task, ending, billed>>
  BY DEF Save, At, Idle
<1>2. /\ w \in Work /\ w.event \in Waiting /\ Held(w, sub) /\ Timely(w.event) /\ TypeOK
      /\ w.event.kind \in Renewing /\ stripe.status \in {"active", "past_due", "unpaid"}
  BY <1>1, RenewWork DEF IInv
<1>3. w.event.kind \in {"period", "status", "failed", "succeeded"}
  BY <1>1, <1>2 DEF WebhookKinds, Renewing
<1>4. /\ w.copy.status = sub.status /\ w.copy.period = sub.period /\ w.copy.linked = sub.linked
  BY <1>1, <1>2 DEF Held, HeldStatus, HeldLinked
<1>5. /\ new.linked = sub.linked
      /\ w.event.kind # "period" => new.period = sub.period
      /\ w.event.kind = "period"
           => new.status = sub.status /\ new.period = NextPeriod(w.copy, w.event.arg)
      /\ w.event.kind = "status" => new.status = Mapped(w.event.status)
      /\ w.event.kind = "failed" => new.status = "Unpaid"
      /\ w.event.kind = "succeeded" => new.status = PaidStatus(w.copy, answered)
  BY <1>2, <1>3, <1>4, ChangedHeld
<1>6. /\ w.event.kind = "status" => w.event.status = stripe.status
      /\ w.event.kind = "failed" => stripe.status \in {"past_due", "unpaid"}
      /\ w.event.kind = "succeeded" => stripe.status = "active"
  BY <1>2 DEF RenewInv, EventsOfStatus
<1>7. /\ Ends(h)
      /\ \/ ~Valid(new) /\ UNCHANGED sub
         \/ /\ Valid(new)
            /\ sub'.status = new.status /\ sub'.period = new.period /\ sub'.linked = new.linked
  BY <1>3, SaveTurn
<1>8. /\ w.event.kind # "status" => Started
      /\ ~Started => stripe.status = "active"
      /\ Started => sub.linked /\ sub.status \in {"Active", "PastDue", "Unpaid"}
  BY <1>1, <1>3, RenewStarted
<1>9. CASE ~Started
  <2>1. w.event.kind = "status" /\ stripe.status = "active"  BY <1>8, <1>9
  <2>2. ~sub.linked
    BY <1>1, <1>9, RenewStarted DEF RenewInv, Unstarted
  <2>3. ~Valid(new)  BY <1>5, <1>6, <2>1, <2>2 DEF Valid, Mapped
  <2>4. UNCHANGED sub  BY <1>7, <2>3
  <2> QED  BY <1>1, <1>3, <1>7, <1>9, <2>1, <2>4, RenewEnds
<1>10. CASE Started
  <2>1. Valid(new)  BY <1>5, <1>8, <1>10 DEF Valid
  <2>2. sub'.status = new.status /\ sub'.period = new.period /\ sub'.linked = sub.linked
    BY <1>5, <1>7, <2>1
  <2>3. CASE w.event.kind = "period"
    <3>1. w.event = PeriodEv(StripeCycle) /\ sub.period = Metered(StripeCycle - 1)
          /\ StripeCycle > 1
      BY <1>2, <2>3 DEF RenewInv, Window, Waits
    <3>2. PeriodEv(StripeCycle).arg = StripeCycle  BY DEF PeriodEv, Ev
    <3>3. StripeCycle # 1  BY <1>2, <3>1, CycleOfClock
    <3>4. sub'.period = Metered(StripeCycle)
      BY <1>4, <1>5, <2>2, <2>3, <3>1, <3>2, <3>3 DEF NextPeriod, Metered, MeteredStart
    <3> QED  BY <1>1, <1>3, <1>5, <1>7, <1>8, <1>10, <2>2, <2>3, <3>4, RenewEnds
  <2>4. CASE w.event.kind # "period"
    <3>1. new.status \in Mirrors(stripe.status) /\ new.status \in {"Active", "PastDue", "Unpaid"}
      BY <1>0, <1>2, <1>3, <1>5, <1>6, <2>4 DEF Mirrors, Mapped, PaidStatus
    <3> QED  BY <1>1, <1>3, <1>5, <1>7, <1>10, <2>2, <2>4, <3>1, RenewEnds
  <2> QED  BY <2>3, <2>4
<1> QED  BY <1>9, <1>10

(* The job of the task: it runs on the day on which the metered period ends, *)
LEMMA JobOnTheDay ==
  ASSUME IInv, OneAtATime, RenewInv, NEW h \in Handler, ~Idle(h), work[h].event.kind = "usage"
  PROVE  /\ clock = task.due /\ task.due = MeteredEnd(StripeCycle) /\ work[h].tcopy = task
         /\ sub.period = Metered(StripeCycle) /\ ~Waits({"period"})
         /\ task.state = "queued" /\ ~task.once /\ Started
<1>1. PICK c \in Nat : c = StripeCycle /\ c >= 1 /\ (clock = 2 * c - 2 \/ clock = 2 * c - 1)
  BY CycleOfClock DEF IInv
<1>2. Started  BY RenewStarted
<1>3. /\ task.state = "queued" /\ ~task.once
      /\ task.due = 2 * c - 1 \/ (task.due = 2 * c + 1 /\ clock = 2 * c - 1)
  BY <1>1, <1>2 DEF RenewInv, Scheduled, MeteredEnd
<1>4. task.due <= clock /\ work[h].tcopy = task  BY DEF RenewInv, UsageDue, Due
<1>5. clock = task.due /\ task.due = 2 * c - 1  BY <1>1, <1>3, <1>4
<1>6. clock # CycleEnd(StripeCycle - 1)  BY <1>1, <1>5 DEF CycleEnd
<1>7. sub.period = Metered(StripeCycle) /\ ~Waits({"period"})
  BY <1>6 DEF RenewInv, Window
<1> QED  BY <1>1, <1>2, <1>3, <1>4, <1>5, <1>7 DEF MeteredEnd

(* reports what was not reported yet, *)
LEMMA RenewReport ==
  ASSUME IInv, OneAtATime, RenewInv, NEW h \in Handler, Report(h)
  PROVE  RenewInv'
<1> DEFINE w == work[h]
           d == [w.copy EXCEPT !.audit = Append(@, [by |-> h, period |-> w.copy.period])]
<1>1. /\ ~Idle(h) /\ w.stage = "report" /\ w.event.kind \in {"usage", "user"} /\ Goes(h, "save", d)
      /\ UNCHANGED <<clock, stripe, sent, sub, task, ending>>
      /\ billed' = [n \in Tick |-> billed[n] + IF Covers(w.copy.period, n) THEN 1 ELSE 0]
  BY DEF Report, At, Idle
<1>2. /\ w.copy \in Doc /\ w.event.kind \in Renewing /\ w.copy.period = sub.period
      /\ \A g \in Handler : g # h => Idle(g)
  BY <1>1, RenewWork DEF Held
<1>3. w.event.kind = "usage"  BY <1>1, <1>2 DEF Renewing
<1>4. /\ clock = task.due /\ task.due = MeteredEnd(StripeCycle) /\ w.tcopy = task
      /\ sub.period = Metered(StripeCycle) /\ Started
  BY <1>1, <1>3, JobOnTheDay
<1>5. d \in Doc
  <2>1. w.copy.audit \in Seq(Usage) /\ w.copy.period \in Period  BY <1>2, DocFields
  <2>2. [by |-> h, period |-> w.copy.period] \in Usage  BY <2>1 DEF Usage
  <2>3. Append(w.copy.audit, [by |-> h, period |-> w.copy.period]) \in Seq(Usage)
    BY <2>1, <2>2
  <2> QED  BY <1>2, <2>3, DocUpdates
<1> HIDE DEF d
<1>6. /\ work'[h].stage = "save" /\ work'[h].event = w.event /\ work'[h].tcopy = w.tcopy
      /\ \A g \in Handler : g # h => Idle(g)'
      /\ Waiting' = Waiting
  <2>1. "save" \in Stage  BY DEF Stage
  <2> QED  BY <1>1, <1>5, <2>1, OneGoes, OnlyOne DEF OneAtATime
<1>7. \A kinds : Waits(kinds)' <=> Waits(kinds)  BY <1>6 DEF Waits
<1>8. Started'  BY <1>1, <1>4, <1>7 DEF Started
<1>9. BeforePayment'  BY <1>1, RenewWork DEF BeforePayment
<1>10. Apart'  BY <1>1, <1>6 DEF RenewInv, Apart
<1>11. NotEnding' /\ EventsOfStatus'
  BY <1>1, <1>6 DEF RenewInv, NotEnding, EventsOfStatus
<1>12. Unstarted' /\ FirstTask'  BY <1>8 DEF Unstarted, FirstTask, Started
<1>13. Scheduled'
  BY <1>1, <1>4, <1>8 DEF RenewInv, Scheduled, MeteredEnd, StripeCycle
<1>14. UsageDue'  BY <1>1, <1>4, <1>6 DEF RenewInv, UsageDue, Due
<1>15. Window'
  BY <1>1, <1>6, <1>7 DEF RenewInv, Window, Metered, StripeCycle, CycleEnd
<1>16. StatusMirrored'  BY <1>1, <1>7 DEF RenewInv, StatusMirrored, Mirrors
<1>17. BilledTo'
  <2>1. PICK c \in Nat : c = StripeCycle /\ c >= 1  BY CycleOfClock DEF IInv
  <2>2. task.due = 2 * c - 1 /\ clock = 2 * c - 1  BY <1>4, <2>1 DEF MeteredEnd
  <2>3. \A g \in Handler : ~At(g, "save", {"usage"})
    BY <1>1, <1>2 DEF At, Idle
  <2>4. \A n \in Tick : billed[n] = IF n <= 2 * c - 3 THEN 1 ELSE 0
    BY <1>4, <2>1, <2>2, <2>3 DEF RenewInv, BilledTo, ReportedTo
  <2>5. ReportedTo' = 2 * c - 1
    <3>1. At(h, "save", {"usage"})'  BY <1>3, <1>6 DEF At
    <3> QED  BY <1>1, <2>2, <3>1 DEF ReportedTo
  <2>6. w.copy.period.from = (IF c = 1 THEN 0 ELSE 2 * c - 3) /\ w.copy.period.to = 2 * c - 1
    BY <1>2, <1>4, <2>1 DEF Metered, MeteredStart, MeteredEnd
  <2>7. ASSUME NEW n \in Tick
        PROVE  billed'[n] = IF n <= 2 * c - 1 THEN 1 ELSE 0
    <3>1. n \in Nat /\ n >= 1  BY DEF Tick, SubscriptionAssumption
    <3>2. Covers(w.copy.period, n) <=> (IF c = 1 THEN 0 ELSE 2 * c - 3) < n /\ n <= 2 * c - 1
      BY <2>2, <2>6 DEF Covers
    <3>3. billed'[n] = billed[n] + IF Covers(w.copy.period, n) THEN 1 ELSE 0  BY <1>1
    <3> QED  BY <2>1, <2>4, <3>1, <3>2, <3>3
  <2> QED  BY <2>5, <2>7 DEF BilledTo
<1> QED
  BY <1>9, <1>10, <1>11, <1>12, <1>13, <1>14, <1>15, <1>16, <1>17 DEF RenewInv

(* saves that, and is next due a cycle later. *)
LEMMA RenewSaveUsage ==
  ASSUME IInv, OneAtATime, RenewInv, NEW h \in Handler, SaveUsage(h)
  PROVE  RenewInv'
<1> DEFINE w == work[h]
<1>1. /\ ~Idle(h) /\ w.stage = "save" /\ w.event.kind = "usage" /\ Persists(h, w.copy, "idle")
      /\ UNCHANGED <<clock, stripe, sent, ending, billed>>
      /\ task' = IF Savable(w.copy) THEN JobDone(task, w.tcopy) ELSE task
  BY DEF SaveUsage, At, Idle
<1>2. /\ w.copy \in Doc /\ w.event \in Waiting /\ Held(w, sub)
      /\ Waiting = sent \cup {w.event} /\ \A g \in Handler : g # h => Idle(g)
  BY <1>1, RenewWork
<1>3. /\ clock = task.due /\ task.due = MeteredEnd(StripeCycle) /\ w.tcopy = task
      /\ sub.period = Metered(StripeCycle) /\ ~Waits({"period"})
      /\ task.state = "queued" /\ ~task.once /\ Started
  BY <1>1, JobOnTheDay
<1>4. /\ w.copy.status = sub.status /\ w.copy.period = sub.period /\ w.copy.linked = sub.linked
      /\ w.copy.v = sub.v
  BY <1>1, <1>2 DEF Held, HeldStatus, HeldLinked
<1>5. sub.linked /\ sub.status \in {"Active", "PastDue", "Unpaid"}
  BY <1>3 DEF RenewInv, Scheduled
<1>6. Valid(w.copy) /\ Savable(w.copy)
  BY <1>4, <1>5 DEF Valid, Savable, VersionMatches
<1>7. Ends(h) /\ sub'.status = sub.status /\ sub'.period = sub.period /\ sub'.linked = sub.linked
  BY <1>1, <1>4, <1>6, CopyTurn DEF Same
<1>8. task.once \in BOOLEAN /\ task.due \in Nat  BY DEF IInv, TypeOK, Task
<1>9. task'.state = "queued" /\ ~task'.once /\ task'.due = task.due + 2
  BY <1>1, <1>3, <1>6, <1>8 DEF JobDone
<1>10. (\A g \in Handler : work'[g].stage = "idle") /\ Waiting' = sent
  BY <1>1, <1>7, OneEnds DEF OneAtATime, Idle
<1>11. \A kinds : "usage" \notin kinds => (Waits(kinds)' <=> Waits(kinds))
  BY <1>1, <1>2, <1>10 DEF Waits
<1>12. /\ Waits({"activate"})' <=> Waits({"activate"})
       /\ Waits({"period"})' <=> Waits({"period"})
       /\ Waits(StatusKinds)' <=> Waits(StatusKinds)
  <2>1. "usage" \notin {"activate"} /\ "usage" \notin {"period"} /\ "usage" \notin StatusKinds
    BY DEF StatusKinds
  <2> QED  BY <1>11, <2>1
<1>13. Started'  BY <1>1, <1>3, <1>12 DEF Started
<1>14. BeforePayment' /\ Apart' /\ UsageDue' /\ Unstarted' /\ FirstTask'
  BY <1>10, <1>13
     DEF BeforePayment, Apart, UsageDue, Unstarted, FirstTask, Started, Idle
<1>15. NotEnding' /\ EventsOfStatus'
  BY <1>1, <1>2, <1>10 DEF RenewInv, NotEnding, EventsOfStatus
<1>16. Scheduled'
  <2>1. MeteredEnd(StripeCycle)' = MeteredEnd(StripeCycle)  BY <1>1 DEF MeteredEnd, StripeCycle
  <2> QED  BY <1>1, <1>3, <1>5, <1>7, <1>9, <2>1 DEF Scheduled
<1>17. BilledTo'
  <2>1. At(h, "save", {"usage"})  BY <1>1 DEF At
  <2>2. \A n \in Tick : billed[n] = IF n <= task.due THEN 1 ELSE 0
    BY <1>3, <2>1 DEF RenewInv, BilledTo, ReportedTo
  <2>3. ReportedTo' = task.due  BY <1>8, <1>9, <1>10 DEF ReportedTo, At
  <2> QED  BY <1>1, <2>2, <2>3 DEF BilledTo
<1>18. Window'
  BY <1>1, <1>3, <1>7, <1>12 DEF Window, Metered, StripeCycle
<1>19. StatusMirrored'  BY <1>1, <1>7, <1>12 DEF RenewInv, StatusMirrored, Mirrors
<1> QED  BY <1>14, <1>15, <1>16, <1>17, <1>18, <1>19 DEF RenewInv

LEMMA RenewHandler ==
  ASSUME MaxFaults = 0, IInv, OneAtATime, RenewInv, NEW h \in Handler, HandlerStep(h) \/ Throws(h)
  PROVE  RenewInv'
<1> DEFINE w == work[h]
<1>1. ~Idle(h)  BY AtWork
<1>2. w.copy \in Doc /\ w.event.kind \in Renewing /\ (w.stage # "read" => Held(w, sub))
  BY <1>1, RenewWork
<1>3. CASE Provision(h)
  <2>1. [w.copy EXCEPT !.status = "Active", !.networks = TRUE] \in Doc
    BY <1>2, DocUpdates DEF Status
  <2>2. w.stage # "save" /\ "schedule" \in Stage
    BY <1>3 DEF Provision, At, Stage
  <2> QED  BY <1>1, <1>3, <2>1, <2>2, RenewGoes DEF Provision
<1>4. CASE \E answered \in BOOLEAN : Save(h, answered)
  BY <1>4, RenewActivates, RenewSave
<1>5. ~Throws(h)  BY DEF Throws, IInv, TypeOK
<1>6. ~ScheduleEnd(h) /\ ~SaveCanceled(h)
  BY <1>2 DEF ScheduleEnd, SaveCanceled, Held, Renewing
<1>7. ~Terminate(h) /\ ~UserSavesUsage(h) /\ ~UserRereads(h) /\ ~UserPends(h) /\ ~UserStops(h)
  BY <1>2 DEF Terminate, UserSavesUsage, UserRereads, UserPends, UserStops, At, Renewing
<1> QED
  BY <1>3, <1>4, <1>5, <1>6, <1>7, RenewRead, RenewSchedule, RenewReport, RenewSaveUsage
     DEF HandlerStep

LEMMA RenewStep ==
  ASSUME Prompt, Kinds = Renewing, MaxDups = 0, MaxFaults = 0, IInv, OneAtATime, RenewInv,
         [Next]_vars
  PROVE  RenewInv'
<1>1. ~StripeCancels /\ ~StripeCancelsLater
  BY DEF StripeCancels, StripeCancelsLater, Renewing
<1>2. ASSUME NEW h \in Handler,
             \/ \E e \in sent : Webhook(h, e)
             \/ \E kind \in {"usage", "end"} : Job(h, kind)
             \/ UserCancels(h)
      PROVE  RenewInv'
  BY <1>2, RenewBegins
<1>3. CASE UNCHANGED vars
  <2>1. Waiting' = Waiting  BY <1>3 DEF vars, Waiting, Idle
  <2>2. \A kinds : Waits(kinds)' <=> Waits(kinds)  BY <2>1 DEF Waits
  <2>3. (Started' <=> Started) /\ UNCHANGED ReportedTo
    BY <1>3, <2>2 DEF vars, Started, ReportedTo, At
  <2>4. BeforePayment' /\ Apart' /\ NotEnding' /\ EventsOfStatus' /\ UsageDue'
    BY <1>3, <2>1 DEF vars, RenewInv, BeforePayment, Apart, NotEnding, EventsOfStatus, UsageDue,
       Idle, Due
  <2>5. Unstarted' /\ StatusMirrored'
    BY <1>3, <2>2 DEF vars, RenewInv, Unstarted, StatusMirrored, Mirrors
  <2>6. FirstTask'  BY <1>3, <2>2 DEF vars, RenewInv, FirstTask, At
  <2>7. Scheduled' /\ BilledTo'
    BY <1>3, <2>3 DEF vars, RenewInv, Scheduled, BilledTo, MeteredEnd, StripeCycle
  <2>8. Window'
    BY <1>3, <2>1, <2>2 DEF vars, RenewInv, Window, Metered, StripeCycle, CycleEnd
  <2> QED  BY <2>4, <2>5, <2>6, <2>7, <2>8 DEF RenewInv
<1> QED
  BY <1>1, <1>2, <1>3, RenewPays, RenewCharges, RenewTime, RenewHandler DEF Next

LEMMA RenewInit == Init => RenewInv
<1> SUFFICES ASSUME Init PROVE RenewInv  OBVIOUS
<1>1. /\ \A h \in Handler : Idle(h) /\ work[h].stage = "idle"
      /\ Waiting = {} /\ StripeCycle = 1
  BY DEF Init, Idle, NoWork, Waiting, StripeCycle
<1>2. \A kinds : ~Waits(kinds)  BY <1>1 DEF Waits
<1>3. ~Started  BY DEF Started, Init
<1>4. BeforePayment /\ Apart /\ NotEnding /\ EventsOfStatus /\ UsageDue
  BY <1>1 DEF Init, BeforePayment, Apart, NotEnding, EventsOfStatus, UsageDue, NoTask
<1>5. Unstarted /\ FirstTask /\ Scheduled /\ BilledTo /\ StatusMirrored
  BY <1>2, <1>3 DEF Init, Unstarted, FirstTask, Scheduled, BilledTo, StatusMirrored, Mirrors
<1>6. Window
  BY <1>1, <1>2 DEF Init, Window, Metered, MeteredStart
<1> QED  BY <1>4, <1>5, <1>6 DEF RenewInv

(* What a renewed subscription owes is billed once and completely, and when *)
(* everything is handled it is as Stripe has it.                            *)
LEMMA RenewalInvariant ==
  ASSUME Prompt, Kinds = Renewing, MaxDups = 0, MaxFaults = 0
  PROVE  Spec => [](IInv /\ RenewInv)
<1> DEFINE Inv == IInv /\ OneAtATime /\ RenewInv
<1>1. Init => Inv  BY InitInv, OneAtATimeInit, RenewInit
<1>2. ASSUME Inv, [Next]_vars PROVE Inv'
  BY <1>2, InvStep, OneAtATimeStep, RenewStep
<1>3. Inv => IInv /\ RenewInv  OBVIOUS
<1> HIDE DEF Inv
<1> QED  BY <1>1, <1>2, <1>3, PTL DEF Spec

LEMMA OnceIsOnce ==
  ASSUME IInv, RenewInv
  PROVE  BilledOnce
<1>1. CASE Started  BY <1>1 DEF RenewInv, BilledTo, BilledOnce
<1>2. CASE ~Started  BY <1>2 DEF RenewInv, Unstarted, Started, BilledOnce
<1> QED  BY <1>1, <1>2

LEMMA CompleteIsComplete ==
  ASSUME IInv, RenewInv
  PROVE  BilledCompletely
<1> SUFFICES ASSUME Quiet, ~Due(task), NEW n \in Tick, NEW c \in Tick,
                    n <= MeteredEnd(c), MeteredEnd(c) <= clock
             PROVE  billed[n] >= 1
  BY DEF BilledCompletely
<1>1. c \in Nat /\ c >= 1 /\ n \in Nat  BY DEF Tick, SubscriptionAssumption
<1>2. /\ ~Waits({"activate"}) /\ \A h \in Handler : ~At(h, "save", {"usage"})
  BY DEF Quiet, Waits, Waiting, Idle, At
<1>3. stripe.status # "incomplete"
  <2>1. clock # 0  BY <1>1 DEF MeteredEnd
  <2> QED  BY <2>1 DEF RenewInv, Unstarted
<1>4. Started  BY <1>2, <1>3 DEF Started
<1>5. PICK s \in Nat : s = StripeCycle /\ (clock = 2 * s - 2 \/ clock = 2 * s - 1)
  BY CycleOfClock DEF IInv
<1>6. /\ task.due = 2 * s - 1 \/ (task.due = 2 * s + 1 /\ clock = 2 * s - 1)
      /\ task.due > clock
  <2>1. task.due \in Nat /\ clock \in Nat  BY DEF IInv, TypeOK, Task
  <2> QED  BY <1>4, <1>5, <2>1 DEF RenewInv, Scheduled, MeteredEnd, Due
<1>7. n <= task.due - 2
  <2>1. n <= 2 * c - 1 /\ 2 * c - 1 <= clock  BY DEF MeteredEnd
  <2> QED  BY <1>1, <1>5, <1>6, <2>1
<1>8. billed[n] = 1  BY <1>2, <1>4, <1>7 DEF RenewInv, BilledTo, ReportedTo
<1> QED  BY <1>8

LEMMA QuietIsInStep ==
  ASSUME IInv, RenewInv
  PROVE  WindowFollowsCycle /\ StatusSynchronised
<1>1. Quiet => ~Waits({"period"}) /\ ~Waits(StatusKinds)
  BY DEF Quiet, Waits, Waiting
<1> QED
  BY <1>1 DEF RenewInv, Window, StatusMirrored, WindowFollowsCycle, StatusSynchronised, Metered

(* No tick of metered usage is reported to Stripe twice, while nobody       *)
(* cancels: the job runs on the last day of the period it reports, and is   *)
(* then due a cycle later.                                                  *)
THEOREM UsageBilledOnce ==
  ASSUME Prompt, Kinds = Renewing, MaxDups = 0, MaxFaults = 0
  PROVE  Spec => []BilledOnce
<1>1. IInv /\ RenewInv => BilledOnce  BY OnceIsOnce
<1> QED  BY <1>1, RenewalInvariant, PTL

(* ... nor forgotten: what ended and is not due was reported.               *)
THEOREM UsageBilledCompletely ==
  ASSUME Prompt, Kinds = Renewing, MaxDups = 0, MaxFaults = 0
  PROVE  Spec => []BilledCompletely
<1>1. IInv /\ RenewInv => BilledCompletely  BY CompleteIsComplete
<1> QED  BY <1>1, RenewalInvariant, PTL

(* The metered period follows Stripe's billing cycle.                       *)
THEOREM PeriodInSync ==
  ASSUME Prompt, Kinds = Renewing, MaxDups = 0, MaxFaults = 0
  PROVE  Spec => []WindowFollowsCycle
<1>1. IInv /\ RenewInv => WindowFollowsCycle  BY QuietIsInStep
<1> QED  BY <1>1, RenewalInvariant, PTL

(* The status follows Stripe's through failed charges and their retries.    *)
THEOREM StatusInSync ==
  ASSUME Prompt, Kinds = Renewing, MaxDups = 0, MaxFaults = 0
  PROVE  Spec => []StatusSynchronised
<1>1. IInv /\ RenewInv => StatusSynchronised  BY QuietIsInStep
<1> QED  BY <1>1, RenewalInvariant, PTL

=============================================================================
