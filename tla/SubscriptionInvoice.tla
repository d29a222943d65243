------------------------ MODULE SubscriptionInvoice ------------------------
(***************************************************************************)
(* The invoices of a subscription renewal, mirrored from Stripe            *)
(* (ConnectSubscriptionService, called by StripeController).  Stripe sends *)
(* an event for each change of an invoice; the webhook runs one handler    *)
(* per event, any number of them at once, catches whatever they throw and  *)
(* answers 2xx, so that a failed handler is never retried.  Events may be  *)
(* reordered and delivered twice.  A handler reads the invoice, waits for  *)
(* Stripe or QuickBooks, and saves the copy it read.                       *)
(***************************************************************************)
EXTENDS Integers

CONSTANTS
  Invoice,      (* the invoices of Stripe                                   *)
  Handler,      (* requests to the webhook that may be served at once       *)
  InOrder,      (* Stripe waits until an event is handled to send the next  *)
  MaxDups,      (* bound: events delivered once more                        *)
  MaxFaults     (* bound: calls to Stripe, QuickBooks, MongoDB that fail    *)

ASSUME InvoiceAssumption ==
  InOrder \in BOOLEAN /\ MaxDups \in Nat /\ MaxFaults \in Nat

VARIABLES
  stripe,     (* stripe[i]: the status of the invoice in Stripe             *)
  sent,       (* sent[i]: the events about i not delivered yet              *)
  doc,        (* doc[i]: the connect invoice with stripeInvoiceId i         *)
  quickbooks, (* quickbooks[i]: invoices created in QuickBooks for i        *)
  work,       (* work[h]: what the handler h has read and does next         *)
  dups, faults

vars == <<stripe, sent, doc, quickbooks, work, dups, faults>>

-----------------------------------------------------------------------------
Event == {"created", "period", "finalized", "failed", "succeeded", "voided"}
StripeStatus == {"none", "draft", "open", "paid", "void"}

Status == {"ABSENT", "Draft", "Open", "Paid", "Void"}
Lines == {"draft", "final"}     \* metered usage is on the final lines only

Doc ==
  [ status  : Status,
    payment : {"none", "error", "paid"},
    qb      : Nat,                         \* quickBooksInvoiceId, 0 if unset
    period  : {"subscription", "override"},
    lines   : Lines,
    usage   : BOOLEAN,                     \* is usageAuditTrail non-empty?
    v       : Nat ]

Absent ==
  [ status |-> "ABSENT", payment |-> "none", qb |-> 0, period |-> "subscription",
    lines |-> "draft", usage |-> FALSE, v |-> 0 ]

NoWork == [stage |-> "idle"]
Work == [ stage : {"read", "fetch", "write"}, event : Event, inv : Invoice,
          copy : Doc, lines : Lines, qb : Nat ]

Idle(h) == work[h].stage = "idle"
Busy(i) == \E h \in Handler : ~Idle(h) /\ work[h].inv = i

Init ==
  /\ stripe = [i \in Invoice |-> "none"]
  /\ sent = [i \in Invoice |-> {}]
  /\ doc = [i \in Invoice |-> Absent]
  /\ quickbooks = [i \in Invoice |-> 0]
  /\ work = [h \in Handler |-> NoWork]
  /\ dups = 0 /\ faults = 0

-----------------------------------------------------------------------------
(* Stripe: an invoice is drafted when a billing cycle starts, finalized an  *)
(* hour later, then charged until it is paid or voided.                     *)

StripeMoves(i, from, to, events) ==
  /\ stripe[i] = from
  /\ InOrder => sent[i] = {} /\ ~Busy(i)
  /\ stripe' = [stripe EXCEPT ![i] = to]
  /\ sent' = [sent EXCEPT ![i] = @ \cup events]
  /\ UNCHANGED <<doc, quickbooks, work, dups, faults>>

StripeStep(i) ==
  \/ StripeMoves(i, "none", "draft", {"created", "period"})
  \/ StripeMoves(i, "draft", "open", {"finalized"})
  \/ StripeMoves(i, "open", "open", {"failed"})
  \/ StripeMoves(i, "open", "paid", {"succeeded"})
  \/ StripeMoves(i, "open", "void", {"voided"})

(* The webhook takes an event; Stripe may send it again. *)
Webhook(h, i, e) ==
  /\ Idle(h)
  /\ e \in sent[i]
  /\ InOrder => ~Busy(i)
  /\ work' = [work EXCEPT ![h] = 
               [stage |-> "read", event |-> e, inv |-> i,
                copy |-> Absent, lines |-> "draft", qb |-> 0]]
  /\ \/ sent' = [sent EXCEPT ![i] = @ \ {e}] /\ UNCHANGED dups
     \/ dups < MaxDups /\ dups' = dups + 1 /\ UNCHANGED sent
  /\ UNCHANGED <<stripe, doc, quickbooks, faults>>

-----------------------------------------------------------------------------
(* The handlers. *)

Ends(h) == work' = [work EXCEPT ![h] = NoWork]

EnsuresCreation(e) == e \in {"created", "period"}

(* findOne.  A handler that needs the invoice throws NotFoundException when *)
(* there is none; ensure...Open and ...Void go on in some states only.      *)
Proceeds(e, found) ==
  \/ EnsuresCreation(e)
  \/ e \in {"failed", "succeeded"} /\ found.status # "ABSENT"
  \/ e = "finalized" /\ found.status = "Draft"
  \/ e = "voided" /\ found.status \notin {"ABSENT", "Paid"}

Read(h) ==
  LET w == work[h]  found == doc[w.inv] IN
  /\ w.stage = "read"
  /\ IF Proceeds(w.event, found)
       THEN work' = [work EXCEPT ![h] =
              [@ EXCEPT !.copy = found,
                        !.stage = IF w.event \in {"finalized", "voided", "failed"}
                                    THEN "write" ELSE "fetch"]]
       ELSE Ends(h)
  /\ UNCHANGED <<stripe, sent, doc, quickbooks, dups, faults>>

StripeLinesRaw(i) == stripe[i]      \* mutant of StripeLines
StripeLines(i) == IF stripe[i] = "draft" THEN "draft" ELSE "final"

(* getInvoiceById, and for a payment the invoice in QuickBooks too, whose   *)
(* failure is logged and leaves no id.  It is created whatever the status.  *)
CreatesQuickbooksInvoice(w) == w.event = "succeeded"

Fetch(h) ==
  LET w == work[h]  i == w.inv IN
  /\ w.stage = "fetch"
  /\ \/ /\ CreatesQuickbooksInvoice(w)
        /\ quickbooks' = [quickbooks EXCEPT ![i] = @ + 1]
        /\ work' = [work EXCEPT ![h] = [@ EXCEPT !.stage = "write", !.qb = quickbooks[i] + 1,
                                                 !.lines = StripeLines(i)]]
        /\ UNCHANGED faults
     \/ /\ ~CreatesQuickbooksInvoice(w) \/ faults < MaxFaults
        /\ work' = [work EXCEPT ![h] = [@ EXCEPT !.stage = "write", !.qb = 0,
                                                 !.lines = StripeLines(i)]]
        /\ faults' = IF CreatesQuickbooksInvoice(w) THEN faults + 1 ELSE faults
        /\ UNCHANGED quickbooks
  /\ UNCHANGED <<stripe, sent, doc, dups>>

(* ensureSubscriptionInvoiceIsCreatedForStripeInvoiceHelper, new invoice.   *)
NewDoc(w) ==
  [Absent EXCEPT !.status = "Draft", !.lines = w.lines,
                 !.period = IF w.event = "period" THEN "override" ELSE "subscription"]

(* The index on stripeInvoiceId is unique: a second create fails with       *)
(* E11000, and the handler reads the invoice again to update it.            *)
Create(h) ==
  LET w == work[h]  i == w.inv IN
  /\ w.stage = "write" /\ EnsuresCreation(w.event) /\ w.copy.status = "ABSENT"
  /\ IF doc[i].status = "ABSENT"
       THEN doc' = [doc EXCEPT ![i] = NewDoc(w)] /\ Ends(h)
       ELSE work' = [work EXCEPT ![h].copy = doc[i]] /\ UNCHANGED doc
  /\ UNCHANGED <<stripe, sent, quickbooks, dups, faults>>

(* A live copy writes the fields assigned to it that differ from what was   *)
(* read; an array among them only over the version that was read.           *)
LinesSaved(stored, copy, lines) ==
  IF lines = copy.lines THEN stored
  ELSE [stored EXCEPT !.lines = lines, !.v = @ + 1]

(* Mutants of Updated: the status is that of a new invoice; the period of a *)
(* "created" event is the subscription's.                                   *)
UpdatedAsNew(stored, w) ==
  [LinesSaved(stored, w.copy, w.lines) EXCEPT !.status = "Draft"]

UpdatedPeriod(stored, w) ==
  [LinesSaved(stored, w.copy, w.lines) EXCEPT
     !.period = IF w.event = "period" THEN "override" ELSE "subscription"]

Updated(stored, w) ==
  LET saved == LinesSaved(stored, w.copy, w.lines) IN
  IF w.event = "period" /\ w.copy.period # "override"
    THEN [saved EXCEPT !.period = "override"]
    ELSE saved

Versioned(stored, copy) == stored.v = copy.v

Update(h) ==
  LET w == work[h]  i == w.inv IN
  /\ w.stage = "write" /\ EnsuresCreation(w.event) /\ w.copy.status # "ABSENT"
  /\ doc' = IF w.lines = w.copy.lines \/ Versioned(doc[i], w.copy)
              THEN [doc EXCEPT ![i] = Updated(@, w)]
              ELSE doc
  /\ Ends(h)
  /\ UNCHANGED <<stripe, sent, quickbooks, dups, faults>>

(* ensureSubscriptionInvoiceIsMarkedAsOpen... and ...AsVoid... *)
Mark(h) ==
  LET w == work[h]
      new == IF w.event = "finalized" THEN "Open" ELSE "Void" IN
  /\ w.stage = "write" /\ w.event \in {"finalized", "voided"}
  /\ doc' = IF w.copy.status = new THEN doc ELSE [doc EXCEPT ![w.inv].status = new]
  /\ Ends(h)
  /\ UNCHANGED <<stripe, sent, quickbooks, dups, faults>>

(* captureSubscriptionInvoicePaymentErrorByStripeInvoiceId: the status is   *)
(* assigned always, but saved only if the copy was not Open before.         *)
WithErrorOnly(stored, copy) == [stored EXCEPT !.payment = "error"]    \* mutant of WithError

WithError(stored, copy) ==
  [stored EXCEPT !.status = IF copy.status = "Open" THEN @ ELSE "Open",
                 !.payment = "error"]

CaptureError(h) ==
  LET w == work[h] IN
  /\ w.stage = "write" /\ w.event = "failed"
  /\ doc' = [doc EXCEPT ![w.inv] = WithError(@, w.copy)]
  /\ Ends(h)
  /\ UNCHANGED <<stripe, sent, quickbooks, dups, faults>>

(* captureSubscriptionInvoicePaymentByStripeInvoiceId saves a plain copy:   *)
(* every field is overwritten, provided the version did not change if one   *)
(* of the arrays did.  usage: was any reported for the invoice's period?    *)
AsPaid(w, usage) ==
  [w.copy EXCEPT !.status = "Paid", !.payment = "paid", !.qb = w.qb,
                 !.lines = w.lines, !.usage = usage]

ArraysDiffer(stored, new) == <<stored.lines, stored.usage>> # <<new.lines, new.usage>>

SavedPlain(stored, new) ==
  IF ~ArraysDiffer(stored, new) THEN new
  ELSE IF Versioned(stored, new) THEN [new EXCEPT !.v = @ + 1]
  ELSE stored

FirstAttempt(copy) == copy.payment = "none"     \* mutant of NotPaidYet
NotPaidYet(copy) == copy.status # "Paid"

CapturePayment(h, usage) ==
  LET w == work[h] IN
  /\ w.stage = "write" /\ w.event = "succeeded"
  /\ doc' = IF NotPaidYet(w.copy)
              THEN [doc EXCEPT ![w.inv] = SavedPlain(@, AsPaid(w, usage))]
              ELSE doc
  /\ Ends(h)
  /\ UNCHANGED <<stripe, sent, quickbooks, dups, faults>>

(* An awaited call fails: the webhook logs the exception and answers 2xx.   *)
Throws(h) ==
  /\ ~Idle(h) /\ faults < MaxFaults
  /\ faults' = faults + 1
  /\ Ends(h)
  /\ UNCHANGED <<stripe, sent, doc, quickbooks, dups>>

HandlerStep(h) ==
  \/ Read(h) \/ Fetch(h) \/ Create(h) \/ Update(h) \/ Mark(h) \/ CaptureError(h)
  \/ \E usage \in BOOLEAN : CapturePayment(h, usage)

Next ==
  \/ \E i \in Invoice : StripeStep(i)
  \/ \E h \in Handler, i \in Invoice, e \in Event : Webhook(h, i, e)
  \/ \E h \in Handler : HandlerStep(h)
  \/ \E h \in Handler : Throws(h)

Spec == Init /\ [][Next]_vars

(* Stripe keeps sending an event until it is delivered; handlers go on.     *)
Fairness ==
  /\ \A i \in Invoice, e \in Event : WF_vars(\E h \in Handler : Webhook(h, i, e))
  /\ \A h \in Handler : WF_vars(HandlerStep(h))

FairSpec == Spec /\ Fairness

-----------------------------------------------------------------------------
(* Properties. *)

(* The type invariant. *)
TypeOK ==
  /\ stripe \in [Invoice -> StripeStatus]
  /\ sent \in [Invoice -> SUBSET Event]
  /\ doc \in [Invoice -> Doc]
  /\ quickbooks \in [Invoice -> Nat]
  /\ work \in [Handler -> Work \cup {NoWork}]
  /\ dups \in 0 .. MaxDups
  /\ faults \in 0 .. MaxFaults

(* Whatever the order of the events and of the handlers' steps, an invoice  *)
(* that left Draft never looks editable again: only the handler that finds  *)
(* no invoice writes Draft, and the unique index stops it.                  *)
Editable(i) == doc[i].status \in {"ABSENT", "Draft"}

NeverBackToDraft ==
  [][\A i \in Invoice : ~Editable(i) => ~Editable(i)']_vars

(* "payment is required in order to mark invoice Paid": the payment of a    *)
(* Paid invoice is the money received, not the error of an earlier attempt. *)
PaidHasPayment ==
  \A i \in Invoice : doc[i].status = "Paid" => doc[i].payment = "paid"

(* The metered usage period set when a cycle begins ("very important")      *)
(* is not lost to a later save of an older copy.                            *)
PeriodStaysOverridden ==
  [][\A i \in Invoice : doc[i].period = "override" => doc'[i].period = "override"]_vars

(* The invoices created in QuickBooks for a Stripe invoice are one, and its *)
(* "returned ID" is set: else books hold an invoice nothing refers to.      *)
QuickbooksIdRecorded ==
  \A i \in Invoice :
    ~Busy(i) /\ quickbooks[i] > 0 => quickbooks[i] = 1 /\ doc[i].qb = 1

(* When every event is handled the invoice shows what Stripe says of it.    *)
Mirror(s) ==
  CASE s = "none" -> "ABSENT" [] s = "draft" -> "Draft" [] s = "open" -> "Open"
    [] s = "paid" -> "Paid"   [] s = "void"  -> "Void"

Synchronised ==
  \A i \in Invoice : sent[i] = {} /\ ~Busy(i) => doc[i].status = Mirror(stripe[i])

(* A payment Stripe received is shown in the end: the webhook "Updates      *)
(* Connect Connect Subscription Invoice as Paid".                           *)
PaymentIsRecorded ==
  \A i \in Invoice : stripe[i] = "paid" ~> doc[i].status = "Paid"
=============================================================================
