--------------------- MODULE SubscriptionInvoice_proofs ---------------------
(***************************************************************************)
(* Theorems about SubscriptionInvoice, for any sets of invoices and        *)
(* handlers, any order of the events and any bounds.                       *)
(***************************************************************************)
EXTENDS SubscriptionInvoice, TLAPS

USE InvoiceAssumption

(* A handler at work has a record of its work. *)
LEMMA AtWork ==
  ASSUME TypeOK, NEW h \in Handler, work[h].stage # "idle"
  PROVE  work[h] \in Work
  BY DEF TypeOK, NoWork

LEMMA WorkFields ==
  ASSUME NEW w \in Work
  PROVE  /\ w.stage \in {"read", "fetch", "write"} /\ w.event \in Event /\ w.inv \in Invoice
         /\ w.copy \in Doc /\ w.lines \in Lines /\ w.qb \in Nat
  BY DEF Work

LEMMA AbsentIsDoc == Absent \in Doc
  BY DEF Absent, Doc, Status, Lines

LEMMA AsPaidIsDoc ==
  ASSUME NEW w \in Work, NEW usage \in BOOLEAN
  PROVE  AsPaid(w, usage) \in Doc
<1>1. PICK c \in Doc : c = w.copy
  BY WorkFields
<1>2. PICK l \in Lines : l = w.lines
  BY WorkFields
<1>3. PICK n \in Nat : n = w.qb
  BY WorkFields
<1>4. "Paid" \in Status
  BY DEF Status
<1>5. PICK e \in Doc : e = [c EXCEPT !.status = "Paid", !.payment = "paid"]
  BY <1>4 DEF Doc
<1>6. [e EXCEPT !.qb = n, !.lines = l, !.usage = usage] \in Doc
  BY DEF Doc
<1>7. AsPaid(w, usage) = [e EXCEPT !.qb = n, !.lines = l, !.usage = usage]
  BY <1>1, <1>2, <1>3, <1>5 DEF AsPaid, Doc
<1> QED BY <1>6, <1>7

(* What the handlers save is a document again. *)
LEMMA SavedIsDoc ==
  ASSUME NEW d \in Doc, NEW w \in Work, NEW usage \in BOOLEAN
  PROVE  /\ Updated(d, w) \in Doc
         /\ WithError(d, w.copy) \in Doc
         /\ SavedPlain(d, AsPaid(w, usage)) \in Doc
         /\ NewDoc(w) \in Doc
<1>1. w.copy \in Doc /\ w.lines \in Lines /\ w.qb \in Nat
  BY WorkFields
<1>2. LinesSaved(d, w.copy, w.lines) \in Doc
  <2>1. PICK k \in Nat : k = d.v + 1
    BY DEF Doc
  <2>2. PICK l \in Lines : l = w.lines
    BY <1>1
  <2>3. [d EXCEPT !.lines = l, !.v = k] \in Doc
    BY DEF Doc
  <2> QED BY <2>1, <2>2, <2>3 DEF LinesSaved
<1>3. Updated(d, w) \in Doc
  <2> DEFINE saved == LinesSaved(d, w.copy, w.lines)
  <2>1. saved \in Doc
    BY <1>2
  <2> HIDE DEF saved
  <2>2. [saved EXCEPT !.period = "override"] \in Doc
    BY <2>1 DEF Doc
  <2> QED BY <2>1, <2>2 DEF Updated, saved
<1>4. WithError(d, w.copy) \in Doc
  <2>1. PICK st \in Status : st = IF w.copy.status = "Open" THEN d.status ELSE "Open"
    BY <1>1 DEF Doc, Status
  <2>2. [d EXCEPT !.status = st, !.payment = "error"] \in Doc
    BY DEF Doc
  <2> QED BY <2>1, <2>2 DEF WithError
<1>5. AsPaid(w, usage) \in Doc
  BY AsPaidIsDoc
<1>6. SavedPlain(d, AsPaid(w, usage)) \in Doc
  <2> DEFINE new == AsPaid(w, usage)
  <2>1. new \in Doc
    BY <1>5
  <2> HIDE DEF new
  <2>2. PICK k \in Nat : k = new.v + 1
    BY <2>1 DEF Doc
  <2>3. [new EXCEPT !.v = k] \in Doc
    BY <2>1 DEF Doc
  <2>4. SavedPlain(d, new) \in Doc
    BY <2>1, <2>2, <2>3 DEF SavedPlain
  <2> QED BY <2>4 DEF new
<1>7. NewDoc(w) \in Doc
  <2>1. PICK c \in Doc : c = Absent
    BY AbsentIsDoc
  <2>2. PICK l \in Lines : l = w.lines
    BY <1>1
  <2>3. PICK p \in {"subscription", "override"} :
          p = IF w.event = "period" THEN "override" ELSE "subscription"
    OBVIOUS
  <2>4. "Draft" \in Status
    BY DEF Status
  <2>5. [c EXCEPT !.status = "Draft", !.lines = l, !.period = p] \in Doc
    BY <2>4 DEF Doc
  <2> QED BY <2>1, <2>2, <2>3, <2>5 DEF NewDoc
<1> QED BY <1>3, <1>4, <1>6, <1>7

LEMMA LinesOfStripe ==
  ASSUME NEW i \in Invoice
  PROVE  StripeLines(i) \in Lines
  BY DEF StripeLines, Lines

-----------------------------------------------------------------------------
(* The type invariant is inductive. *)
LEMMA InitTypeOK == Init => TypeOK
  BY AbsentIsDoc DEF Init, TypeOK, StripeStatus

LEMMA StripeKeepsType ==
  ASSUME TypeOK, NEW i \in Invoice, StripeStep(i)
  PROVE  TypeOK'
<1>1. ASSUME NEW from \in StripeStatus, NEW to \in StripeStatus,
             NEW events \in SUBSET Event, StripeMoves(i, from, to, events)
      PROVE  TypeOK'
  BY <1>1 DEF TypeOK, StripeMoves
<1> QED BY <1>1 DEF StripeStep, StripeStatus, Event

LEMMA WebhookKeepsType ==
  ASSUME TypeOK, NEW h \in Handler, NEW i \in Invoice, NEW e \in Event, Webhook(h, i, e)
  PROVE  TypeOK'
<1> DEFINE w == [stage |-> "read", event |-> e, inv |-> i,
                 copy |-> Absent, lines |-> "draft", qb |-> 0]
<1>1. w \in Work
  BY AbsentIsDoc DEF Work, Lines
<1> HIDE DEF w
<1>2. work' = [work EXCEPT ![h] = w]
  BY DEF Webhook, w
<1>3. work' \in [Handler -> Work \cup {NoWork}]
  BY <1>1, <1>2 DEF TypeOK
<1>4. sent' \in [Invoice -> SUBSET Event] /\ dups' \in 0 .. MaxDups
  BY DEF Webhook, TypeOK
<1> QED BY <1>3, <1>4 DEF Webhook, TypeOK

(* A handler that goes on with work, and leaves the rest, keeps the type. *)
LEMMA WorkKeepsType ==
  ASSUME TypeOK, NEW h \in Handler, NEW w \in Work \cup {NoWork},
         work' = [work EXCEPT ![h] = w]
  PROVE  work' \in [Handler -> Work \cup {NoWork}]
  BY DEF TypeOK

LEMMA EndKeepsType ==
  ASSUME TypeOK, NEW h \in Handler, Ends(h)
  PROVE  work' \in [Handler -> Work \cup {NoWork}]
  BY DEF TypeOK, Ends

LEMMA DocKeepsType ==
  ASSUME TypeOK, NEW i \in Invoice, NEW d \in Doc, doc' = [doc EXCEPT ![i] = d]
  PROVE  doc' \in [Invoice -> Doc]
  BY DEF TypeOK

LEMMA ReadKeepsType ==
  ASSUME TypeOK, NEW h \in Handler, Read(h)
  PROVE  TypeOK'
<1> DEFINE w == work[h]
           s == IF w.event \in {"finalized", "voided", "failed"} THEN "write" ELSE "fetch"
<1>1. w \in Work
  BY AtWork DEF Read
<1>2. doc[w.inv] \in Doc
  BY <1>1, WorkFields DEF TypeOK
<1>3. work' \in [Handler -> Work \cup {NoWork}]
  <2>1. CASE Proceeds(w.event, doc[w.inv])
    <3>1. work' = [work EXCEPT ![h] = [w EXCEPT !.copy = doc[w.inv], !.stage = s]]
      BY <2>1 DEF Read
    <3>2. PICK st \in {"read", "fetch", "write"} : st = s
      OBVIOUS
    <3>3. [w EXCEPT !.copy = doc[w.inv], !.stage = st] \in Work
      BY <1>1, <1>2 DEF Work
    <3> QED BY <3>1, <3>2, <3>3, WorkKeepsType
  <2>2. CASE ~Proceeds(w.event, doc[w.inv])
    BY <2>2, EndKeepsType DEF Read
  <2> QED BY <2>1, <2>2
<1> QED BY <1>3 DEF Read, TypeOK

LEMMA FetchKeepsType ==
  ASSUME TypeOK, NEW h \in Handler, Fetch(h)
  PROVE  TypeOK'
<1> DEFINE w == work[h]
<1>1. w \in Work
  BY AtWork DEF Fetch
<1>2. w.inv \in Invoice /\ StripeLines(w.inv) \in Lines
  BY <1>1, WorkFields, LinesOfStripe
<1>3. quickbooks[w.inv] + 1 \in Nat
  BY <1>2 DEF TypeOK
<1>4. PICK q \in Nat :
        work' = [work EXCEPT ![h] = [w EXCEPT !.stage = "write", !.qb = q, !.lines = StripeLines(w.inv)]]
  <2>1. CASE work' = [work EXCEPT ![h] = [w EXCEPT !.stage = "write", !.qb = quickbooks[w.inv] + 1,
                                                   !.lines = StripeLines(w.inv)]]
    BY <1>3, <2>1
  <2>2. CASE work' = [work EXCEPT ![h] = [w EXCEPT !.stage = "write", !.qb = 0,
                                                   !.lines = StripeLines(w.inv)]]
    BY <2>2, 0 \in Nat
  <2> QED BY <2>1, <2>2 DEF Fetch
<1>5. [w EXCEPT !.stage = "write", !.qb = q, !.lines = StripeLines(w.inv)] \in Work
  BY <1>1, <1>2 DEF Work
<1>6. work' \in [Handler -> Work \cup {NoWork}]
  BY <1>4, <1>5, WorkKeepsType
<1>7. quickbooks' \in [Invoice -> Nat]
  BY <1>2 DEF Fetch, TypeOK
<1>8. faults' \in 0 .. MaxFaults
  BY DEF Fetch, TypeOK
<1> QED BY <1>6, <1>7, <1>8 DEF Fetch, TypeOK

LEMMA CreateKeepsType ==
  ASSUME TypeOK, NEW h \in Handler, Create(h)
  PROVE  TypeOK'
<1> DEFINE w == work[h]
<1>1. w \in Work
  BY AtWork DEF Create
<1>2. w.inv \in Invoice /\ doc[w.inv] \in Doc
  BY <1>1, WorkFields DEF TypeOK
<1>3. NewDoc(w) \in Doc
  BY <1>1, <1>2, TRUE \in BOOLEAN, SavedIsDoc
<1>4. doc' \in [Invoice -> Doc]
  BY <1>2, <1>3, DocKeepsType DEF Create, TypeOK
<1>5. work' \in [Handler -> Work \cup {NoWork}]
  <2>1. CASE doc[w.inv].status = "ABSENT"
    BY <2>1, EndKeepsType DEF Create
  <2>2. CASE doc[w.inv].status # "ABSENT"
    <3>1. work' = [work EXCEPT ![h] = [w EXCEPT !.copy = doc[w.inv]]]
      BY <2>2 DEF Create
    <3>2. [w EXCEPT !.copy = doc[w.inv]] \in Work
      BY <1>1, <1>2 DEF Work
    <3> QED BY <3>1, <3>2, WorkKeepsType
  <2> QED BY <2>1, <2>2
<1> QED BY <1>4, <1>5 DEF Create, TypeOK

LEMMA WriteKeepsType ==
  ASSUME TypeOK, NEW h \in Handler,
         Update(h) \/ Mark(h) \/ CaptureError(h) \/ \E usage \in BOOLEAN : CapturePayment(h, usage)
  PROVE  TypeOK'
<1> DEFINE w == work[h]
<1>1. w \in Work
  BY AtWork DEF Update, Mark, CaptureError, CapturePayment
<1>2. w.inv \in Invoice /\ doc[w.inv] \in Doc
  BY <1>1, WorkFields DEF TypeOK
<1>3. ASSUME Update(h) PROVE doc' \in [Invoice -> Doc]
  <2>1. Updated(doc[w.inv], w) \in Doc
    BY <1>1, <1>2, TRUE \in BOOLEAN, SavedIsDoc
  <2> QED BY <1>2, <1>3, <2>1, DocKeepsType DEF Update, TypeOK
<1>4. ASSUME Mark(h) PROVE doc' \in [Invoice -> Doc]
  <2>1. PICK st \in Status : doc' = doc \/ doc' = [doc EXCEPT ![w.inv].status = st]
    BY <1>4, "Open" \in Status, "Void" \in Status DEF Mark, Status
  <2>2. [doc[w.inv] EXCEPT !.status = st] \in Doc
    BY <1>2 DEF Doc
  <2>3. doc' = doc \/ doc' = [doc EXCEPT ![w.inv] = [doc[w.inv] EXCEPT !.status = st]]
    BY <2>1
  <2> QED BY <1>2, <2>2, <2>3, DocKeepsType DEF TypeOK
<1>5. ASSUME CaptureError(h) PROVE doc' \in [Invoice -> Doc]
  <2>1. WithError(doc[w.inv], w.copy) \in Doc
    BY <1>1, <1>2, TRUE \in BOOLEAN, SavedIsDoc
  <2> QED BY <1>2, <1>5, <2>1, DocKeepsType DEF CaptureError
<1>6. ASSUME NEW usage \in BOOLEAN, CapturePayment(h, usage) PROVE doc' \in [Invoice -> Doc]
  <2>1. SavedPlain(doc[w.inv], AsPaid(w, usage)) \in Doc
    BY <1>1, <1>2, SavedIsDoc
  <2> QED BY <1>2, <1>6, <2>1, DocKeepsType DEF CapturePayment, TypeOK
<1>7. doc' \in [Invoice -> Doc]
  BY <1>3, <1>4, <1>5, <1>6
<1>8. Ends(h)
  BY DEF Update, Mark, CaptureError, CapturePayment
<1>9. UNCHANGED <<stripe, sent, quickbooks, dups, faults>>
  BY DEF Update, Mark, CaptureError, CapturePayment
<1> QED BY <1>7, <1>8, <1>9, EndKeepsType DEF TypeOK

LEMMA ThrowKeepsType ==
  ASSUME TypeOK, NEW h \in Handler, Throws(h)
  PROVE  TypeOK'
<1>1. faults' \in 0 .. MaxFaults
  BY DEF Throws, TypeOK
<1> QED BY <1>1, EndKeepsType DEF Throws, TypeOK

(* The type invariant holds in every behaviour: whatever is read, fetched   *)
(* and saved, a document is a document and a copy is one.                   *)
THEOREM TypeCorrect == Spec => []TypeOK
<1>1. TypeOK /\ [Next]_vars => TypeOK'
  <2> SUFFICES ASSUME TypeOK, [Next]_vars PROVE TypeOK'
    OBVIOUS
  <2>1. ASSUME NEW i \in Invoice, StripeStep(i) PROVE TypeOK'
    BY <2>1, StripeKeepsType
  <2>2. ASSUME NEW h \in Handler, NEW i \in Invoice, NEW e \in Event, Webhook(h, i, e) PROVE TypeOK'
    BY <2>2, WebhookKeepsType
  <2>3. ASSUME NEW h \in Handler, HandlerStep(h) PROVE TypeOK'
    BY <2>3, ReadKeepsType, FetchKeepsType, CreateKeepsType, WriteKeepsType DEF HandlerStep
  <2>4. ASSUME NEW h \in Handler, Throws(h) PROVE TypeOK'
    BY <2>4, ThrowKeepsType
  <2>5. CASE UNCHANGED vars
    BY <2>5 DEF vars, TypeOK
  <2> QED BY <2>1, <2>2, <2>3, <2>4, <2>5 DEF Next
<1> QED BY <1>1, InitTypeOK, PTL DEF Spec

-----------------------------------------------------------------------------
(* What a step does to the status of an invoice that left Draft. *)
LEMMA SavesAreNotDrafts ==
  ASSUME NEW d \in Doc, NEW w \in Work, NEW usage \in BOOLEAN, d.status \notin {"ABSENT", "Draft"}
  PROVE  /\ Updated(d, w).status = d.status
         /\ WithError(d, w.copy).status \in {d.status, "Open"}
         /\ SavedPlain(d, AsPaid(w, usage)).status \in {d.status, "Paid"}
<1>1. w.copy \in Doc
  BY WorkFields
<1>2. Updated(d, w).status = d.status
  BY DEF Updated, LinesSaved, Doc
<1>3. WithError(d, w.copy).status \in {d.status, "Open"}
  BY <1>1 DEF WithError, Doc
<1>4. SavedPlain(d, AsPaid(w, usage)).status \in {d.status, "Paid"}
  <2> DEFINE new == AsPaid(w, usage)
  <2>1. new \in Doc
    BY SavedIsDoc, AsPaidIsDoc
  <2>2. new.status = "Paid"
    BY <1>1 DEF AsPaid, Doc
  <2> HIDE DEF new
  <2>3. SavedPlain(d, new).status \in {d.status, "Paid"}
    BY <2>1, <2>2 DEF SavedPlain, Doc
  <2> QED BY <2>3 DEF new
<1> QED BY <1>2, <1>3, <1>4

(* An invoice that left Draft never looks editable again, however many      *)
(* handlers are at work on it and in whatever order its events come.        *)
THEOREM LeftDraftForGood == Spec => NeverBackToDraft
<1>1. ASSUME TypeOK, [Next]_vars, NEW i \in Invoice, ~Editable(i) PROVE ~Editable(i)'
  <2> DEFINE d == doc[i]
  <2>0. d \in Doc /\ d.status \notin {"ABSENT", "Draft"}
    BY <1>1 DEF TypeOK, Editable
  <2>1. CASE doc' = doc
    BY <1>1, <2>1 DEF Editable
  <2>2. ASSUME NEW h \in Handler, Create(h) PROVE ~Editable(i)'
    <3>1. work[h] \in Work
      BY <1>1, <2>2, AtWork DEF Create
    <3>2. work[h].inv \in Invoice
      BY <3>1, WorkFields
    <3>3. doc'[i] = doc[i]
      BY <1>1, <2>0, <2>2, <3>2 DEF Create, TypeOK
    <3> QED BY <2>0, <3>3 DEF Editable
  <2>3. ASSUME NEW h \in Handler,
               Update(h) \/ Mark(h) \/ CaptureError(h) \/ \E usage \in BOOLEAN : CapturePayment(h, usage)
        PROVE  ~Editable(i)'
    <3> DEFINE w == work[h]
    <3>1. w \in Work
      BY <1>1, <2>3, AtWork DEF Update, Mark, CaptureError, CapturePayment
    <3>2. w.inv \in Invoice
      BY <3>1, WorkFields
    <3>3. CASE w.inv # i
      <4>1. doc'[i] = doc[i]
        BY <1>1, <2>3, <3>2, <3>3 DEF Update, Mark, CaptureError, CapturePayment, TypeOK
      <4> QED BY <2>0, <4>1 DEF Editable
    <3>4. CASE w.inv = i
      <4>1. ASSUME Update(h) PROVE doc'[i].status = d.status
        BY <1>1, <2>0, <3>1, <3>4, <4>1, TRUE \in BOOLEAN, SavesAreNotDrafts DEF Update, TypeOK
      <4>2. ASSUME Mark(h) PROVE doc'[i].status \in {d.status, "Open", "Void"}
        BY <1>1, <2>0, <3>4, <4>2 DEF Mark, TypeOK, Doc
      <4>3. ASSUME CaptureError(h) PROVE doc'[i].status \in {d.status, "Open"}
        BY <1>1, <2>0, <3>1, <3>4, <4>3, TRUE \in BOOLEAN, SavesAreNotDrafts DEF CaptureError, TypeOK
      <4>4. ASSUME NEW usage \in BOOLEAN, CapturePayment(h, usage)
            PROVE  doc'[i].status \in {d.status, "Paid"}
        BY <1>1, <2>0, <3>1, <3>4, <4>4, SavesAreNotDrafts DEF CapturePayment, TypeOK
      <4>5. doc'[i].status \in {d.status, "Open", "Void", "Paid"}
        BY <2>3, <4>1, <4>2, <4>3, <4>4
      <4> QED BY <2>0, <4>5 DEF Editable
    <3> QED BY <3>3, <3>4
  <2>4. doc' = doc
          \/ \E h \in Handler : Create(h) \/ Update(h) \/ Mark(h) \/ CaptureError(h)
                                \/ \E usage \in BOOLEAN : CapturePayment(h, usage)
    BY <1>1 DEF Next, vars, StripeStep, StripeMoves, Webhook, HandlerStep, Read, Fetch, Throws
  <2> QED BY <2>1, <2>2, <2>3, <2>4
<1>2. TypeOK /\ [Next]_vars => [\A i \in Invoice : ~Editable(i) => ~Editable(i)']_vars
  BY <1>1
<1> QED BY <1>2, TypeCorrect, PTL DEF Spec, NeverBackToDraft

-----------------------------------------------------------------------------
(* Events about an invoice handled one after the other: Stripe waits for    *)
(* an event to be handled, or the webhook serves one request at a time.     *)
(* The two properties that follow are the ones a handler needs its own copy *)
(* to be the latest for; with two handlers at work on an invoice the later  *)
(* save is made over what the earlier one did.                              *)
Serially == InOrder \/ \E h \in Handler : Handler = {h}

Serial ==
  \A g, h \in Handler : ~Idle(g) /\ ~Idle(h) /\ work[g].inv = work[h].inv => g = h

(* What a handler has read is still what is stored. *)
Fresh ==
  \A h \in Handler : work[h].stage \in {"fetch", "write"} => work[h].copy = doc[work[h].inv]

(* No period is set on an invoice that does not exist. *)
AbsentPlain ==
  \A i \in Invoice : doc[i].status = "ABSENT" => doc[i].period = "subscription"

CopyInv == Serial /\ Fresh /\ AbsentPlain /\ PaidHasPayment

(* A step of a handler touches its own work and its own invoice, and it     *)
(* saves with its last step; till then it holds what it read, or what is    *)
(* stored now.                                                              *)
LEMMA Effects ==
  ASSUME TypeOK, NEW h \in Handler, HandlerStep(h) \/ Throws(h)
  PROVE  /\ ~Idle(h) /\ work[h] \in Work /\ work[h].inv \in Invoice /\ work[h].event \in Event
         /\ UNCHANGED <<stripe, sent, dups>>
         /\ \A g \in Handler \ {h} : work'[g] = work[g]
         /\ \A i \in Invoice \ {work[h].inv} : doc'[i] = doc[i]
         /\ ~Idle(h)' =>
              /\ doc' = doc
              /\ work'[h].inv = work[h].inv /\ work'[h].event = work[h].event
              /\ \/ work'[h].copy = doc[work[h].inv]
                 \/ work[h].stage \in {"fetch", "write"} /\ work'[h].copy = work[h].copy
<1> DEFINE w == work[h]
<1>1. ~Idle(h)
  BY DEF HandlerStep, Idle, Read, Fetch, Create, Update, Mark, CaptureError, CapturePayment, Throws
<1>2. w \in Work /\ w.inv \in Invoice /\ w.event \in Event
  BY <1>1, AtWork, WorkFields DEF Idle
<1>3. UNCHANGED <<stripe, sent, dups>>
  BY DEF HandlerStep, Read, Fetch, Create, Update, Mark, CaptureError, CapturePayment, Throws
<1>4. ASSUME Ends(h) PROVE Idle(h)' /\ \A g \in Handler \ {h} : work'[g] = work[g]
  BY <1>4 DEF Ends, Idle, NoWork, TypeOK
<1>5. CASE Read(h)
  <2> DEFINE s == IF w.event \in {"finalized", "voided", "failed"} THEN "write" ELSE "fetch"
  <2>1. CASE Ends(h)
    BY <1>1, <1>2, <1>3, <1>4, <1>5, <2>1 DEF Read
  <2>2. CASE work' = [work EXCEPT ![h] = [w EXCEPT !.copy = doc[w.inv], !.stage = s]]
    <3>1. work'[h].copy = doc[w.inv] /\ work'[h].inv = w.inv /\ work'[h].event = w.event
      BY <1>2, <2>2 DEF TypeOK, Work
    <3>2. \A g \in Handler \ {h} : work'[g] = work[g]
      BY <2>2 DEF TypeOK
    <3> QED BY <1>1, <1>2, <1>3, <1>5, <3>1, <3>2 DEF Read
  <2> QED BY <1>5, <2>1, <2>2 DEF Read
<1>6. CASE Fetch(h)
  <2>1. PICK q, l : work' = [work EXCEPT ![h] = [w EXCEPT !.stage = "write", !.qb = q, !.lines = l]]
    BY <1>6 DEF Fetch
  <2>2. work'[h].copy = w.copy /\ work'[h].inv = w.inv /\ work'[h].event = w.event
    BY <1>2, <2>1 DEF TypeOK, Work
  <2>3. \A g \in Handler \ {h} : work'[g] = work[g]
    BY <2>1 DEF TypeOK
  <2> QED BY <1>1, <1>2, <1>3, <1>6, <2>2, <2>3 DEF Fetch
<1>7. CASE Create(h)
  <2>1. CASE doc[w.inv].status = "ABSENT"
    BY <1>1, <1>2, <1>3, <1>4, <1>7, <2>1 DEF Create, TypeOK
  <2>2. CASE doc[w.inv].status # "ABSENT"
    <3>1. work' = [work EXCEPT ![h] = [w EXCEPT !.copy = doc[w.inv]]] /\ doc' = doc
      BY <1>7, <2>2 DEF Create
    <3>2. work'[h].copy = doc[w.inv] /\ work'[h].inv = w.inv /\ work'[h].event = w.event
      BY <1>2, <3>1 DEF TypeOK, Work
    <3>3. \A g \in Handler \ {h} : work'[g] = work[g]
      BY <3>1 DEF TypeOK
    <3> QED BY <1>1, <1>2, <1>3, <3>1, <3>2, <3>3
  <2> QED BY <2>1, <2>2
<1>8. CASE Update(h) \/ Mark(h) \/ CaptureError(h) \/ \E usage \in BOOLEAN : CapturePayment(h, usage)
  <2>1. \A i \in Invoice \ {w.inv} : doc'[i] = doc[i]
    BY <1>8 DEF Update, Mark, CaptureError, CapturePayment, TypeOK
  <2>2. Ends(h)
    BY <1>8 DEF Update, Mark, CaptureError, CapturePayment
  <2> QED BY <1>1, <1>2, <1>3, <1>4, <2>1, <2>2
<1>9. CASE Throws(h)
  BY <1>1, <1>2, <1>3, <1>4, <1>9 DEF Throws
<1> QED BY <1>5, <1>6, <1>7, <1>8, <1>9 DEF HandlerStep

(* The webhook puts a handler to work on an invoice and does nothing else. *)
LEMMA WebhookEffects ==
  ASSUME TypeOK, NEW h \in Handler, NEW i \in Invoice, NEW e \in Event, Webhook(h, i, e)
  PROVE  /\ UNCHANGED <<stripe, doc, quickbooks, faults>>
         /\ work'[h].stage = "read" /\ work'[h].inv = i /\ work'[h].event = e
         /\ \A g \in Handler \ {h} : work'[g] = work[g]
  BY DEF Webhook, TypeOK

(* Every step is Stripe's, the webhook's or a handler's. *)
LEMMA Steps ==
  ASSUME Next
  PROVE  \/ \E i \in Invoice : StripeStep(i)
         \/ \E h \in Handler, i \in Invoice, e \in Event : Webhook(h, i, e)
         \/ \E h \in Handler : HandlerStep(h) \/ Throws(h)
  BY DEF Next

LEMMA StripeEffects ==
  ASSUME NEW i \in Invoice, StripeStep(i)
  PROVE  UNCHANGED <<doc, quickbooks, work, dups, faults>>
  BY DEF StripeStep, StripeMoves

(* Two handlers are never at work on the same invoice. *)
LEMMA SerialKept ==
  ASSUME TypeOK, Serially, Serial, Next
  PROVE  Serial'
<1>1. CASE \E h \in Handler : Handler = {h}
  BY <1>1 DEF Serial
<1>2. CASE InOrder
  <2>1. ASSUME NEW h \in Handler, NEW i \in Invoice, NEW e \in Event, Webhook(h, i, e) PROVE Serial'
    <3>1. \A g \in Handler : ~Idle(g) => work[g].inv # i
      BY <1>2, <2>1 DEF Webhook, Busy
    <3>2. \A g \in Handler : g # h => work'[g] = work[g]
      BY <2>1, WebhookEffects
    <3>3. work'[h].inv = i
      BY <2>1, WebhookEffects
    <3> QED BY <3>1, <3>2, <3>3 DEF Serial, Idle
  <2>2. ASSUME NEW h \in Handler, HandlerStep(h) \/ Throws(h) PROVE Serial'
    <3>1. ~Idle(h) /\ \A g \in Handler : g # h => work'[g] = work[g]
      BY <2>2, Effects
    <3>2. ~Idle(h)' => work'[h].inv = work[h].inv
      BY <2>2, Effects
    <3> QED BY <3>1, <3>2 DEF Serial, Idle
  <2>3. ASSUME NEW i \in Invoice, StripeStep(i) PROVE Serial'
    BY <2>3, StripeEffects DEF Serial, Idle
  <2> QED BY <2>1, <2>2, <2>3, Steps
<1> QED BY <1>1, <1>2 DEF Serially

(* What a handler has read is what is stored, until it saves itself. *)
LEMMA FreshKept ==
  ASSUME TypeOK, Serial, Fresh, Next
  PROVE  Fresh'
<1>1. ASSUME NEW h \in Handler, NEW i \in Invoice, NEW e \in Event, Webhook(h, i, e) PROVE Fresh'
  <2>1. doc' = doc /\ work'[h].stage = "read" /\ \A g \in Handler : g # h => work'[g] = work[g]
    BY <1>1, WebhookEffects
  <2> QED BY <2>1 DEF Fresh
<1>2. ASSUME NEW h \in Handler, HandlerStep(h) \/ Throws(h) PROVE Fresh'
  <2> DEFINE i == work[h].inv
  <2>1. ~Idle(h) /\ \A g \in Handler : g # h => work'[g] = work[g]
    BY <1>2, Effects
  <2>2. \A j \in Invoice : j # i => doc'[j] = doc[j]
    BY <1>2, Effects
  <2>3. ~Idle(h)' => /\ doc' = doc /\ work'[h].inv = i
                     /\ \/ work'[h].copy = doc[i]
                        \/ work[h].stage \in {"fetch", "write"} /\ work'[h].copy = work[h].copy
    BY <1>2, Effects
  <2>4. ASSUME NEW g \in Handler, work'[g].stage \in {"fetch", "write"}
        PROVE  work'[g].copy = doc'[work'[g].inv]
    <3>1. CASE g = h
      BY <2>3, <2>4, <3>1 DEF Fresh, Idle
    <3>2. CASE g # h
      <4>1. work'[g] = work[g] /\ work[g].stage \in {"fetch", "write"}
        BY <2>1, <2>4, <3>2
      <4>2. work[g].inv \in Invoice /\ work[g].inv # i
        BY <2>1, <3>2, <4>1, AtWork, WorkFields DEF Serial, Idle
      <4> QED BY <2>2, <4>1, <4>2 DEF Fresh
    <3> QED BY <3>1, <3>2
  <2> QED BY <2>4 DEF Fresh
<1>3. ASSUME NEW i \in Invoice, StripeStep(i) PROVE Fresh'
  BY <1>3, StripeEffects DEF Fresh
<1> QED BY <1>1, <1>2, <1>3, Steps

(* What a handler of event e makes of the document d it has read: n. *)
Handled(e, d, n) ==
  \/ EnsuresCreation(e) /\ d.status = "ABSENT" /\ n.status = "Draft"
  \/ /\ EnsuresCreation(e) /\ d.status # "ABSENT"
     /\ n.status = d.status /\ n.payment = d.payment
     /\ d.period = "override" => n.period = "override"
  \/ e = "finalized" /\ n.status = "Open" /\ n.period = d.period
  \/ e = "voided" /\ n.status = "Void" /\ n.period = d.period
  \/ e = "failed" /\ n.status = "Open" /\ n.period = d.period
  \/ e = "succeeded" /\ n.status = "Paid" /\ n.payment = "paid" /\ n.period = d.period

(* A save made over the document that was read says what the event says. *)
LEMMA UpdateOfCopy ==
  ASSUME NEW d \in Doc, NEW w \in Work, w.copy = d, EnsuresCreation(w.event), d.status # "ABSENT"
  PROVE  Handled(w.event, d, Updated(d, w))
<1> DEFINE saved == LinesSaved(d, d, w.lines)
<1>1. /\ saved.status = d.status /\ saved.payment = d.payment /\ saved.period = d.period
  BY DEF LinesSaved, Doc
<1>2. saved \in Doc
  <2>1. PICK k \in Nat : k = d.v + 1
    BY DEF Doc
  <2>2. PICK l \in Lines : l = w.lines
    BY WorkFields
  <2>3. [d EXCEPT !.lines = l, !.v = k] \in Doc
    BY DEF Doc
  <2> QED BY <2>1, <2>2, <2>3 DEF LinesSaved
<1> HIDE DEF saved
<1> DEFINE n == Updated(d, w)
<1>3. n = saved \/ n = [saved EXCEPT !.period = "override"]
  BY DEF Updated, saved
<1>4. n = saved => n.status = d.status /\ n.payment = d.payment /\ n.period = d.period
  BY <1>1
<1>5. n = [saved EXCEPT !.period = "override"]
        => n.status = d.status /\ n.payment = d.payment /\ n.period = "override"
  BY <1>1, <1>2 DEF Doc
<1>6. n.status = d.status /\ n.payment = d.payment /\ n.period \in {d.period, "override"}
  BY <1>3, <1>4, <1>5
<1> QED BY <1>6 DEF Handled

LEMMA ErrorOfCopy ==
  ASSUME NEW d \in Doc
  PROVE  Handled("failed", d, WithError(d, d))
<1>1. PICK st \in Status : st = IF d.status = "Open" THEN d.status ELSE "Open"
  BY DEF Status
<1>2. WithError(d, d) = [d EXCEPT !.status = st, !.payment = "error"]
  BY <1>1 DEF WithError
<1>3. WithError(d, d).status = "Open" /\ WithError(d, d).period = d.period
  BY <1>1, <1>2 DEF Doc
<1> QED BY <1>3 DEF Handled

LEMMA PaymentOfCopy ==
  ASSUME NEW d \in Doc, NEW w \in Work, w.copy = d, NEW usage \in BOOLEAN
  PROVE  Handled("succeeded", d, SavedPlain(d, AsPaid(w, usage)))
<1> DEFINE new == AsPaid(w, usage)
<1>1. new \in Doc
  BY AsPaidIsDoc
<1>2. new.status = "Paid" /\ new.payment = "paid" /\ new.period = d.period /\ new.v = d.v
  BY DEF AsPaid, Doc
<1> HIDE DEF new
<1>3. SavedPlain(d, new) = new \/ SavedPlain(d, new) = [new EXCEPT !.v = @ + 1]
  BY <1>2 DEF SavedPlain, Versioned
<1>4. /\ SavedPlain(d, new).status = "Paid" /\ SavedPlain(d, new).payment = "paid"
      /\ SavedPlain(d, new).period = d.period
  BY <1>1, <1>2, <1>3 DEF Doc
<1> QED BY <1>4 DEF Handled, new

LEMMA NewIsDraft ==
  ASSUME NEW w \in Work
  PROVE  NewDoc(w).status = "Draft"
  BY DEF NewDoc, Absent

(* A handler that throws, goes on or has nothing to do leaves the document; *)
(* the others save what their event says.                                   *)
LEMMA Saves ==
  ASSUME TypeOK, CopyInv, NEW h \in Handler, HandlerStep(h) \/ Throws(h)
  PROVE  LET w == work[h]  d == doc[w.inv]  n == doc'[w.inv] IN
         \/ n = d /\ (Throws(h) \/ ~Idle(h)' \/ ~Proceeds(w.event, d))
         \/ Handled(w.event, d, n)
<1> DEFINE w == work[h]
           d == doc[w.inv]
           n == doc'[w.inv]
<1>1. w \in Work /\ w.inv \in Invoice /\ d \in Doc
  BY Effects DEF TypeOK
<1>2. w.stage = "write" => w.copy = d
  BY DEF CopyInv, Fresh
<1>3. CASE Read(h)
  <2>1. CASE Proceeds(w.event, d)
    <3>1. ~Idle(h)'
      BY <1>1, <1>3, <2>1 DEF Read, Idle, TypeOK, Work
    <3> QED BY <1>3, <3>1 DEF Read
  <2>2. CASE ~Proceeds(w.event, d)
    BY <1>3, <2>2 DEF Read
  <2> QED BY <2>1, <2>2
<1>4. CASE Fetch(h)
  <2>1. PICK q, l : work' = [work EXCEPT ![h] = [w EXCEPT !.stage = "write", !.qb = q, !.lines = l]]
    BY <1>4 DEF Fetch
  <2>2. ~Idle(h)'
    BY <1>1, <2>1 DEF Idle, TypeOK, Work
  <2> QED BY <1>4, <2>2 DEF Fetch
<1>5. CASE Create(h)
  <2>1. d.status = "ABSENT"
    BY <1>2, <1>5 DEF Create
  <2>2. n = NewDoc(w)
    BY <1>1, <1>5, <2>1 DEF Create, TypeOK
  <2> QED BY <1>1, <1>5, <2>1, <2>2, NewIsDraft DEF Create, Handled
<1>6. CASE Update(h)
  <2>1. w.copy = d /\ EnsuresCreation(w.event) /\ d.status # "ABSENT"
    BY <1>2, <1>6 DEF Update
  <2>2. Versioned(d, w.copy)
    BY <2>1 DEF Versioned
  <2>3. n = Updated(d, w)
    BY <1>1, <1>6, <2>2 DEF Update, TypeOK
  <2> QED BY <1>1, <2>1, <2>3, UpdateOfCopy
<1>7. CASE Mark(h)
  <2>1. w.copy = d /\ w.event \in {"finalized", "voided"}
    BY <1>2, <1>7 DEF Mark
  <2>2. PICK new \in {"Open", "Void"} : new = IF w.event = "finalized" THEN "Open" ELSE "Void"
    OBVIOUS
  <2>3. n = IF d.status = new THEN d ELSE [d EXCEPT !.status = new]
    BY <1>1, <1>7, <2>1, <2>2 DEF Mark, TypeOK
  <2>4. n.status = new /\ n.period = d.period
    BY <1>1, <2>3 DEF Doc
  <2> QED BY <2>1, <2>2, <2>4 DEF Handled
<1>8. CASE CaptureError(h)
  <2>1. w.copy = d /\ w.event = "failed" /\ n = WithError(d, d)
    BY <1>1, <1>2, <1>8 DEF CaptureError, TypeOK
  <2> QED BY <1>1, <2>1, ErrorOfCopy
<1>9. ASSUME NEW usage \in BOOLEAN, CapturePayment(h, usage) PROVE Handled(w.event, d, n)
  <2>1. w.copy = d /\ w.event = "succeeded"
    BY <1>2, <1>9 DEF CapturePayment
  <2>2. CASE NotPaidYet(d)
    <3>1. n = SavedPlain(d, AsPaid(w, usage))
      BY <1>1, <1>9, <2>1, <2>2 DEF CapturePayment, TypeOK
    <3> QED BY <1>1, <2>1, <3>1, PaymentOfCopy
  <2>3. CASE ~NotPaidYet(d)
    <3>1. n = d /\ d.status = "Paid"
      BY <1>9, <2>1, <2>3 DEF CapturePayment, NotPaidYet
    <3>2. d.payment = "paid"
      BY <1>1, <3>1 DEF CopyInv, PaidHasPayment
    <3> QED BY <2>1, <3>1, <3>2 DEF Handled
  <2> QED BY <2>2, <2>3
<1>10. CASE Throws(h)
  BY <1>10 DEF Throws
<1> QED BY <1>3, <1>4, <1>5, <1>6, <1>7, <1>8, <1>9, <1>10 DEF HandlerStep

LEMMA CopyInvInit == Init => CopyInv
  BY DEF Init, CopyInv, Serial, Fresh, AbsentPlain, PaidHasPayment, Absent, NoWork, Idle

(* What Handled says of one document keeps the two parts about documents. *)
LEMMA HandledKeeps ==
  ASSUME NEW e \in Event, NEW d \in Doc, NEW n, Handled(e, d, n),
         d.status = "ABSENT" => d.period = "subscription",
         d.status = "Paid" => d.payment = "paid"
  PROVE  /\ n.status = "ABSENT" => n.period = "subscription"
         /\ n.status = "Paid" => n.payment = "paid"
         /\ d.period = "override" => n.period = "override"
  BY DEF Handled

LEMMA DocumentsKept ==
  ASSUME TypeOK, CopyInv, Next, NEW i \in Invoice
  PROVE  /\ doc'[i].status = "ABSENT" => doc'[i].period = "subscription"
         /\ doc'[i].status = "Paid" => doc'[i].payment = "paid"
         /\ doc[i].period = "override" => doc'[i].period = "override"
<1>1. /\ doc[i] \in Doc
      /\ doc[i].status = "ABSENT" => doc[i].period = "subscription"
      /\ doc[i].status = "Paid" => doc[i].payment = "paid"
  BY DEF CopyInv, AbsentPlain, PaidHasPayment, TypeOK
<1>2. CASE doc'[i] = doc[i]
  BY <1>1, <1>2
<1>3. ASSUME NEW h \in Handler, HandlerStep(h) \/ Throws(h), doc'[i] # doc[i]
      PROVE  Handled(work[h].event, doc[i], doc'[i]) /\ work[h].event \in Event
  <2>1. work[h].inv = i /\ work[h].event \in Event
    BY <1>3, Effects
  <2> QED BY <1>3, <2>1, Saves
<1>4. ASSUME NEW h \in Handler, HandlerStep(h) \/ Throws(h), doc'[i] # doc[i]
      PROVE  /\ doc'[i].status = "ABSENT" => doc'[i].period = "subscription"
             /\ doc'[i].status = "Paid" => doc'[i].payment = "paid"
             /\ doc[i].period = "override" => doc'[i].period = "override"
  BY <1>1, <1>3, <1>4, HandledKeeps
<1>5. doc' = doc \/ \E h \in Handler : HandlerStep(h) \/ Throws(h)
  BY Steps, StripeEffects DEF Webhook
<1> QED BY <1>2, <1>4, <1>5

LEMMA CopyInvStep ==
  ASSUME Serially, TypeOK, CopyInv, [Next]_vars
  PROVE  CopyInv'
<1>1. CASE Next
  <2>1. Serial'
    BY <1>1, SerialKept DEF CopyInv
  <2>2. Fresh'
    BY <1>1, FreshKept DEF CopyInv
  <2>3. AbsentPlain'
    BY <1>1, DocumentsKept DEF AbsentPlain
  <2>4. PaidHasPayment'
    BY <1>1, DocumentsKept DEF PaidHasPayment
  <2> QED BY <2>1, <2>2, <2>3, <2>4 DEF CopyInv
<1>2. CASE UNCHANGED vars
  BY <1>2 DEF vars, CopyInv, Serial, Fresh, AbsentPlain, PaidHasPayment, Idle
<1> QED BY <1>1, <1>2

LEMMA CopyInvAlways ==
  ASSUME Serially
  PROVE  Spec => [](TypeOK /\ CopyInv)
<1>1. CopyInv /\ TypeOK /\ [Next]_vars => CopyInv'
  BY CopyInvStep
<1> QED BY <1>1, CopyInvInit, TypeCorrect, PTL DEF Spec

(* While the events about an invoice are handled one after the other, the   *)
(* payment of a Paid invoice is the money received, whatever the order of   *)
(* the events, however often they are delivered and whatever fails.         *)
THEOREM PaidIsPaid == ASSUME Serially PROVE Spec => []PaidHasPayment
<1>1. TypeOK /\ CopyInv => PaidHasPayment
  BY DEF CopyInv
<1> QED BY <1>1, CopyInvAlways, PTL

(* Likewise the metered usage period set when a cycle began stays set.      *)
THEOREM OverrideForGood == ASSUME Serially PROVE Spec => PeriodStaysOverridden
<1>1. TypeOK /\ CopyInv /\ [Next]_vars
        => [\A i \in Invoice : doc[i].period = "override" => doc'[i].period = "override"]_vars
  BY DocumentsKept
<1> QED BY <1>1, CopyInvAlways, PTL DEF Spec, PeriodStaysOverridden

-----------------------------------------------------------------------------
(* Events sent and handled in order, each once, and no call that fails: the *)
(* assumptions of the run InvoiceInOrder.                                   *)
(* What is still to be handled of an event, and what it finds: Stripe sends *)
(* nothing more about an invoice meanwhile, so that its status is the one   *)
(* the event is about, and the document is one event behind.                *)
Expected(s, e, st) ==
  \/ e \in {"created", "period"} /\ s = "draft" /\ st \in {"ABSENT", "Draft"}
  \/ e = "finalized" /\ s = "open" /\ st = "Draft"
  \/ e = "failed" /\ s = "open" /\ st = "Open"
  \/ e = "succeeded" /\ s = "paid" /\ st = "Open"
  \/ e = "voided" /\ s = "void" /\ st = "Open"

SentExpected ==
  \A i \in Invoice : \A e \in sent[i] : Expected(stripe[i], e, doc[i].status)

WorkExpected ==
  \A h \in Handler : ~Idle(h) =>
    LET w == work[h] IN
    w.event \notin sent[w.inv] /\ Expected(stripe[w.inv], w.event, doc[w.inv].status)

MirrorInv == SentExpected /\ WorkExpected /\ Synchronised

LEMMA MirrorInvInit == Init => MirrorInv
  BY DEF Init, MirrorInv, SentExpected, WorkExpected, Synchronised, Mirror, Idle, NoWork, Absent

(* An expected event finds what it needs, and handled it leaves the invoice *)
(* as Stripe shows it: the document is no longer behind.                    *)
LEMMA ExpectedHandled ==
  ASSUME NEW s \in StripeStatus, NEW e \in Event, NEW d \in Doc, Expected(s, e, d.status)
  PROVE  /\ Proceeds(e, d)
         /\ \A n : Handled(e, d, n) => n.status = Mirror(s)
  BY DEF Expected, Proceeds, Handled, EnsuresCreation, Mirror, StripeStatus, Event

(* What a handled event leaves to expect of another one that waits.         *)
LEMMA StillExpected ==
  ASSUME NEW s \in StripeStatus, NEW e \in Event, NEW f \in Event, NEW st \in Status,
         Expected(s, e, st), Expected(s, f, st), e # f
  PROVE  Expected(s, f, Mirror(s))
  BY DEF Expected, Mirror, StripeStatus, Event

LEMMA StripeKeepsMirror ==
  ASSUME TypeOK, InOrder, MirrorInv, NEW i \in Invoice, StripeStep(i)
  PROVE  MirrorInv'
<1>1. PICK from \in StripeStatus, to \in StripeStatus, events \in SUBSET Event :
        /\ StripeMoves(i, from, to, events)
        /\ \A e \in events : Expected(to, e, Mirror(from))
        /\ events # {}
  BY DEF StripeStep, StripeStatus, Event, Expected, Mirror
<1>2. /\ stripe[i] = from /\ sent[i] = {} /\ ~Busy(i)
      /\ UNCHANGED <<doc, work>>
      /\ stripe'[i] = to /\ sent'[i] = events
      /\ \A j \in Invoice : j # i => stripe'[j] = stripe[j] /\ sent'[j] = sent[j]
  BY <1>1 DEF StripeMoves, TypeOK
<1>3. doc[i].status = Mirror(from)
  BY <1>2 DEF MirrorInv, Synchronised
<1>4. SentExpected'
  BY <1>1, <1>2, <1>3 DEF MirrorInv, SentExpected
<1>5. WorkExpected'
  <2> SUFFICES ASSUME NEW h \in Handler, ~Idle(h)
               PROVE  LET w == work[h] IN
                      w.event \notin sent'[w.inv] /\ Expected(stripe'[w.inv], w.event, doc'[w.inv].status)
    BY <1>2 DEF WorkExpected, Idle
  <2>1. work[h].inv \in Invoice /\ work[h].inv # i
    BY <1>2, AtWork, WorkFields DEF Busy, Idle
  <2> QED BY <1>2, <2>1 DEF MirrorInv, WorkExpected
<1>6. Synchronised'
  BY <1>1, <1>2 DEF MirrorInv, Synchronised, Busy, Idle
<1> QED BY <1>4, <1>5, <1>6 DEF MirrorInv

LEMMA WebhookKeepsMirror ==
  ASSUME TypeOK, InOrder, MaxDups = 0, MirrorInv,
         NEW h \in Handler, NEW i \in Invoice, NEW e \in Event, Webhook(h, i, e)
  PROVE  MirrorInv'
<1>1. /\ UNCHANGED <<stripe, doc>>
      /\ work'[h].stage = "read" /\ work'[h].inv = i /\ work'[h].event = e
      /\ \A g \in Handler : g # h => work'[g] = work[g]
  BY WebhookEffects
<1>2. sent' = [sent EXCEPT ![i] = @ \ {e}]
  <2>1. ~(dups < MaxDups)
    BY DEF TypeOK
  <2> QED BY <2>1 DEF Webhook
<1>3. e \in sent[i] /\ Idle(h) /\ ~Busy(i)
  BY DEF Webhook
<1>4. sent'[i] = sent[i] \ {e} /\ \A j \in Invoice : j # i => sent'[j] = sent[j]
  BY <1>2 DEF TypeOK
<1>5. SentExpected'
  BY <1>1, <1>4 DEF MirrorInv, SentExpected
<1>6. WorkExpected'
  <2> SUFFICES ASSUME NEW g \in Handler, ~Idle(g)'
               PROVE  LET w == work'[g] IN
                      w.event \notin sent'[w.inv] /\ Expected(stripe[w.inv], w.event, doc[w.inv].status)
    BY <1>1 DEF WorkExpected
  <2>1. CASE g = h
    BY <1>1, <1>3, <1>4, <2>1 DEF MirrorInv, SentExpected
  <2>2. CASE g # h
    <3>1. work'[g] = work[g] /\ ~Idle(g)
      BY <1>1, <2>2 DEF Idle
    <3>2. work[g].inv \in Invoice /\ work[g].inv # i
      BY <1>3, <3>1, AtWork, WorkFields DEF Busy, Idle
    <3> QED BY <1>4, <3>1, <3>2 DEF MirrorInv, WorkExpected
  <2> QED BY <2>1, <2>2
<1>7. Synchronised'
  <2> SUFFICES ASSUME NEW j \in Invoice, sent'[j] = {}, ~Busy(j)' PROVE doc[j].status = Mirror(stripe[j])
    BY <1>1 DEF Synchronised
  <2>1. j # i
    BY <1>1 DEF Busy, Idle
  <2>2. ~Busy(j)
    <3>1. \A g \in Handler : g # h => ~(~Idle(g) /\ work[g].inv = j)
      BY <1>1 DEF Busy, Idle
    <3> QED BY <1>3, <3>1 DEF Busy
  <2> QED BY <1>4, <2>1, <2>2 DEF MirrorInv, Synchronised
<1> QED BY <1>5, <1>6, <1>7 DEF MirrorInv

LEMMA HandlerKeepsMirror ==
  ASSUME TypeOK, MaxFaults = 0, CopyInv, MirrorInv, NEW h \in Handler, HandlerStep(h) \/ Throws(h)
  PROVE  MirrorInv'
<1>1. PICK i \in Invoice : i = work[h].inv
  BY Effects
<1>2. PICK e \in Event : e = work[h].event
  BY Effects
<1>3. /\ ~Idle(h) /\ UNCHANGED <<stripe, sent>>
      /\ \A g \in Handler : g # h => work'[g] = work[g]
      /\ \A j \in Invoice : j # i => doc'[j] = doc[j]
      /\ ~Idle(h)' => doc' = doc /\ work'[h].inv = i /\ work'[h].event = e
  BY <1>1, <1>2, Effects
<1>4. /\ doc[i] \in Doc /\ stripe[i] \in StripeStatus
      /\ e \notin sent[i] /\ Expected(stripe[i], e, doc[i].status)
  BY <1>1, <1>2, <1>3 DEF TypeOK, MirrorInv, WorkExpected
<1>5. ~Throws(h)
  BY DEF Throws, TypeOK
<1>6. \A g \in Handler : g # h /\ ~Idle(g) => work[g].inv \in Invoice /\ work[g].inv # i
  BY <1>1, <1>3, AtWork, WorkFields DEF CopyInv, Serial, Idle
<1>7. CASE ~Idle(h)'
  <2>1. doc' = doc
    BY <1>3, <1>7
  <2>2. \A g \in Handler : Idle(g)' = Idle(g)
    BY <1>3, <1>7 DEF Idle
  <2>3. \A g \in Handler : ~Idle(g) => work'[g].inv = work[g].inv /\ work'[g].event = work[g].event
    BY <1>1, <1>2, <1>3, <1>7
  <2>4. SentExpected'
    BY <1>3, <2>1 DEF MirrorInv, SentExpected
  <2>5. WorkExpected'
    BY <1>3, <2>1, <2>2, <2>3 DEF MirrorInv, WorkExpected
  <2>6. Synchronised'
    BY <1>3, <2>1, <2>2, <2>3 DEF MirrorInv, Synchronised, Busy
  <2> QED BY <2>4, <2>5, <2>6 DEF MirrorInv
<1>8. CASE Idle(h)'
  <2>1. Handled(e, doc[i], doc'[i])
    <3>1. Proceeds(e, doc[i])
      BY <1>4, ExpectedHandled
    <3> QED BY <1>1, <1>2, <1>5, <1>8, <3>1, Saves
  <2>2. doc'[i].status = Mirror(stripe[i])
    BY <1>4, <2>1, ExpectedHandled
  <2>3. SentExpected'
    <3>1. ASSUME NEW f \in sent[i] PROVE Expected(stripe[i], f, doc'[i].status)
      <4>1. f \in Event /\ f # e /\ Expected(stripe[i], f, doc[i].status)
        BY <1>4 DEF TypeOK, MirrorInv, SentExpected
      <4>2. doc[i].status \in Status
        BY <1>4 DEF Doc
      <4> QED BY <1>4, <2>2, <4>1, <4>2, StillExpected
    <3> QED BY <1>3, <3>1 DEF MirrorInv, SentExpected
  <2>4. WorkExpected'
    <3> SUFFICES ASSUME NEW g \in Handler, ~Idle(g)'
                 PROVE  LET w == work'[g] IN
                        w.event \notin sent[w.inv] /\ Expected(stripe[w.inv], w.event, doc'[w.inv].status)
      BY <1>3 DEF WorkExpected
    <3>1. g # h /\ work'[g] = work[g] /\ ~Idle(g)
      BY <1>3, <1>8 DEF Idle
    <3>2. work[g].inv \in Invoice /\ work[g].inv # i
      BY <1>6, <3>1
    <3> QED BY <1>3, <3>1, <3>2 DEF MirrorInv, WorkExpected
  <2>5. Synchronised'
    <3> SUFFICES ASSUME NEW j \in Invoice, sent[j] = {}, ~Busy(j)' PROVE doc'[j].status = Mirror(stripe[j])
      BY <1>3 DEF Synchronised
    <3>1. CASE j = i
      BY <2>2, <3>1
    <3>2. CASE j # i
      <4>1. ~Busy(j)
        BY <1>1, <1>3, <3>2 DEF Busy, Idle
      <4> QED BY <1>3, <3>2, <4>1 DEF MirrorInv, Synchronised
    <3> QED BY <3>1, <3>2
  <2> QED BY <2>3, <2>4, <2>5 DEF MirrorInv
<1> QED BY <1>7, <1>8

(* When every event is handled the invoice shows what Stripe says of it,    *)
(* for any number of invoices and handlers: what is needed is that Stripe   *)
(* waits for an event to be handled, that none is delivered twice and that  *)
(* no handler fails, as nothing repeats what it left out.                   *)
THEOREM InStep ==
  ASSUME InOrder, MaxDups = 0, MaxFaults = 0
  PROVE  Spec => []Synchronised
<1>1. Spec => [](TypeOK /\ CopyInv)
  BY CopyInvAlways DEF Serially
<1>2. TypeOK /\ CopyInv /\ MirrorInv /\ [Next]_vars => MirrorInv'
  <2>1. ASSUME TypeOK, CopyInv, MirrorInv, Next PROVE MirrorInv'
    BY <2>1, Steps, StripeKeepsMirror, WebhookKeepsMirror, HandlerKeepsMirror
  <2>2. ASSUME MirrorInv, UNCHANGED vars PROVE MirrorInv'
    BY <2>2 DEF vars, MirrorInv, SentExpected, WorkExpected, Synchronised, Busy, Idle
  <2> QED BY <2>1, <2>2
<1>3. MirrorInv => Synchronised
  BY DEF MirrorInv
<1> QED BY <1>1, <1>2, <1>3, MirrorInvInit, PTL DEF Spec
=============================================================================
