-------------------------- MODULE CanonicalInvoice --------------------------
(***************************************************************************)
(* An invoice that can be paid on two rails: over lightning by one of the  *)
(* bolt11s generated for it (LightningInvoiceService), and on the chain    *)
(* (BitcoinInvoiceService).  The checkout page polls its status, the       *)
(* merchant may cancel it, and an hourly task enters whatever arrived at   *)
(* the tenant's node.  Requests and tasks interleave at every access to    *)
(* the database and to LND.                                                *)
(***************************************************************************)
EXTENDS Naturals

CONSTANTS
  Bolt,      (* the bolt11s generated for the invoice                       *)
  NoBolt,
  Request,   (* requests under way: polls and cancelations                  *)
  Task       (* refreshes under way                                         *)

ASSUME CanonicalInvoiceAssumption == NoBolt \notin Bolt

VARIABLES
  off,       (* the lightning invoice: its status and settledPayreq         *)
  quotes,    (* the bolt11s that have a document in lightningquotes         *)
  extra,     (* the bolt11s entered as an invoice of their own              *)
  lnd,       (* lnd[b]: the state of b at the tenant's node                 *)
  making,    (* generated at the node, the quote not stored yet             *)
  on,        (* the on-chain invoice: its status, and has it a transaction? *)
  onQuote,   (* its quote in bitcoinquotes: none, being made, or stored     *)
  txn,       (* the transaction that pays to its address                    *)
  onExtra,   (* the transaction has an invoice document of its own          *)
  logged,    (* the transaction is in bitcointransactions                   *)
  request,   (* request[r]: what the request does next and has read         *)
  refresh    (* refresh[t]: the same of refreshInvoices                     *)

lightning == <<off, quotes, extra>>
atNode == <<lnd, making>>
onchain == <<on, onQuote, txn, onExtra, logged>>
vars == <<lightning, atNode, onchain, request, refresh>>

-----------------------------------------------------------------------------
Status == {"none", "PENDING", "PAID", "CANCELED"}
TxnStatus == {"none", "SUBMITTED", "MINED"}

(* What a poll makes of the status it has seen, or of an error.             *)
Seen == {"PAID", "CANCELED", "null"}
FinalRaw(status) == status     \* mutant of Final
Final(status) == IF status \in Seen THEN status ELSE "null"

Idle == [step |-> "idle", off |-> "null", on |-> "null", todo |-> {}]
Rest == [step |-> "idle", todo |-> {}, bolt |-> NoBolt, mine |-> FALSE]

Init ==
  /\ off = [status |-> "none", settled |-> NoBolt]
  /\ quotes = {} /\ extra = {}
  /\ lnd = [b \in Bolt |-> "none"]
  /\ making = {}
  /\ on = [status |-> "none", paid |-> FALSE]
  /\ onQuote = "none" /\ txn = "none" /\ onExtra = FALSE /\ logged = FALSE
  /\ request = [r \in Request |-> Idle]
  /\ refresh = [t \in Task |-> Rest]

At(r, step) == request[r].step = step
Goes(r, step) == request' = [request EXCEPT ![r].step = step]
Starts(r, step) == request' = [request EXCEPT ![r] = [Idle EXCEPT !.step = step]]
Ends(r) == Starts(r, "idle")

-----------------------------------------------------------------------------
(* createCanonicalInvoice: the lightning invoice, then the on-chain one,    *)
(* which needs an address of the node and may never come to be.             *)
CreateOffchain ==
  /\ off.status = "none"
  /\ off' = [off EXCEPT !.status = "PENDING"]
  /\ UNCHANGED <<quotes, extra, atNode, onchain, request, refresh>>

CreateOnchain ==
  /\ off.status # "none" /\ on.status = "none"
  /\ on' = [on EXCEPT !.status = "PENDING"]
  /\ UNCHANGED <<lightning, atNode, onQuote, txn, onExtra, logged, request, refresh>>

(* generateQuote: a pending invoice gets a bolt11, and then its quote.      *)
GenerateBolt11(b) ==
  /\ off.status = "PENDING" /\ lnd[b] = "none"
  /\ lnd' = [lnd EXCEPT ![b] = "OPEN"]
  /\ making' = making \cup {b}
  /\ UNCHANGED <<lightning, onchain, request, refresh>>

StoreQuote(b) ==
  /\ b \in making
  /\ making' = making \ {b}
  /\ quotes' = quotes \cup {b}
  /\ UNCHANGED <<off, extra, lnd, onchain, request, refresh>>

(* The same on the chain: the document follows a conversion.                *)
GenerateOnchainQuote ==
  /\ \/ on.status = "PENDING" /\ onQuote = "none" /\ onQuote' = "making"
     \/ onQuote = "making" /\ onQuote' = "stored"
  /\ UNCHANGED <<lightning, atNode, on, txn, onExtra, logged, request, refresh>>

-----------------------------------------------------------------------------
(* The node and the chain.  A payer has the bolt11 from the stored quote,   *)
(* and may pay it until it is canceled or expires.                          *)
Pay(b) ==
  /\ lnd[b] = "OPEN" /\ b \notin making
  /\ lnd' = [lnd EXCEPT ![b] = "SETTLED"]
  /\ UNCHANGED <<lightning, making, onchain, request, refresh>>

Expire(b) ==
  /\ lnd[b] = "OPEN"
  /\ lnd' = [lnd EXCEPT ![b] = "CANCELED"]
  /\ UNCHANGED <<lightning, making, onchain, request, refresh>>

ChainMoves ==
  /\ on.status # "none"
  /\ \E from, to \in TxnStatus :
       /\ <<from, to>> \in {<<"none", "SUBMITTED">>, <<"SUBMITTED", "MINED">>}
       /\ txn = from /\ txn' = to
  /\ UNCHANGED <<lightning, atNode, on, onQuote, onExtra, logged, request, refresh>>

-----------------------------------------------------------------------------
NotOpen(b) == lnd[b] # "OPEN"        \* mutant of Settled
Settled(b) == lnd[b] = "SETTLED"

(* A poll, getCanonicalInvoiceStatus: the lightning invoice first.          *)
Poll(r) ==
  /\ At(r, "idle") /\ on.status # "none"
  /\ request' = [request EXCEPT ![r].step = "quotes", ![r].off = Final(off.status)]
  /\ UNCHANGED <<lightning, atNode, onchain, refresh>>

(* Without a quote the document read before is the answer.                  *)
PollQuotes(r) ==
  /\ At(r, "quotes")
  /\ request' = [request EXCEPT ![r].todo = quotes, ![r].step = IF quotes = {} THEN "on" ELSE "loop"]
  /\ UNCHANGED <<lightning, atNode, onchain, refresh>>

(* One quote of the loop is settled: the invoice is paid with it, whatever  *)
(* it was.  An update that is refused ends the poll of this rail: the event *)
(* that follows needs the document.                                         *)
PollSettled(r, b) ==
  /\ Settled(b)
  /\ IF b \in extra
     THEN /\ request' = [request EXCEPT ![r].step = "on", ![r].off = "null", ![r].todo = {}]
          /\ UNCHANGED off
     ELSE /\ request' = [request EXCEPT ![r].step = "clear", ![r].todo = @ \ {b}]
          /\ off' = [status |-> "PAID", settled |-> b]
  /\ UNCHANGED <<quotes, extra>>

(* It is canceled, which is what LND calls expired, or LND gave no answer:  *)
(* the quote goes.                                                          *)
PollDropped(r, b) ==
  /\ quotes' = quotes \ {b}
  /\ request' = [request EXCEPT ![r].todo = @ \ {b}]
  /\ UNCHANGED <<off, extra>>

(* It is open, or could not be read.                                        *)
PollPassed(r, b) ==
  /\ request' = [request EXCEPT ![r].todo = @ \ {b}]
  /\ UNCHANGED lightning

PollQuote(r) ==
  /\ At(r, "loop")
  /\ \E b \in request[r].todo : PollSettled(r, b) \/ PollDropped(r, b) \/ PollPassed(r, b)
  /\ UNCHANGED <<atNode, onchain, refresh>>

(* The bolt11s whose hash the loop after a payment gives to cancelBolt11:   *)
(* none, for it takes payment_hash of an answer that has paymentHash.       *)
HashKnown(r) == {}

(* Every quote of the invoice goes, and the other bolt11s are canceled.     *)
PollClear(r) ==
  /\ At(r, "clear")
  /\ quotes' = {}
  /\ lnd' = [b \in Bolt |-> IF b \in HashKnown(r) /\ lnd[b] = "OPEN" THEN "CANCELED" ELSE lnd[b]]
  /\ Goes(r, "loop")
  /\ UNCHANGED <<off, extra, making, onchain, refresh>>

PollAgain(r) ==
  /\ At(r, "loop") /\ request[r].todo = {}
  /\ request' = [request EXCEPT ![r].step = "on", ![r].off = Final(off.status)]
  /\ UNCHANGED <<lightning, atNode, onchain, refresh>>

(* A call to the node or the database that fails is a null answer.          *)
PollFails(r) ==
  /\ request[r].step \in {"quotes", "loop"}
  /\ request' = [request EXCEPT ![r].step = "on", ![r].off = "null", ![r].todo = {}]
  /\ UNCHANGED <<lightning, atNode, onchain, refresh>>

-----------------------------------------------------------------------------
(* Then the on-chain invoice; a confirmed payment needs no second look.     *)
PollOnchain(r) ==
  /\ At(r, "on")
  /\ \E step \in {"onQuote", "decide"} :
       /\ step = "decide" => on.status = "PAID" /\ txn = "MINED"
       /\ request' = [request EXCEPT ![r].on = Final(on.status), ![r].step = step]
  /\ UNCHANGED <<lightning, atNode, onchain, refresh>>

PollOnchainQuote(r) ==
  /\ At(r, "onQuote")
  /\ Goes(r, IF onQuote = "stored" THEN "onTxn" ELSE "decide")
  /\ UNCHANGED <<lightning, atNode, onchain, refresh>>

(* Any transaction to the address will do, in a block or not.               *)
PollTxn(r) ==
  /\ At(r, "onTxn")
  /\ on' = IF txn = "none" THEN on ELSE [status |-> "PAID", paid |-> TRUE]
  /\ Goes(r, "onAgain")
  /\ UNCHANGED <<lightning, atNode, onQuote, txn, onExtra, logged, refresh>>

PollOnchainAgain(r) ==
  /\ At(r, "onAgain")
  /\ request' = [request EXCEPT ![r].step = "decide", ![r].on = Final(on.status)]
  /\ UNCHANGED <<lightning, atNode, onchain, refresh>>

PollOnchainFails(r) ==
  /\ request[r].step \in {"on", "onQuote", "onTxn"}
  /\ request' = [request EXCEPT ![r].step = "decide", ![r].on = "null"]
  /\ UNCHANGED <<lightning, atNode, onchain, refresh>>

(* The rail that was not paid is canceled.                                  *)
VerdictPending(seen) ==        \* mutant of Verdict: only a paid rail is canceled
  CASE seen.on = "PAID" /\ seen.off = "PAID" -> "cancelOff"
    [] seen.off = "PAID" /\ seen.on \notin {"PAID", "CANCELED"} -> "cancelOn"
    [] OTHER -> "idle"

Verdict(seen) ==
  CASE seen.on = "PAID" /\ seen.off # "CANCELED" -> "cancelOff"
    [] seen.off = "PAID" /\ seen.on \notin {"PAID", "CANCELED"} -> "cancelOn"
    [] OTHER -> "idle"

PollDecides(r) ==
  /\ At(r, "decide")
  /\ IF Verdict(request[r]) = "idle" THEN Ends(r) ELSE Goes(r, Verdict(request[r]))
  /\ UNCHANGED <<lightning, atNode, onchain, refresh>>

-----------------------------------------------------------------------------
(* cancelInvoice of the lightning invoice, for a poll or for the merchant:  *)
(* only a pending one may be canceled.                                      *)
CancelOffchain(r) ==
  /\ At(r, "cancelOff") \/ At(r, "idle")
  /\ IF off.status = "PENDING" THEN Starts(r, "markOff") ELSE At(r, "cancelOff") /\ Ends(r)
  /\ UNCHANGED <<lightning, atNode, onchain, refresh>>

(* The update looks for the invoiceId only; when it fails the rest is done  *)
(* all the same.                                                            *)
MarkCanceled(r) ==
  /\ At(r, "markOff")
  /\ off' \in {off, [off EXCEPT !.status = "CANCELED"]}
  /\ Goes(r, "findQuotes")
  /\ UNCHANGED <<quotes, extra, atNode, onchain, refresh>>

(* The bolt11s are canceled at the node: nobody waits for the answer, and a *)
(* bolt11 canceled late, or never, expires.                                 *)
FindQuotes(r) ==
  /\ At(r, "findQuotes")
  /\ \E S \in SUBSET quotes :
       lnd' = [b \in Bolt |-> IF b \in S /\ lnd[b] = "OPEN" THEN "CANCELED" ELSE lnd[b]]
  /\ Goes(r, "dropQuotes")
  /\ UNCHANGED <<lightning, making, onchain, refresh>>

DropQuotes(r) ==
  /\ At(r, "dropQuotes")
  /\ quotes' = {}
  /\ Ends(r)
  /\ UNCHANGED <<off, extra, atNode, onchain, refresh>>

(* The same of the on-chain invoice.                                        *)
CancelOnchain(r) ==
  /\ At(r, "cancelOn") \/ At(r, "idle")
  /\ IF on.status = "PENDING" THEN Starts(r, "markOn") ELSE At(r, "cancelOn") /\ Ends(r)
  /\ UNCHANGED <<lightning, atNode, onchain, refresh>>

MarkOnchainCanceled(r) ==
  /\ At(r, "markOn")
  /\ on' \in {on, [on EXCEPT !.status = "CANCELED"]}
  /\ Goes(r, "dropOn")
  /\ UNCHANGED <<lightning, atNode, onQuote, txn, onExtra, logged, refresh>>

DropOnchainQuote(r) ==
  /\ At(r, "dropOn")
  /\ onQuote' = IF onQuote = "stored" THEN "none" ELSE onQuote
  /\ Ends(r)
  /\ UNCHANGED <<lightning, atNode, on, txn, onExtra, logged, refresh>>

(* A poll that has both answers: nothing was written since.                 *)
Deciding == {"decide", "cancelOff", "cancelOn"}

(* The process restarts, or a call throws.  To do so after the last answer  *)
(* is as good as before it.                                                 *)
Crash(r) ==
  /\ request[r].step \notin Deciding \cup {"idle"}
  /\ Ends(r)
  /\ UNCHANGED <<lightning, atNode, onchain, refresh>>

-----------------------------------------------------------------------------
(* refreshInvoices: the bolt11s of the paid invoices, then those LND has    *)
(* settled.                                                                 *)
Refresh(t) ==
  /\ refresh[t].step = "idle"
  /\ refresh' = [refresh EXCEPT ![t].step = "lnd",
       ![t].todo = extra \cup (IF off.status = "PAID" THEN {off.settled} ELSE {})]
  /\ UNCHANGED <<lightning, atNode, onchain, request>>

(* Mutant: payments without a quote are not the tenant's invoices.          *)
RefreshAnsweredQuoted(t) ==
  /\ refresh[t].step = "lnd"
  /\ refresh' = [refresh EXCEPT ![t].step = "loop",
       ![t].todo = {b \in quotes : Settled(b)} \ @]
  /\ UNCHANGED <<lightning, atNode, onchain, request>>

RefreshAnswered(t) ==
  /\ refresh[t].step = "lnd"
  /\ refresh' = [refresh EXCEPT ![t].step = "loop",
       ![t].todo = {b \in Bolt : Settled(b)} \ @]
  /\ UNCHANGED <<lightning, atNode, onchain, request>>

(* The node is locked, or down.                                             *)
RefreshFails(t) ==
  /\ refresh[t].step = "lnd"
  /\ refresh' = [refresh EXCEPT ![t] = Rest]
  /\ UNCHANGED <<lightning, atNode, onchain, request>>

(* Is there a quote with this bolt11?  The quotes read before the loop only *)
(* spare calls: a quote is stored before its bolt11 can be paid.            *)
RefreshLookup(t) ==
  /\ refresh[t].step = "loop"
  /\ \/ \E b \in refresh[t].todo :
          refresh' = [refresh EXCEPT ![t] = [step |-> "upsert", todo |-> @.todo \ {b},
                                             bolt |-> b, mine |-> b \in quotes]]
     \/ refresh[t].todo = {} /\ refresh' = [refresh EXCEPT ![t] = Rest]
  /\ UNCHANGED <<lightning, atNode, onchain, request>>

(* The invoice of the quote, or a new one, is paid with it, unless another  *)
(* invoice has its settledPayreq.                                           *)
RefreshUpsert(t) ==
  LET b == refresh[t].bolt
      mine == refresh[t].mine IN
  /\ refresh[t].step = "upsert"
  /\ IF IF mine THEN b \notin extra ELSE b \notin extra /\ off.settled # b
     THEN /\ refresh' = [refresh EXCEPT ![t].step = "clear"]
          /\ IF mine THEN off' = [status |-> "PAID", settled |-> b] /\ UNCHANGED extra
                     ELSE extra' = extra \cup {b} /\ UNCHANGED off
     ELSE /\ refresh' = [refresh EXCEPT ![t].step = "loop"]
          /\ UNCHANGED <<off, extra>>
  /\ UNCHANGED <<quotes, atNode, onchain, request>>

(* The quotes of that invoice go.                                           *)
RefreshClear(t) ==
  /\ refresh[t].step = "clear"
  /\ refresh' = [refresh EXCEPT ![t].step = "loop"]
  /\ quotes' = IF refresh[t].mine THEN {} ELSE quotes
  /\ UNCHANGED <<off, extra, atNode, onchain, request>>

-----------------------------------------------------------------------------
(* refreshOnchainTxns: a transaction in a block that is not logged yet.     *)
(* The invoice is looked up by its address and the transaction it was paid  *)
(* with, so one that is pending still is not found: a new one is made.      *)
ScanChain ==
  /\ txn = "MINED" /\ ~logged
  /\ IF on.paid THEN on' = [on EXCEPT !.status = "PAID"] /\ UNCHANGED onExtra
                ELSE onExtra' = TRUE /\ UNCHANGED on
  /\ logged' = TRUE
  /\ UNCHANGED <<lightning, atNode, onQuote, txn, request, refresh>>

-----------------------------------------------------------------------------
Polling(r) ==
  \/ Poll(r) \/ PollQuotes(r) \/ PollQuote(r) \/ PollClear(r) \/ PollAgain(r) \/ PollFails(r)
  \/ PollOnchain(r) \/ PollOnchainQuote(r) \/ PollTxn(r) \/ PollOnchainAgain(r)
  \/ PollOnchainFails(r) \/ PollDecides(r)

Canceling(r) ==
  \/ CancelOffchain(r) \/ MarkCanceled(r) \/ FindQuotes(r) \/ DropQuotes(r)
  \/ CancelOnchain(r) \/ MarkOnchainCanceled(r) \/ DropOnchainQuote(r)

RefreshStep(t) == Refresh(t) \/ RefreshLookup(t) \/ RefreshUpsert(t) \/ RefreshClear(t)

Next ==
  \/ CreateOffchain \/ CreateOnchain \/ GenerateOnchainQuote \/ ChainMoves \/ ScanChain
  \/ \E b \in Bolt : GenerateBolt11(b) \/ StoreQuote(b) \/ Pay(b) \/ Expire(b)
  \/ \E r \in Request : Polling(r) \/ Canceling(r) \/ Crash(r)
  \/ \E t \in Task : RefreshStep(t) \/ RefreshAnswered(t) \/ RefreshFails(t)

(* The task runs every hour, and the node answers now and again.            *)
Fairness ==
  \A t \in Task : WF_vars(RefreshStep(t)) /\ SF_vars(RefreshAnswered(t))

Spec == Init /\ [][Next]_vars /\ Fairness

-----------------------------------------------------------------------------
(* The type invariant.                                                      *)
TypeOK ==
  /\ off \in [status : Status, settled : Bolt \cup {NoBolt}]
  /\ quotes \subseteq Bolt /\ extra \subseteq Bolt
  /\ making \subseteq Bolt
  /\ lnd \in [Bolt -> {"none", "OPEN", "SETTLED", "CANCELED"}]
  /\ on \in [status : Status, paid : BOOLEAN] /\ txn \in TxnStatus
  /\ onQuote \in {"none", "making", "stored"}
  /\ onExtra \in BOOLEAN /\ logged \in BOOLEAN
  /\ request \in [Request -> [ step : {"idle", "quotes", "loop", "clear", "on", "onQuote", "onTxn",
         "onAgain", "decide", "cancelOff", "markOff", "findQuotes", "dropQuotes", "cancelOn",
         "markOn", "dropOn"},
       off : Seen, on : Seen, todo : SUBSET Bolt ]]
  /\ refresh \in [Task -> [ step : {"idle", "lnd", "loop", "upsert", "clear"},
       todo : SUBSET Bolt, bolt : Bolt \cup {NoBolt}, mine : BOOLEAN ]]

(* The lightning payments that arrived, and the invoices that record them.  *)
Book == INSTANCE PaymentBook WITH
  Payment <- Bolt,
  received <- {b \in Bolt : lnd[b] = "SETTLED"},
  entered <- [b \in Bolt |-> (IF off.settled = b THEN 1 ELSE 0) + (IF b \in extra THEN 1 ELSE 0)]

(* A payment over lightning is entered in one invoice, whichever of polls,  *)
(* refreshes and cancelations overlap and whatever they have read before;   *)
(* and however a quote is lost, the hourly refresh enters it in the end.    *)
EnteredOnce == Book!Spec

(* A paid invoice has the money of its rail.                                *)
PaidIsReceived ==
  /\ off.status = "PAID" => off.settled \in Bolt /\ lnd[off.settled] = "SETTLED"
  /\ on.status = "PAID" => on.paid /\ txn # "none"

(* "If either onchain or offchain is paid, the remain (unpaid) invoice is   *)
(* canceled": a poll that saw one rail paid cancels the other, or leaves it *)
(* because it is not pending any more.                                      *)
PollCloses ==
  [][\A r \in Request :
       request[r].step \in Deciding /\ At(r, "idle")'
         /\ "PAID" \in {request[r].off, request[r].on}
       => "PENDING" \notin {off.status, on.status}]_vars

(* "Cancel open Bolt11s on the lightning node": when a poll has entered a   *)
(* payment, the other bolt11s that can be paid are to be canceled.          *)
OthersCanceled ==
  [][\A r \in Request : PollClear(r) =>
       {b \in request[r].todo : lnd[b] = "OPEN"} \subseteq HashKnown(r)]_vars

(* "Invoice cancellation failed. Invoice status is": only a pending invoice *)
(* is canceled.                                                             *)
PaidIsNotCanceled ==
  [][off.status = "PAID" => off'.status # "CANCELED"]_vars
=============================================================================
