----------------------- MODULE CanonicalInvoice_proofs -----------------------
(***************************************************************************)
(* Theorems about CanonicalInvoice, for any sets of bolt11s, requests and  *)
(* refreshes.                                                              *)
(***************************************************************************)
EXTENDS CanonicalInvoice, TLAPS

USE CanonicalInvoiceAssumption

(* The parts of the type invariant, and what it takes for it to be kept: a  *)
(* refresh remembers the bolt11s of the paid invoices.                      *)
Off == [status : Status, settled : Bolt \cup {NoBolt}]
On == [status : Status, paid : BOOLEAN]
Step == {"idle", "quotes", "loop", "clear", "on", "onQuote", "onTxn", "onAgain", "decide",
         "cancelOff", "markOff", "findQuotes", "dropQuotes", "cancelOn", "markOn", "dropOn"}
Req == [step : Step, off : Seen, on : Seen, todo : SUBSET Bolt]
RefreshSteps == {"idle", "lnd", "loop", "upsert", "clear"}
Ref == [step : RefreshSteps, todo : SUBSET Bolt, bolt : Bolt \cup {NoBolt}, mine : BOOLEAN]

Lightning ==
  /\ off \in Off /\ quotes \subseteq Bolt /\ extra \subseteq Bolt
  /\ off.status = "PAID" => off.settled \in Bolt
AtNode == making \subseteq Bolt /\ lnd \in [Bolt -> {"none", "OPEN", "SETTLED", "CANCELED"}]
Onchain ==
  /\ on \in On /\ txn \in TxnStatus /\ onQuote \in {"none", "making", "stored"}
  /\ onExtra \in BOOLEAN /\ logged \in BOOLEAN
Types ==
  /\ Lightning /\ AtNode /\ Onchain
  /\ request \in [Request -> Req] /\ refresh \in [Task -> Ref]
  /\ \A t \in Task : refresh[t].step = "upsert" => refresh[t].bolt \in Bolt

LEMMA TypesAreTypeOK == Types => TypeOK
BY DEF Types, Lightning, AtNode, Onchain, TypeOK, Off, On, Req, Ref, Step, RefreshSteps

-----------------------------------------------------------------------------
LEMMA ReqUpdates ==
  ASSUME NEW q \in Req
  PROVE  /\ \A s \in Step : [q EXCEPT !.step = s] \in Req
         /\ \A T \in SUBSET Bolt : [q EXCEPT !.todo = T] \in Req
         /\ \A s \in Step, f \in Seen :
              /\ [q EXCEPT !.step = s, !.off = f] \in Req
              /\ [q EXCEPT !.on = f, !.step = s] \in Req
              /\ [q EXCEPT !.step = s, !.on = f] \in Req
         /\ \A s \in Step, T \in SUBSET Bolt :
              /\ [q EXCEPT !.todo = T, !.step = s] \in Req
              /\ [q EXCEPT !.step = s, !.todo = T] \in Req
         /\ \A s \in Step, f \in Seen, T \in SUBSET Bolt :
              [q EXCEPT !.step = s, !.off = f, !.todo = T] \in Req
BY DEF Req

LEMMA FinalType == ASSUME NEW s PROVE Final(s) \in Seen
BY DEF Final, Seen

LEMMA GoesTyped ==
  ASSUME Types, NEW r \in Request, NEW s \in Step
  PROVE  /\ Goes(r, s) => request' \in [Request -> Req]
         /\ Starts(r, s) => request' \in [Request -> Req]
         /\ Ends(r) => request' \in [Request -> Req]
<1>0. request[r] \in Req  BY DEF Types
<1>1. [request[r] EXCEPT !.step = s] \in Req  BY <1>0, ReqUpdates
<1>2. Idle \in Req  BY DEF Idle, Req, Step, Seen
<1>3. [Idle EXCEPT !.step = s] \in Req /\ [Idle EXCEPT !.step = "idle"] \in Req
  BY <1>2, ReqUpdates DEF Step
<1> QED  BY <1>1, <1>3 DEF Types, Goes, Starts, Ends

LEMMA InitTyped == Init => Types
<1> SUFFICES ASSUME Init PROVE Types  OBVIOUS
<1>1. Lightning /\ AtNode  BY DEF Init, Lightning, AtNode, Off, Status
<1>2. Onchain  BY DEF Init, Onchain, On, Status, TxnStatus
<1>3. Idle \in Req /\ Rest \in Ref
  BY DEF Idle, Req, Step, Seen, Rest, Ref, RefreshSteps
<1>4. \A t \in Task : refresh[t].step # "upsert"  BY DEF Init, Rest
<1> QED  BY <1>1, <1>2, <1>3, <1>4 DEF Init, Types

(* A poll.                                                                  *)
LEMMA PollTyped ==
  ASSUME Types, NEW r \in Request, Polling(r)
  PROVE  Types'
<1> USE DEF Types, lightning, atNode, onchain
<1>0. request[r] \in Req /\ request[r].todo \in SUBSET Bolt  BY DEF Req
<1>s. {"idle", "quotes", "loop", "clear", "on", "onQuote", "onTxn", "onAgain", "decide",
       "cancelOff", "cancelOn"} \subseteq Step /\ "null" \in Seen
  BY DEF Step, Seen
<1>r. ASSUME NEW q \in Req, request' = [request EXCEPT ![r] = q]
      PROVE  request' \in [Request -> Req]
  BY <1>r
<1>k. ASSUME request' \in [Request -> Req], UNCHANGED <<lightning, atNode, onchain, refresh>>
      PROVE  Types'
  BY <1>k DEF Lightning, AtNode, Onchain
<1>1. CASE Poll(r)
  <2>1. [request[r] EXCEPT !.step = "quotes", !.off = Final(off.status)] \in Req
    BY <1>0, <1>s, ReqUpdates, FinalType
  <2> QED  BY <1>1, <1>k, <1>r, <2>1 DEF Poll
<1>2. CASE PollQuotes(r)
  <2>1. PICK s \in Step : s = IF quotes = {} THEN "on" ELSE "loop"  BY <1>s
  <2>2. [request[r] EXCEPT !.todo = quotes, !.step = s] \in Req
    <3>1. quotes \in SUBSET Bolt  BY DEF Lightning
    <3> QED  BY <1>0, <3>1, ReqUpdates
  <2> QED  BY <1>2, <1>k, <1>r, <2>1, <2>2 DEF PollQuotes
<1>3. CASE PollQuote(r)
  <2>1. PICK b \in request[r].todo : PollSettled(r, b) \/ PollDropped(r, b) \/ PollPassed(r, b)
    BY <1>3 DEF PollQuote
  <2>2. b \in Bolt /\ request[r].todo \ {b} \in SUBSET Bolt  BY <1>0
  <2>3. request' \in [Request -> Req]
    <3>1. [request[r] EXCEPT !.step = "on", !.off = "null", !.todo = {}] \in Req
      BY <1>0, <1>s, ReqUpdates
    <3>2. [request[r] EXCEPT !.step = "clear", !.todo = request[r].todo \ {b}] \in Req
      BY <1>0, <1>s, <2>2, ReqUpdates
    <3>3. [request[r] EXCEPT !.todo = request[r].todo \ {b}] \in Req
      BY <1>0, <2>2, ReqUpdates
    <3> QED  BY <1>r, <2>1, <3>1, <3>2, <3>3 DEF PollSettled, PollDropped, PollPassed
  <2>4. [status |-> "PAID", settled |-> b] \in Off  BY <2>2 DEF Off, Status
  <2>5. Lightning'
    <3>1. /\ off' = off \/ off' = [status |-> "PAID", settled |-> b]
          /\ quotes' \subseteq quotes /\ extra' = extra
      BY <2>1 DEF PollSettled, PollDropped, PollPassed, lightning
    <3> QED  BY <2>2, <2>4, <3>1 DEF Lightning
  <2> QED  BY <1>3, <2>3, <2>5 DEF PollQuote, AtNode, Onchain
<1>4. CASE PollClear(r)
  <2>1. request' \in [Request -> Req]  BY <1>4, <1>s, GoesTyped DEF PollClear
  <2>2. AtNode'  BY <1>4 DEF PollClear, AtNode
  <2> QED  BY <1>4, <2>1, <2>2 DEF PollClear, Lightning, Onchain
<1>5. CASE PollAgain(r)
  <2>1. [request[r] EXCEPT !.step = "on", !.off = Final(off.status)] \in Req
    BY <1>0, <1>s, ReqUpdates, FinalType
  <2> QED  BY <1>5, <1>k, <1>r, <2>1 DEF PollAgain
<1>6. CASE PollFails(r)
  <2>1. [request[r] EXCEPT !.step = "on", !.off = "null", !.todo = {}] \in Req
    BY <1>0, <1>s, ReqUpdates
  <2> QED  BY <1>6, <1>k, <1>r, <2>1 DEF PollFails
<1>7. CASE PollOnchain(r)
  <2>1. PICK s \in Step : request' = [request EXCEPT ![r].on = Final(on.status), ![r].step = s]
    BY <1>7, <1>s DEF PollOnchain
  <2>2. [request[r] EXCEPT !.on = Final(on.status), !.step = s] \in Req
    BY <1>0, ReqUpdates, FinalType
  <2> QED  BY <1>7, <1>k, <1>r, <2>1, <2>2 DEF PollOnchain
<1>8. CASE PollOnchainQuote(r)
  <2>1. request' \in [Request -> Req]  BY <1>8, <1>s, GoesTyped DEF PollOnchainQuote
  <2> QED  BY <1>8, <1>k, <2>1 DEF PollOnchainQuote
<1>9. CASE PollTxn(r)
  <2>1. request' \in [Request -> Req]  BY <1>9, <1>s, GoesTyped DEF PollTxn
  <2>2. on' \in On  BY <1>9 DEF PollTxn, Onchain, On, Status
  <2> QED  BY <1>9, <2>1, <2>2 DEF PollTxn, Lightning, AtNode, Onchain
<1>10. CASE PollOnchainAgain(r)
  <2>1. [request[r] EXCEPT !.step = "decide", !.on = Final(on.status)] \in Req
    BY <1>0, <1>s, ReqUpdates, FinalType
  <2> QED  BY <1>10, <1>k, <1>r, <2>1 DEF PollOnchainAgain
<1>11. CASE PollOnchainFails(r)
  <2>1. [request[r] EXCEPT !.step = "decide", !.on = "null"] \in Req
    BY <1>0, <1>s, ReqUpdates
  <2> QED  BY <1>11, <1>k, <1>r, <2>1 DEF PollOnchainFails
<1>12. CASE PollDecides(r)
  <2>1. Verdict(request[r]) \in Step  BY <1>s DEF Verdict
  <2>2. request' \in [Request -> Req]  BY <1>12, <2>1, GoesTyped DEF PollDecides
  <2> QED  BY <1>12, <1>k, <2>2 DEF PollDecides
<1> QED
  BY <1>1, <1>2, <1>3, <1>4, <1>5, <1>6, <1>7, <1>8, <1>9, <1>10, <1>11, <1>12 DEF Polling

(* A cancelation, and a request that breaks off.                            *)
LEMMA CancelTyped ==
  ASSUME Types, NEW r \in Request, Canceling(r) \/ Crash(r)
  PROVE  Types'
<1> USE DEF Types, lightning, atNode, onchain
<1>s. {"idle", "markOff", "findQuotes", "dropQuotes", "markOn", "dropOn"} \subseteq Step
  BY DEF Step
<1>0. /\ \A s \in {"findQuotes", "dropQuotes", "dropOn"} : Goes(r, s) => request' \in [Request -> Req]
      /\ \A s \in {"markOff", "markOn"} : Starts(r, s) => request' \in [Request -> Req]
      /\ Ends(r) => request' \in [Request -> Req]
  BY <1>s, GoesTyped
<1>k. ASSUME request' \in [Request -> Req], UNCHANGED <<lightning, atNode, onchain, refresh>>
      PROVE  Types'
  BY <1>k DEF Lightning, AtNode, Onchain
<1>1. CASE CancelOffchain(r)
  <2>1. request' \in [Request -> Req]  BY <1>0, <1>1 DEF CancelOffchain
  <2> QED  BY <1>1, <1>k, <2>1 DEF CancelOffchain
<1>2. CASE MarkCanceled(r)
  <2>1. request' \in [Request -> Req]  BY <1>0, <1>2 DEF MarkCanceled
  <2>2. /\ [off EXCEPT !.status = "CANCELED"] \in Off
        /\ [off EXCEPT !.status = "CANCELED"].status # "PAID"
    BY DEF Lightning, Off, Status
  <2> QED  BY <1>2, <2>1, <2>2 DEF MarkCanceled, Lightning, AtNode, Onchain
<1>3. CASE FindQuotes(r)
  <2>1. request' \in [Request -> Req]  BY <1>0, <1>3 DEF FindQuotes
  <2>2. AtNode'  BY <1>3 DEF FindQuotes, AtNode
  <2> QED  BY <1>3, <2>1, <2>2 DEF FindQuotes, Lightning, Onchain
<1>4. CASE DropQuotes(r)
  <2>1. request' \in [Request -> Req]  BY <1>0, <1>4 DEF DropQuotes
  <2> QED  BY <1>4, <2>1 DEF DropQuotes, Lightning, AtNode, Onchain
<1>5. CASE CancelOnchain(r)
  <2>1. request' \in [Request -> Req]  BY <1>0, <1>5 DEF CancelOnchain
  <2> QED  BY <1>5, <1>k, <2>1 DEF CancelOnchain
<1>6. CASE MarkOnchainCanceled(r)
  <2>1. request' \in [Request -> Req]  BY <1>0, <1>6 DEF MarkOnchainCanceled
  <2>2. [on EXCEPT !.status = "CANCELED"] \in On  BY DEF Onchain, On, Status
  <2> QED  BY <1>6, <2>1, <2>2 DEF MarkOnchainCanceled, Lightning, AtNode, Onchain
<1>7. CASE DropOnchainQuote(r)
  <2>1. request' \in [Request -> Req]  BY <1>0, <1>7 DEF DropOnchainQuote
  <2> QED  BY <1>7, <2>1 DEF DropOnchainQuote, Lightning, AtNode, Onchain
<1>8. CASE Crash(r)
  <2>1. request' \in [Request -> Req]  BY <1>0, <1>8 DEF Crash
  <2> QED  BY <1>8, <1>k, <2>1 DEF Crash
<1> QED  BY <1>1, <1>2, <1>3, <1>4, <1>5, <1>6, <1>7, <1>8 DEF Canceling

LEMMA RefUpdates ==
  ASSUME NEW f \in Ref
  PROVE  /\ \A s \in RefreshSteps :
              [f EXCEPT !.step = s] \in Ref /\ [f EXCEPT !.step = s].step = s
         /\ \A s \in RefreshSteps, T \in SUBSET Bolt : [f EXCEPT !.step = s, !.todo = T] \in Ref
BY DEF Ref

(* The hourly task.                                                         *)
LEMMA RefreshTyped ==
  ASSUME Types, NEW t \in Task, RefreshStep(t) \/ RefreshAnswered(t) \/ RefreshFails(t)
  PROVE  Types'
<1> USE DEF Types, lightning, atNode, onchain
<1>0. /\ refresh[t] \in Ref /\ refresh[t].todo \in SUBSET Bolt /\ Rest \in Ref
      /\ refresh[t].bolt \in Bolt \cup {NoBolt}
  BY DEF Ref, Rest, RefreshSteps
<1>s. {"lnd", "loop", "upsert", "clear"} \subseteq RefreshSteps  BY DEF RefreshSteps
<1>r. ASSUME NEW f \in Ref, refresh' = [refresh EXCEPT ![t] = f],
             f.step = "upsert" => f.bolt \in Bolt
      PROVE  /\ refresh' \in [Task -> Ref]
             /\ \A u \in Task : refresh'[u].step = "upsert" => refresh'[u].bolt \in Bolt
  BY <1>r
<1>k. ASSUME refresh' \in [Task -> Ref], UNCHANGED <<lightning, atNode, onchain, request>>,
             \A u \in Task : refresh'[u].step = "upsert" => refresh'[u].bolt \in Bolt
      PROVE  Types'
  BY <1>k DEF Lightning, AtNode, Onchain
<1>1. CASE Refresh(t)
  <2>1. PICK T : T = extra \cup (IF off.status = "PAID" THEN {off.settled} ELSE {})  OBVIOUS
  <2>2. refresh' = [refresh EXCEPT ![t].step = "lnd", ![t].todo = T]
    BY <1>1, <2>1 DEF Refresh
  <2>3. T \in SUBSET Bolt  BY <2>1 DEF Lightning
  <2>4. [refresh[t] EXCEPT !.step = "lnd", !.todo = T] \in Ref
    BY <1>0, <1>s, <2>3, RefUpdates
  <2>5. [refresh[t] EXCEPT !.step = "lnd", !.todo = T].step = "lnd"  BY <1>0 DEF Ref
  <2> QED  BY <1>1, <1>r, <1>k, <2>2, <2>4, <2>5 DEF Refresh
<1>2. CASE RefreshAnswered(t)
  <2>1. PICK T : T = {b \in Bolt : Settled(b)} \ refresh[t].todo  OBVIOUS
  <2>2. refresh' = [refresh EXCEPT ![t].step = "loop", ![t].todo = T]
    BY <1>2, <2>1 DEF RefreshAnswered
  <2>3. T \in SUBSET Bolt  BY <2>1
  <2>4. [refresh[t] EXCEPT !.step = "loop", !.todo = T] \in Ref
    BY <1>0, <1>s, <2>3, RefUpdates
  <2>5. [refresh[t] EXCEPT !.step = "loop", !.todo = T].step = "loop"  BY <1>0 DEF Ref
  <2> QED  BY <1>2, <1>r, <1>k, <2>2, <2>4, <2>5 DEF RefreshAnswered
<1>3. CASE RefreshFails(t)
  <2>1. Rest.step # "upsert"  BY DEF Rest
  <2> QED  BY <1>0, <1>3, <1>r, <1>k, <2>1 DEF RefreshFails
<1>4. CASE RefreshLookup(t)
  <2>1. CASE refresh' = [refresh EXCEPT ![t] = Rest]
    <3>1. Rest.step # "upsert"  BY DEF Rest
    <3> QED  BY <1>0, <1>4, <1>r, <1>k, <2>1, <3>1 DEF RefreshLookup
  <2>2. ASSUME NEW b \in refresh[t].todo,
               refresh' = [refresh EXCEPT ![t] = [step |-> "upsert", todo |-> @.todo \ {b},
                                                  bolt |-> b, mine |-> b \in quotes]]
        PROVE  Types'
    <3>1. (b \in quotes) \in BOOLEAN  OBVIOUS
    <3>2. PICK T \in SUBSET Bolt : T = refresh[t].todo \ {b}  BY <1>0
    <3>3. b \in Bolt  BY <1>0
    <3> DEFINE f == [step |-> "upsert", todo |-> T, bolt |-> b, mine |-> b \in quotes]
    <3>4. f \in Ref /\ f.bolt \in Bolt  BY <3>1, <3>3, <1>s DEF Ref
    <3>5. refresh' = [refresh EXCEPT ![t] = f]  BY <2>2, <3>2
    <3> HIDE DEF f
    <3> QED  BY <1>4, <1>r, <1>k, <3>4, <3>5 DEF RefreshLookup
  <2> QED  BY <1>4, <2>1, <2>2 DEF RefreshLookup
<1>5. CASE RefreshUpsert(t)
  <2>0. refresh[t].bolt \in Bolt  BY <1>5 DEF RefreshUpsert
  <2>1. PICK s \in {"clear", "loop"} : refresh' = [refresh EXCEPT ![t].step = s]
    BY <1>5 DEF RefreshUpsert
  <2>s. s \in RefreshSteps  BY <1>s
  <2>2. [refresh[t] EXCEPT !.step = s] \in Ref /\ [refresh[t] EXCEPT !.step = s].step = s
    BY <1>0, <2>s, RefUpdates
  <2>3. /\ refresh' \in [Task -> Ref]
        /\ \A u \in Task : refresh'[u].step = "upsert" => refresh'[u].bolt \in Bolt
    BY <1>r, <2>1, <2>2
  <2>4. [status |-> "PAID", settled |-> refresh[t].bolt] \in Off  BY <2>0 DEF Off, Status
  <2>5. Lightning'
    <3>1. \/ off' = off
          \/ off' = [status |-> "PAID", settled |-> refresh[t].bolt]
      BY <1>5 DEF RefreshUpsert
    <3>2. extra' \subseteq Bolt /\ quotes' = quotes
      BY <1>5, <2>0 DEF RefreshUpsert, Lightning
    <3> QED  BY <2>0, <2>4, <3>1, <3>2 DEF Lightning
  <2> QED  BY <1>5, <2>3, <2>5 DEF RefreshUpsert, AtNode, Onchain
<1>6. CASE RefreshClear(t)
  <2>1. [refresh[t] EXCEPT !.step = "loop"] \in Ref /\ [refresh[t] EXCEPT !.step = "loop"].step = "loop"
    BY <1>0, <1>s, RefUpdates
  <2>2. /\ refresh' \in [Task -> Ref]
        /\ \A u \in Task : refresh'[u].step = "upsert" => refresh'[u].bolt \in Bolt
    BY <1>6, <1>r, <2>1 DEF RefreshClear
  <2> QED  BY <1>6, <2>2 DEF RefreshClear, Lightning, AtNode, Onchain
<1> QED  BY <1>1, <1>2, <1>3, <1>4, <1>5, <1>6 DEF RefreshStep

LEMMA StepTyped == Types /\ [Next]_vars => Types'
<1> SUFFICES ASSUME Types, [Next]_vars PROVE Types'  OBVIOUS
<1> USE DEF Types, lightning, atNode, onchain
<1>1. CASE CreateOffchain
  <2>1. [off EXCEPT !.status = "PENDING"] \in Off /\ [off EXCEPT !.status = "PENDING"].status # "PAID"
    BY DEF Lightning, Off, Status
  <2> QED  BY <1>1, <2>1 DEF CreateOffchain, Lightning, AtNode, Onchain
<1>2. CASE CreateOnchain
  <2>1. [on EXCEPT !.status = "PENDING"] \in On  BY DEF Onchain, On, Status
  <2> QED  BY <1>2, <2>1 DEF CreateOnchain, Lightning, AtNode, Onchain
<1>3. CASE GenerateOnchainQuote
  BY <1>3 DEF GenerateOnchainQuote, Lightning, AtNode, Onchain
<1>4. CASE ChainMoves
  BY <1>4 DEF ChainMoves, Lightning, AtNode, Onchain
<1>5. CASE ScanChain
  <2>1. [on EXCEPT !.status = "PAID"] \in On  BY DEF Onchain, On, Status
  <2>2. on' \in On /\ onExtra' \in BOOLEAN  BY <1>5, <2>1 DEF ScanChain, Onchain
  <2> QED  BY <1>5, <2>2 DEF ScanChain, Lightning, AtNode, Onchain
<1>6. ASSUME NEW b \in Bolt, GenerateBolt11(b) \/ StoreQuote(b) \/ Pay(b) \/ Expire(b)
      PROVE  Types'
  <2>1. quotes' \subseteq Bolt /\ off' = off /\ extra' = extra
    BY <1>6 DEF GenerateBolt11, StoreQuote, Pay, Expire, Lightning
  <2>2. AtNode'  BY <1>6 DEF GenerateBolt11, StoreQuote, Pay, Expire, AtNode
  <2> QED  BY <1>6, <2>1, <2>2 DEF GenerateBolt11, StoreQuote, Pay, Expire, Lightning, Onchain
<1>7. ASSUME NEW r \in Request, Polling(r) PROVE Types'  BY <1>7, PollTyped
<1>8. ASSUME NEW r \in Request, Canceling(r) \/ Crash(r) PROVE Types'  BY <1>8, CancelTyped
<1>9. ASSUME NEW t \in Task, RefreshStep(t) \/ RefreshAnswered(t) \/ RefreshFails(t)
      PROVE  Types'
  BY <1>9, RefreshTyped
<1>10. CASE UNCHANGED vars
  BY <1>10 DEF vars, Lightning, AtNode, Onchain
<1> QED  BY <1>1, <1>2, <1>3, <1>4, <1>5, <1>6, <1>7, <1>8, <1>9, <1>10 DEF Next

LEMMA TypesInvariant == Spec => []Types
BY InitTyped, StepTyped, PTL DEF Spec

(* Documents, requests and refreshes keep their shape, whatever overlaps.   *)
THEOREM TypeCorrect == Spec => []TypeOK
BY TypesInvariant, TypesAreTypeOK, PTL

-----------------------------------------------------------------------------
(* Money: a bolt11 in hand was settled when it was read, and stays so.      *)
Arrived ==
  /\ off.status = "PAID" => lnd[off.settled] = "SETTLED"
  /\ \A t \in Task :
       /\ refresh[t].step = "upsert" => lnd[refresh[t].bolt] = "SETTLED"
       /\ refresh[t].step \in {"loop", "upsert", "clear"} =>
            \A b \in refresh[t].todo : lnd[b] = "SETTLED"
OnArrived == on.paid \/ on.status = "PAID" => on.paid /\ txn # "none"
Apart == off.settled \notin extra

LEMMA SettledStays ==
  ASSUME Types, [Next]_vars, NEW b \in Bolt, lnd[b] = "SETTLED"
  PROVE  lnd'[b] = "SETTLED"
<1> USE DEF Types, AtNode, lightning, atNode, onchain
<1>1. ASSUME NEW c \in Bolt, GenerateBolt11(c) \/ StoreQuote(c) \/ Pay(c) \/ Expire(c)
      PROVE  lnd'[b] = "SETTLED"
  BY <1>1 DEF GenerateBolt11, StoreQuote, Pay, Expire
<1>2. ASSUME NEW r \in Request, Polling(r) PROVE lnd'[b] = "SETTLED"
  <2>1. CASE PollClear(r)  BY <2>1 DEF PollClear
  <2>2. CASE lnd' = lnd  BY <2>2
  <2> QED
    BY <1>2, <2>1, <2>2 DEF Polling, Poll, PollQuotes, PollQuote, PollAgain, PollFails,
       PollOnchain, PollOnchainQuote, PollTxn, PollOnchainAgain, PollOnchainFails, PollDecides
<1>3. ASSUME NEW r \in Request, Canceling(r) \/ Crash(r) PROVE lnd'[b] = "SETTLED"
  <2>1. CASE FindQuotes(r)  BY <2>1 DEF FindQuotes
  <2>2. CASE lnd' = lnd  BY <2>2
  <2> QED
    BY <1>3, <2>1, <2>2 DEF Canceling, Crash, CancelOffchain, MarkCanceled, DropQuotes,
       CancelOnchain, MarkOnchainCanceled, DropOnchainQuote
<1>4. ASSUME NEW t \in Task, RefreshStep(t) \/ RefreshAnswered(t) \/ RefreshFails(t)
      PROVE  lnd'[b] = "SETTLED"
  BY <1>4 DEF RefreshStep, RefreshAnswered, RefreshFails, Refresh, RefreshLookup,
     RefreshUpsert, RefreshClear
<1>5. CASE CreateOffchain \/ CreateOnchain \/ GenerateOnchainQuote \/ ChainMoves \/ ScanChain
  BY <1>5 DEF CreateOffchain, CreateOnchain, GenerateOnchainQuote, ChainMoves, ScanChain
<1>6. CASE UNCHANGED vars  BY <1>6 DEF vars
<1> QED  BY <1>1, <1>2, <1>3, <1>4, <1>5, <1>6 DEF Next

(* What a step makes of the lightning invoices: no entry, an entry in the   *)
(* invoice itself, or one in an invoice of its own.                         *)
Keeps == off'.settled = off.settled /\ extra' = extra /\ (off' = off \/ off'.status # "PAID")
Settles(b) ==
  /\ lnd[b] = "SETTLED" /\ lnd' = lnd /\ b \notin extra
  /\ off' = [status |-> "PAID", settled |-> b] /\ extra' = extra
Adds(b) ==
  /\ lnd[b] = "SETTLED" /\ lnd' = lnd /\ b \notin extra /\ b # off.settled
  /\ off' = off /\ extra' = extra \cup {b}

LEMMA Entries ==
  ASSUME Types, Arrived, [Next]_vars
  PROVE  Keeps \/ \E b \in Bolt : Settles(b) \/ Adds(b)
<1> USE DEF Types, lightning, atNode, onchain
<1>0. /\ \A s \in Status : [off EXCEPT !.status = s].settled = off.settled
      /\ \A s \in Status : [off EXCEPT !.status = s].status = s
  BY DEF Lightning, Off
<1>1. CASE UNCHANGED <<off, extra>>  BY <1>1 DEF Keeps
<1>2. CASE CreateOffchain  BY <1>0, <1>2 DEF CreateOffchain, Keeps, Status
<1>3. ASSUME NEW r \in Request, PollQuote(r)
      PROVE  Keeps \/ \E b \in Bolt : Settles(b)
  <2>1. PICK b \in request[r].todo : PollSettled(r, b) \/ PollDropped(r, b) \/ PollPassed(r, b)
    BY <1>3 DEF PollQuote
  <2>2. b \in Bolt  BY DEF Req
  <2>3. lnd' = lnd  BY <1>3 DEF PollQuote
  <2>4. UNCHANGED <<off, extra>> \/ Settles(b)
    BY <2>1, <2>3 DEF PollSettled, PollDropped, PollPassed, Settled, Settles
  <2> QED  BY <2>2, <2>4 DEF Keeps
<1>4. ASSUME NEW r \in Request, MarkCanceled(r) PROVE Keeps
  BY <1>0, <1>4 DEF MarkCanceled, Keeps, Status
<1>5. ASSUME NEW t \in Task, RefreshUpsert(t)
      PROVE  Keeps \/ \E b \in Bolt : Settles(b) \/ Adds(b)
  <2>1. refresh[t].bolt \in Bolt /\ lnd[refresh[t].bolt] = "SETTLED" /\ lnd' = lnd
    BY <1>5 DEF RefreshUpsert, Arrived
  <2>2. \/ UNCHANGED <<off, extra>> \/ Settles(refresh[t].bolt) \/ Adds(refresh[t].bolt)
    BY <1>5, <2>1 DEF RefreshUpsert, Settles, Adds
  <2> QED  BY <2>1, <2>2 DEF Keeps
<1>6. ASSUME NEW r \in Request, Polling(r), ~PollQuote(r) PROVE UNCHANGED <<off, extra>>
  BY <1>6 DEF Polling, Poll, PollQuotes, PollClear, PollAgain, PollFails,
     PollOnchain, PollOnchainQuote, PollTxn, PollOnchainAgain, PollOnchainFails, PollDecides
<1>7. ASSUME NEW r \in Request, Canceling(r) \/ Crash(r), ~MarkCanceled(r)
      PROVE  UNCHANGED <<off, extra>>
  BY <1>7 DEF Canceling, Crash, CancelOffchain, FindQuotes, DropQuotes,
     CancelOnchain, MarkOnchainCanceled, DropOnchainQuote
<1>8. ASSUME NEW t \in Task, RefreshStep(t) \/ RefreshAnswered(t) \/ RefreshFails(t),
             ~RefreshUpsert(t)
      PROVE  UNCHANGED <<off, extra>>
  BY <1>8 DEF RefreshStep, RefreshAnswered, RefreshFails, Refresh, RefreshLookup, RefreshClear
<1>9. ASSUME NEW b \in Bolt, GenerateBolt11(b) \/ StoreQuote(b) \/ Pay(b) \/ Expire(b)
      PROVE  UNCHANGED <<off, extra>>
  BY <1>9 DEF GenerateBolt11, StoreQuote, Pay, Expire
<1>10. CASE CreateOnchain \/ GenerateOnchainQuote \/ ChainMoves \/ ScanChain \/ UNCHANGED vars
  BY <1>1, <1>10 DEF CreateOnchain, GenerateOnchainQuote, ChainMoves, ScanChain, vars
<1> QED
  BY <1>1, <1>2, <1>3, <1>4, <1>5, <1>6, <1>7, <1>8, <1>9, <1>10 DEF Next

(* A refresh holds bolt11s that LND has settled.                            *)
Holds(f, d) ==
  /\ f.step = "upsert" => d[f.bolt] = "SETTLED"
  /\ f.step \in {"loop", "upsert", "clear"} => \A b \in f.todo : d[b] = "SETTLED"

LEMMA RefreshHolds ==
  ASSUME Types, Arrived, [Next]_vars, NEW t \in Task
  PROVE  Holds(refresh'[t], lnd)
<1> USE DEF Types, lightning, atNode, onchain
<1>0. /\ refresh[t] \in Ref /\ refresh[t].todo \in SUBSET Bolt
      /\ Holds(refresh[t], lnd) /\ Holds(Rest, lnd)
  BY DEF Ref, Arrived, Holds, Rest
<1>1. CASE refresh'[t] = refresh[t]  BY <1>0, <1>1
<1>2. CASE refresh' = [refresh EXCEPT ![t] = Rest]  BY <1>0, <1>2
<1>3. CASE Refresh(t)
  <2>1. refresh'[t].step = "lnd"  BY <1>0, <1>3 DEF Refresh, Ref
  <2> QED  BY <2>1 DEF Holds
<1>4. CASE RefreshAnswered(t)
  <2>1. PICK T : T = {b \in Bolt : Settled(b)} \ refresh[t].todo  OBVIOUS
  <2>2. refresh' = [refresh EXCEPT ![t].step = "loop", ![t].todo = T]
    BY <1>4, <2>1 DEF RefreshAnswered
  <2>3. refresh'[t].step = "loop" /\ refresh'[t].todo = T  BY <1>0, <2>2 DEF Ref
  <2> QED  BY <2>1, <2>3 DEF Holds, Settled
<1>5. ASSUME NEW b \in refresh[t].todo, refresh[t].step = "loop",
             refresh' = [refresh EXCEPT ![t] = [step |-> "upsert", todo |-> @.todo \ {b},
                                                bolt |-> b, mine |-> b \in quotes]]
      PROVE  Holds(refresh'[t], lnd)
  <2>1. refresh'[t].bolt = b /\ refresh'[t].todo = refresh[t].todo \ {b}  BY <1>5
  <2> QED  BY <1>0, <1>5, <2>1 DEF Holds
<1>6. ASSUME RefreshUpsert(t) \/ RefreshClear(t) PROVE Holds(refresh'[t], lnd)
  <2>1. PICK s \in {"clear", "loop"} : refresh' = [refresh EXCEPT ![t].step = s]
    BY <1>6 DEF RefreshUpsert, RefreshClear
  <2>2. refresh'[t].step = s /\ refresh'[t].todo = refresh[t].todo  BY <1>0, <2>1 DEF Ref
  <2>3. refresh[t].step \in {"upsert", "clear"}  BY <1>6 DEF RefreshUpsert, RefreshClear
  <2> QED  BY <1>0, <2>2, <2>3 DEF Holds
<1>7. ASSUME RefreshStep(t) \/ RefreshAnswered(t) \/ RefreshFails(t)
      PROVE  Holds(refresh'[t], lnd)
  <2>1. CASE RefreshLookup(t)
    BY <1>2, <1>5, <2>1 DEF RefreshLookup
  <2> QED  BY <1>2, <1>3, <1>4, <1>6, <1>7, <2>1 DEF RefreshStep, RefreshFails
<1>8. ASSUME NEW u \in Task, u # t, RefreshStep(u) \/ RefreshAnswered(u) \/ RefreshFails(u)
      PROVE  refresh'[t] = refresh[t]
  BY <1>8 DEF RefreshStep, RefreshAnswered, RefreshFails, Refresh, RefreshLookup,
     RefreshUpsert, RefreshClear
<1>9. ASSUME NEW r \in Request, Polling(r) \/ Canceling(r) \/ Crash(r)
      PROVE  refresh' = refresh
  <2>1. CASE Polling(r)
    BY <2>1 DEF Polling, Poll, PollQuotes, PollQuote, PollClear, PollAgain, PollFails,
       PollOnchain, PollOnchainQuote, PollTxn, PollOnchainAgain, PollOnchainFails, PollDecides
  <2>2. CASE Canceling(r) \/ Crash(r)
    BY <2>2 DEF Canceling, Crash, CancelOffchain, MarkCanceled, FindQuotes, DropQuotes,
       CancelOnchain, MarkOnchainCanceled, DropOnchainQuote
  <2> QED  BY <1>9, <2>1, <2>2
<1>10. ASSUME NEW b \in Bolt, GenerateBolt11(b) \/ StoreQuote(b) \/ Pay(b) \/ Expire(b)
       PROVE  refresh' = refresh
  BY <1>10 DEF GenerateBolt11, StoreQuote, Pay, Expire
<1>11. ASSUME CreateOffchain \/ CreateOnchain \/ GenerateOnchainQuote \/ ChainMoves \/ ScanChain
              \/ UNCHANGED vars
       PROVE  refresh' = refresh
  BY <1>11 DEF CreateOffchain, CreateOnchain, GenerateOnchainQuote, ChainMoves, ScanChain, vars
<1> QED  BY <1>1, <1>7, <1>8, <1>9, <1>10, <1>11 DEF Next

LEMMA ArrivedStep ==
  ASSUME Types, Types', Arrived, [Next]_vars
  PROVE  Arrived'
<1> USE DEF Types
<1>1. \A b \in Bolt : lnd[b] = "SETTLED" => lnd'[b] = "SETTLED"  BY SettledStays
<1>2. off'.status = "PAID" => lnd'[off'.settled] = "SETTLED"
  <2>1. CASE Keeps  BY <1>1, <2>1 DEF Keeps, Lightning, Arrived
  <2>2. ASSUME NEW b \in Bolt, Settles(b) PROVE lnd'[off'.settled] = "SETTLED"
    BY <2>2 DEF Settles
  <2>3. ASSUME NEW b \in Bolt, Adds(b) PROVE off'.status = "PAID" => lnd'[off'.settled] = "SETTLED"
    BY <2>3 DEF Adds, Arrived
  <2> QED  BY <2>1, <2>2, <2>3, Entries
<1>3. ASSUME NEW t \in Task PROVE Holds(refresh'[t], lnd')
  <2>1. Holds(refresh'[t], lnd)  BY RefreshHolds
  <2>2. /\ refresh'[t].step = "upsert" => refresh'[t].bolt \in Bolt
        /\ refresh'[t].todo \subseteq Bolt
    BY DEF Ref
  <2> QED  BY <1>1, <2>1, <2>2 DEF Holds
<1> QED  BY <1>2, <1>3 DEF Arrived, Holds

LEMMA ApartStep ==
  ASSUME Types, Arrived, Apart, [Next]_vars
  PROVE  Apart'
BY Entries DEF Apart, Keeps, Settles, Adds

LEMMA OnArrivedStep ==
  ASSUME Types, OnArrived, [Next]_vars
  PROVE  OnArrived'
<1> USE DEF Types, Onchain, OnArrived, lightning, atNode, onchain
<1>1. CASE on' = on /\ txn' = txn  BY <1>1
<1>2. CASE CreateOnchain
  <2>1. on'.paid = on.paid /\ on'.status = "PENDING"  BY <1>2 DEF CreateOnchain, On
  <2> QED  BY <1>2, <2>1 DEF CreateOnchain
<1>3. CASE ChainMoves  BY <1>3 DEF ChainMoves
<1>4. CASE ScanChain
  <2>1. [on EXCEPT !.status = "PAID"].paid = on.paid  BY DEF On
  <2> QED  BY <1>4, <2>1 DEF ScanChain
<1>5. ASSUME NEW r \in Request, PollTxn(r) PROVE OnArrived'  BY <1>5 DEF PollTxn
<1>6. ASSUME NEW r \in Request, MarkOnchainCanceled(r) PROVE OnArrived'
  <2>1. [on EXCEPT !.status = "CANCELED"].paid = on.paid
        /\ [on EXCEPT !.status = "CANCELED"].status = "CANCELED"
    BY DEF On
  <2> QED  BY <1>6, <2>1 DEF MarkOnchainCanceled
<1>7. ASSUME NEW r \in Request, Polling(r), ~PollTxn(r) PROVE on' = on /\ txn' = txn
  BY <1>7 DEF Polling, Poll, PollQuotes, PollQuote, PollClear, PollAgain, PollFails,
     PollOnchain, PollOnchainQuote, PollOnchainAgain, PollOnchainFails, PollDecides
<1>8. ASSUME NEW r \in Request, Canceling(r) \/ Crash(r), ~MarkOnchainCanceled(r)
      PROVE  on' = on /\ txn' = txn
  BY <1>8 DEF Canceling, Crash, CancelOffchain, MarkCanceled, FindQuotes, DropQuotes,
     CancelOnchain, DropOnchainQuote
<1>9. ASSUME NEW t \in Task, RefreshStep(t) \/ RefreshAnswered(t) \/ RefreshFails(t)
      PROVE  on' = on /\ txn' = txn
  BY <1>9 DEF RefreshStep, RefreshAnswered, RefreshFails, Refresh, RefreshLookup,
     RefreshUpsert, RefreshClear
<1>10. ASSUME NEW b \in Bolt, GenerateBolt11(b) \/ StoreQuote(b) \/ Pay(b) \/ Expire(b)
       PROVE  on' = on /\ txn' = txn
  BY <1>10 DEF GenerateBolt11, StoreQuote, Pay, Expire
<1>11. CASE CreateOffchain \/ GenerateOnchainQuote \/ UNCHANGED vars
  BY <1>1, <1>11 DEF CreateOffchain, GenerateOnchainQuote, vars
<1> QED
  BY <1>1, <1>2, <1>3, <1>4, <1>5, <1>6, <1>7, <1>8, <1>9, <1>10, <1>11 DEF Next

(* The inductive invariant of the money.                                    *)
Money == Types /\ Arrived /\ OnArrived /\ Apart

LEMMA MoneyInvariant == Spec => []Money
<1>1. Init => Money
  <2> SUFFICES ASSUME Init PROVE Money  OBVIOUS
  <2>1. Types  BY InitTyped
  <2>2. Arrived  BY DEF Init, Arrived, Rest
  <2> QED  BY <2>1, <2>2 DEF Init, Money, OnArrived, Apart
<1>2. Money /\ [Next]_vars => Money'
  BY StepTyped, ArrivedStep, OnArrivedStep, ApartStep DEF Money
<1> QED  BY <1>1, <1>2, PTL DEF Spec

(* A paid invoice has the money of its rail, for any number of requests     *)
(* and refreshes that overlap.                                              *)
THEOREM PaidReceived == Spec => []PaidIsReceived
<1>1. Money => PaidIsReceived
  BY DEF Money, Types, Lightning, Arrived, OnArrived, PaidIsReceived
<1> QED  BY <1>1, MoneyInvariant, PTL

-----------------------------------------------------------------------------
(* The book of PaymentBook: the entries of a payment.                       *)
Received == {b \in Bolt : lnd[b] = "SETTLED"}
Entered == [b \in Bolt |-> (IF off.settled = b THEN 1 ELSE 0) + (IF b \in extra THEN 1 ELSE 0)]

LEMMA BookIs == Received' = Received /\ Entered' = Entered => Book!vars' = Book!vars
BY DEF Book!vars, Received, Entered

(* No bolt11 is counted twice.                                              *)
OnceEach == [b \in Bolt |-> IF b = off.settled \/ b \in extra THEN 1 ELSE 0]

LEMMA EnteredOnceEach == Apart => Entered = OnceEach
<1> SUFFICES ASSUME Apart, NEW b \in Bolt
             PROVE  (IF off.settled = b THEN 1 ELSE 0) + (IF b \in extra THEN 1 ELSE 0)
                      = IF b = off.settled \/ b \in extra THEN 1 ELSE 0
  BY DEF Entered, OnceEach
<1>1. ~(off.settled = b /\ b \in extra)  BY DEF Apart
<1>2. CASE off.settled = b  BY <1>1, <1>2
<1>3. CASE off.settled # b  BY <1>3
<1> QED  BY <1>2, <1>3

LEMMA EnteredOnceEachNext == Apart' => Entered' = OnceEach'
<1> SUFFICES ASSUME Apart', NEW b \in Bolt
             PROVE  (IF off'.settled = b THEN 1 ELSE 0) + (IF b \in extra' THEN 1 ELSE 0)
                      = IF b = off'.settled \/ b \in extra' THEN 1 ELSE 0
  BY DEF Entered, OnceEach
<1>1. ~(off'.settled = b /\ b \in extra')  BY DEF Apart
<1>2. CASE off'.settled = b  BY <1>1, <1>2
<1>3. CASE off'.settled # b  BY <1>3
<1> QED  BY <1>2, <1>3

LEMMA Count ==
  ASSUME NEW b \in Bolt
  PROVE  /\ off.settled = b /\ b \notin extra => Entered[b] = 1
         /\ off.settled # b /\ b \in extra => Entered[b] = 1
         /\ off.settled # b /\ b \notin extra => Entered[b] = 0
BY DEF Entered

(* Money arrives one payment at a time.                                     *)
LEMMA Receipts ==
  ASSUME Types, [Next]_vars
  PROVE  \/ Received' = Received
         \/ \E b \in Bolt : Book!Receive(b)
<1> USE DEF Types, AtNode, lightning, atNode, onchain
<1>1. ASSUME lnd' = lnd PROVE Received' = Received  BY <1>1 DEF Received
<1>2. ASSUME NEW b \in Bolt, Pay(b) PROVE Book!Receive(b)
  <2>1. Received' = Received \cup {b} /\ b \notin Received  BY <1>2 DEF Pay, Received
  <2>2. Entered' = Entered  BY <1>2 DEF Pay, Entered
  <2> QED  BY <2>1, <2>2 DEF Book!Receive, Received, Entered
<1>3. ASSUME NEW b \in Bolt, GenerateBolt11(b) \/ StoreQuote(b) \/ Expire(b)
      PROVE  Received' = Received
  BY <1>3 DEF GenerateBolt11, StoreQuote, Expire, Received
<1>4. ASSUME NEW r \in Request, Polling(r) PROVE Received' = Received
  <2>1. CASE PollClear(r)  BY <2>1 DEF PollClear, Received
  <2> QED
    BY <1>1, <1>4, <2>1 DEF Polling, Poll, PollQuotes, PollQuote, PollAgain, PollFails,
       PollOnchain, PollOnchainQuote, PollTxn, PollOnchainAgain, PollOnchainFails, PollDecides
<1>5. ASSUME NEW r \in Request, Canceling(r) \/ Crash(r) PROVE Received' = Received
  <2>1. CASE FindQuotes(r)  BY <2>1 DEF FindQuotes, Received
  <2> QED
    BY <1>1, <1>5, <2>1 DEF Canceling, Crash, CancelOffchain, MarkCanceled, DropQuotes,
       CancelOnchain, MarkOnchainCanceled, DropOnchainQuote
<1>6. ASSUME NEW t \in Task, RefreshStep(t) \/ RefreshAnswered(t) \/ RefreshFails(t)
      PROVE  lnd' = lnd
  BY <1>6 DEF RefreshStep, RefreshAnswered, RefreshFails, Refresh, RefreshLookup,
     RefreshUpsert, RefreshClear
<1>7. ASSUME \/ CreateOffchain \/ CreateOnchain \/ GenerateOnchainQuote \/ ChainMoves
             \/ ScanChain \/ UNCHANGED vars
      PROVE  lnd' = lnd
  BY <1>7 DEF CreateOffchain, CreateOnchain, GenerateOnchainQuote, ChainMoves, ScanChain, vars
<1> QED  BY <1>1, <1>2, <1>3, <1>4, <1>5, <1>6, <1>7 DEF Next

(* An entry of the model is one of the book, or replaces one.               *)
LEMMA BookStep ==
  ASSUME Money, [Next]_vars
  PROVE  [Book!Next]_(Book!vars)
<1> USE DEF Money
<1>0. Entered = OnceEach /\ Entered' = OnceEach'
  BY ApartStep, EnteredOnceEach, EnteredOnceEachNext
<1>1. CASE Keeps
  <2>1. Entered' = Entered  BY <1>1 DEF Keeps, Entered
  <2> QED  BY <2>1, Receipts, BookIs DEF Book!Next
<1>2. ASSUME NEW b \in Bolt, Settles(b) PROVE [Book!Next]_(Book!vars)
  <2>1. Received' = Received /\ b \in Received  BY <1>2 DEF Settles, Received
  <2>2. CASE off.settled = b
    <3>1. Entered' = Entered  BY <1>2, <2>2 DEF Settles, Entered
    <3> QED  BY <2>1, <3>1, BookIs
  <2>3. CASE off.settled = NoBolt
    <3>1. off.settled # b  BY <2>3
    <3>2. Entered[b] = 0  BY <1>2, <3>1, Count DEF Settles
    <3>3. Entered' = [Entered EXCEPT ![b] = 1]
      BY <1>0, <1>2, <2>3 DEF Settles, OnceEach
    <3> QED  BY <2>1, <3>2, <3>3 DEF Book!Next, Book!Enter, Received, Entered
  <2>4. CASE off.settled \in Bolt /\ off.settled # b
    <3> DEFINE p == off.settled
    <3>1. Entered[p] = 1 /\ Entered[b] = 0  BY <1>2, <2>4, Count DEF Settles, Apart
    <3>2. Entered' = [Entered EXCEPT ![p] = 0, ![b] = 1]
      BY <1>0, <1>2, <2>4 DEF Settles, OnceEach, Apart
    <3>3. Book!Replace(p, b)
      BY <2>1, <2>4, <3>1, <3>2 DEF Book!Replace, Received, Entered
    <3> QED  BY <2>4, <3>3 DEF Book!Next
  <2> QED  BY <2>2, <2>3, <2>4 DEF Types, Lightning, Off
<1>3. ASSUME NEW b \in Bolt, Adds(b) PROVE [Book!Next]_(Book!vars)
  <2>1. Received' = Received /\ b \in Received  BY <1>3 DEF Adds, Received
  <2>2. Entered[b] = 0  BY <1>3, Count DEF Adds
  <2>3. Entered' = [Entered EXCEPT ![b] = 1]  BY <1>0, <1>3 DEF Adds, OnceEach
  <2> QED  BY <2>1, <2>2, <2>3 DEF Book!Next, Book!Enter, Received, Entered
<1> QED  BY <1>1, <1>2, <1>3, Entries

(* The safety of EnteredOnce: whatever overlaps, a payment that arrived is  *)
(* entered once or not yet, and every step is one of PaymentBook.           *)
THEOREM EntersSafely == Spec => Book!Init /\ [][Book!Next]_(Book!vars)
<1>1. Init => Book!Init
  <2> SUFFICES ASSUME Init PROVE Book!Init  OBVIOUS
  <2>1. {b \in Bolt : lnd[b] = "SETTLED"} = {}  BY DEF Init
  <2>2. Entered = [b \in Bolt |-> 0]
    <3>1. \A b \in Bolt : off.settled # b /\ b \notin extra  BY DEF Init
    <3> QED  BY <3>1 DEF Entered
  <2> QED  BY <2>1, <2>2 DEF Book!Init, Entered
<1>2. Money /\ [Next]_vars => [Book!Next]_(Book!vars)  BY BookStep
<1> QED  BY <1>1, <1>2, MoneyInvariant, PTL DEF Spec

-----------------------------------------------------------------------------
(* What a poll has seen of a rail outlives the poll: an invoice that was    *)
(* paid or canceled is never pending again.                                 *)
Open == {"none", "PENDING"}
Knows(q) ==
  /\ q.off # "null" => off.status \notin Open
  /\ q.on # "null" => on.status \notin Open
  /\ q.step = "cancelOff" => q.on = "PAID"
  /\ q.step = "cancelOn" => q.off = "PAID"
Closed == Types /\ \A r \in Request : Knows(request[r])

LEMMA StaysClosed ==
  ASSUME Types, [Next]_vars
  PROVE  /\ off.status \notin Open => off'.status \notin Open
         /\ on.status \notin Open => on'.status \notin Open
<1> USE DEF Types, Open, lightning, atNode, onchain
<1>0. /\ \A s \in Status : [off EXCEPT !.status = s].status = s
      /\ \A s \in Status : [on EXCEPT !.status = s].status = s
  BY DEF Lightning, Onchain, Off, On
<1>1. ASSUME NEW r \in Request, Polling(r)
      PROVE  /\ off' = off \/ off'.status = "PAID"
             /\ on' = on \/ on'.status = "PAID"
  BY <1>1 DEF Polling, Poll, PollQuotes, PollQuote, PollSettled, PollDropped, PollPassed,
     PollClear, PollAgain, PollFails,
     PollOnchain, PollOnchainQuote, PollTxn, PollOnchainAgain, PollOnchainFails, PollDecides
<1>2. ASSUME NEW r \in Request, Canceling(r) \/ Crash(r)
      PROVE  /\ off' = off \/ off'.status = "CANCELED"
             /\ on' = on \/ on'.status = "CANCELED"
  BY <1>0, <1>2 DEF Canceling, Crash, CancelOffchain, MarkCanceled, FindQuotes, DropQuotes,
     CancelOnchain, MarkOnchainCanceled, DropOnchainQuote, Status
<1>3. ASSUME NEW t \in Task, RefreshStep(t) \/ RefreshAnswered(t) \/ RefreshFails(t)
      PROVE  on' = on /\ (off' = off \/ off'.status = "PAID")
  BY <1>3 DEF RefreshStep, RefreshAnswered, RefreshFails, Refresh, RefreshLookup,
     RefreshUpsert, RefreshClear
<1>4. ASSUME NEW b \in Bolt, GenerateBolt11(b) \/ StoreQuote(b) \/ Pay(b) \/ Expire(b)
      PROVE  off' = off /\ on' = on
  BY <1>4 DEF GenerateBolt11, StoreQuote, Pay, Expire
<1>5. CASE GenerateOnchainQuote \/ ChainMoves \/ UNCHANGED vars
  BY <1>5 DEF GenerateOnchainQuote, ChainMoves, vars
<1>6. CASE ScanChain  BY <1>0, <1>6 DEF ScanChain, Status
<1>7. CASE CreateOffchain \/ CreateOnchain
  BY <1>7 DEF CreateOffchain, CreateOnchain
<1> QED  BY <1>1, <1>2, <1>3, <1>4, <1>5, <1>6, <1>7 DEF Next

LEMMA ReqFields ==
  ASSUME NEW q \in Req
  PROVE  /\ \A s : LET p == [q EXCEPT !.step = s] IN
              p.step = s /\ p.off = q.off /\ p.on = q.on
         /\ \A s, T : LET p == [q EXCEPT !.step = s, !.todo = T] IN
              p.step = s /\ p.off = q.off /\ p.on = q.on
         /\ \A s, T : LET p == [q EXCEPT !.todo = T, !.step = s] IN
              p.step = s /\ p.off = q.off /\ p.on = q.on
         /\ \A T : LET p == [q EXCEPT !.todo = T] IN
              p.step = q.step /\ p.off = q.off /\ p.on = q.on
         /\ \A s, f : LET p == [q EXCEPT !.step = s, !.off = f] IN
              p.step = s /\ p.off = f /\ p.on = q.on
         /\ \A s, f : LET p == [q EXCEPT !.step = s, !.on = f] IN
              p.step = s /\ p.off = q.off /\ p.on = f
         /\ \A s, f : LET p == [q EXCEPT !.on = f, !.step = s] IN
              p.step = s /\ p.off = q.off /\ p.on = f
         /\ \A s, f, T : LET p == [q EXCEPT !.step = s, !.off = f, !.todo = T] IN
              p.step = s /\ p.off = f /\ p.on = q.on
BY DEF Req

LEMMA FinalKnown ==
  ASSUME NEW s \in Status, Final(s) # "null"
  PROVE  s \notin Open
BY DEF Final, Seen, Status, Open

(* Only its own steps move a request.                                       *)
LEMMA OthersRest ==
  ASSUME Types, [Next]_vars, NEW r \in Request
  PROVE  Polling(r) \/ Canceling(r) \/ Crash(r) \/ request'[r] = request[r]
<1>0. request \in [Request -> Req]  BY DEF Types
<1>1. ASSUME NEW u \in Request, u # r, Polling(u)
      PROVE  request'[r] = request[r]
  BY <1>0, <1>1 DEF Polling, Poll, PollQuotes, PollQuote, PollSettled, PollDropped,
     PollPassed, PollClear, PollAgain, PollFails, PollOnchain, PollOnchainQuote, PollTxn,
     PollOnchainAgain, PollOnchainFails, PollDecides, Goes, Starts, Ends
<1>2. ASSUME NEW u \in Request, u # r, Canceling(u) \/ Crash(u)
      PROVE  request'[r] = request[r]
  BY <1>0, <1>2 DEF Canceling, Crash, CancelOffchain, MarkCanceled, FindQuotes,
     DropQuotes, CancelOnchain, MarkOnchainCanceled, DropOnchainQuote, Goes, Starts, Ends
<1>3. ASSUME NEW t \in Task, RefreshStep(t) \/ RefreshAnswered(t) \/ RefreshFails(t)
      PROVE  request' = request
  BY <1>3 DEF RefreshStep, RefreshAnswered, RefreshFails, Refresh, RefreshLookup,
     RefreshUpsert, RefreshClear
<1>4. ASSUME NEW b \in Bolt, GenerateBolt11(b) \/ StoreQuote(b) \/ Pay(b) \/ Expire(b)
      PROVE  request' = request
  BY <1>4 DEF GenerateBolt11, StoreQuote, Pay, Expire
<1>5. ASSUME \/ CreateOffchain \/ CreateOnchain \/ GenerateOnchainQuote \/ ChainMoves
             \/ ScanChain \/ UNCHANGED vars
      PROVE  request' = request
  BY <1>5 DEF CreateOffchain, CreateOnchain, GenerateOnchainQuote, ChainMoves, ScanChain, vars
<1> QED  BY <1>1, <1>2, <1>3, <1>4, <1>5 DEF Next

LEMMA RequestKnows ==
  ASSUME Closed, [Next]_vars, NEW r \in Request
  PROVE  Knows(request'[r])
<1> USE DEF Closed
<1>0. /\ request[r] \in Req /\ request \in [Request -> Req] /\ Knows(request[r])
      /\ off.status \in Status /\ on.status \in Status
      /\ off.status = "PAID" => off.status \notin Open
  BY DEF Types, Lightning, Onchain, Off, On, Open
<1>1. /\ Final(off.status) # "null" => off.status \notin Open
      /\ Final(on.status) # "null" => on.status \notin Open
  BY <1>0, FinalKnown
<1>2. CASE request'[r] = request[r]  BY <1>0, <1>2
<1>3. ASSUME NEW s, s \notin {"cancelOff", "cancelOn"}, Goes(r, s) PROVE Knows(request'[r])
  BY <1>0, <1>3, ReqFields DEF Goes, Knows
<1>4. ASSUME NEW s, s \notin {"cancelOff", "cancelOn"}, Starts(r, s) PROVE Knows(request'[r])
  <2>1. request'[r] = [Idle EXCEPT !.step = s]  BY <1>0, <1>4 DEF Starts
  <2>2. /\ request'[r].step = s
        /\ request'[r].off = "null" /\ request'[r].on = "null"
    BY <2>1 DEF Idle
  <2> QED  BY <1>4, <2>2 DEF Knows
<1>5. CASE Poll(r) \/ PollAgain(r)
  <2>1. PICK s \in {"quotes", "on"} :
          request'[r] = [request[r] EXCEPT !.step = s, !.off = Final(off.status)]
    BY <1>0, <1>5 DEF Poll, PollAgain
  <2> QED  BY <1>0, <1>1, <2>1, ReqFields DEF Knows
<1>6. CASE PollQuotes(r)
  <2>1. PICK s : s = IF quotes = {} THEN "on" ELSE "loop"  OBVIOUS
  <2>2. request'[r] = [request[r] EXCEPT !.todo = quotes, !.step = s]
    BY <1>0, <1>6, <2>1 DEF PollQuotes
  <2> QED  BY <1>0, <2>1, <2>2, ReqFields DEF Knows
<1>7. CASE PollQuote(r)
  <2>1. PICK T :
          \/ request'[r] = [request[r] EXCEPT !.step = "on", !.off = "null", !.todo = {}]
          \/ request'[r] = [request[r] EXCEPT !.step = "clear", !.todo = T]
          \/ request'[r] = [request[r] EXCEPT !.todo = T]
    <3>1. PICK b : PollSettled(r, b) \/ PollDropped(r, b) \/ PollPassed(r, b)
      BY <1>7 DEF PollQuote
    <3>2. PICK T : T = request[r].todo \ {b}  OBVIOUS
    <3> QED  BY <1>0, <3>1, <3>2 DEF PollSettled, PollDropped, PollPassed
  <2>2. CASE request'[r] = [request[r] EXCEPT !.step = "on", !.off = "null", !.todo = {}]
    BY <1>0, <2>2, ReqFields DEF Knows
  <2>3. CASE request'[r] = [request[r] EXCEPT !.step = "clear", !.todo = T]
    BY <1>0, <2>3, ReqFields DEF Knows
  <2>4. CASE request'[r] = [request[r] EXCEPT !.todo = T]
    <3>1. /\ request'[r].step = request[r].step /\ request'[r].off = request[r].off
          /\ request'[r].on = request[r].on
      BY <1>0, <2>4, ReqFields
    <3> QED  BY <1>0, <3>1 DEF Knows
  <2> QED  BY <2>1, <2>2, <2>3, <2>4
<1>8. CASE PollFails(r)
  <2>1. request'[r] = [request[r] EXCEPT !.step = "on", !.off = "null", !.todo = {}]
    BY <1>0, <1>8 DEF PollFails
  <2> QED  BY <1>0, <2>1, ReqFields DEF Knows
<1>9. CASE PollOnchain(r)
  <2>1. PICK s \in {"onQuote", "decide"} :
          request'[r] = [request[r] EXCEPT !.on = Final(on.status), !.step = s]
    BY <1>0, <1>9 DEF PollOnchain
  <2> QED  BY <1>0, <1>1, <2>1, ReqFields DEF Knows
<1>10. CASE PollOnchainAgain(r)
  <2>1. request'[r] = [request[r] EXCEPT !.step = "decide", !.on = Final(on.status)]
    BY <1>0, <1>10 DEF PollOnchainAgain
  <2> QED  BY <1>0, <1>1, <2>1, ReqFields DEF Knows
<1>11. CASE PollOnchainFails(r)
  <2>1. request'[r] = [request[r] EXCEPT !.step = "decide", !.on = "null"]
    BY <1>0, <1>11 DEF PollOnchainFails
  <2> QED  BY <1>0, <2>1, ReqFields DEF Knows
<1>12. CASE PollDecides(r)
  <2>1. CASE Ends(r)  BY <1>4, <2>1 DEF Ends
  <2>2. ASSUME Goes(r, Verdict(request[r])), Verdict(request[r]) # "idle"
        PROVE  Knows(request'[r])
    <3>1. \/ Verdict(request[r]) = "cancelOff" /\ request[r].on = "PAID"
          \/ Verdict(request[r]) = "cancelOn" /\ request[r].off = "PAID"
      BY <2>2 DEF Verdict
    <3>2. request'[r] = [request[r] EXCEPT !.step = Verdict(request[r])]
      BY <1>0, <2>2 DEF Goes
    <3>3. /\ request'[r].step = Verdict(request[r])
          /\ request'[r].off = request[r].off /\ request'[r].on = request[r].on
      BY <1>0, <3>2, ReqFields
    <3> QED  BY <1>0, <3>1, <3>3 DEF Knows
  <2> QED  BY <1>12, <2>1, <2>2 DEF PollDecides
<1>13. CASE PollClear(r) \/ PollOnchainQuote(r) \/ PollTxn(r)
  BY <1>3, <1>13 DEF PollClear, PollOnchainQuote, PollTxn
<1>14. CASE Canceling(r) \/ Crash(r)
  BY <1>3, <1>4, <1>14 DEF Canceling, Crash, CancelOffchain, MarkCanceled, FindQuotes, DropQuotes,
     CancelOnchain, MarkOnchainCanceled, DropOnchainQuote, Ends
<1>15. Polling(r) \/ Canceling(r) \/ Crash(r) \/ request'[r] = request[r]
  BY OthersRest
<1>16. ASSUME Polling(r) PROVE Knows(request'[r])
  BY <1>5, <1>6, <1>7, <1>8, <1>9, <1>10, <1>11, <1>12, <1>13, <1>16 DEF Polling
<1> QED  BY <1>2, <1>14, <1>15, <1>16

LEMMA ClosedInvariant == Spec => []Closed
<1>1. Init => Closed
  BY InitTyped DEF Init, Closed, Knows, Idle
<1>2. Closed /\ [Next]_vars => Closed'
  <2> SUFFICES ASSUME Closed, [Next]_vars PROVE Closed'  OBVIOUS
  <2>1. Types'  BY StepTyped DEF Closed
  <2>2. ASSUME NEW r \in Request PROVE Knows(request[r])'
    BY RequestKnows, StaysClosed DEF Knows, Closed
  <2> QED  BY <2>1, <2>2 DEF Closed
<1> QED  BY <1>1, <1>2, PTL DEF Spec

(* A poll that has seen one rail paid leaves neither rail pending, however  *)
(* many polls and cancelations overlap with it.                             *)
THEOREM PollsClose == Spec => PollCloses
<1>1. ASSUME Closed, Closed', [Next]_vars, NEW r \in Request,
             request[r].step \in Deciding, request'[r].step = "idle",
             "PAID" \in {request[r].off, request[r].on}
      PROVE  "PENDING" \notin {off.status, on.status}
  <2> USE DEF Closed
  <2>t. Types /\ Knows(request[r])  BY <1>1
  <2>0. Knows(request[r]) /\ request \in [Request -> Req] /\ request[r] \in Req
    <3>1. request \in [Request -> Req]  BY <2>t DEF Types
    <3> QED  BY <2>t, <3>1
  <2>1. CASE PollDecides(r)
    <3>1. Verdict(request[r]) = "idle"
      <4> SUFFICES ASSUME Verdict(request[r]) # "idle" PROVE FALSE  OBVIOUS
      <4>1. request'[r] = [request[r] EXCEPT !.step = Verdict(request[r])]
        BY <2>0, <2>1 DEF PollDecides, Goes
      <4>2. request'[r].step = Verdict(request[r])  BY <2>0, <4>1, ReqFields
      <4> QED  BY <1>1, <4>2
    <3>2. request[r].on # "null" /\ request[r].off # "null"
      BY <1>1, <2>0, <3>1 DEF Verdict, Req, Seen
    <3> QED  BY <2>0, <3>2 DEF Knows, Open
  <2>2. CASE CancelOffchain(r)
    <3>1. request[r].step = "cancelOff" /\ off.status # "PENDING"
      BY <1>1, <2>0, <2>2 DEF CancelOffchain, At, Deciding, Starts, Idle
    <3> QED  BY <2>0, <3>1 DEF Knows, Open
  <2>3. CASE CancelOnchain(r)
    <3>1. request[r].step = "cancelOn" /\ on.status # "PENDING"
      BY <1>1, <2>0, <2>3 DEF CancelOnchain, At, Deciding, Starts, Idle
    <3> QED  BY <2>0, <3>1 DEF Knows, Open
  <2>4. ASSUME request'[r] = request[r] PROVE FALSE  BY <1>1, <2>4 DEF Deciding
  <2>5. ASSUME Polling(r), ~PollDecides(r) PROVE FALSE
    BY <1>1, <2>5 DEF Polling, Poll, PollQuotes, PollQuote, PollClear, PollAgain, PollFails,
       PollOnchain, PollOnchainQuote, PollTxn, PollOnchainAgain, PollOnchainFails, At, Deciding
  <2>6. ASSUME Canceling(r) \/ Crash(r), ~CancelOffchain(r), ~CancelOnchain(r) PROVE FALSE
    BY <1>1, <2>6 DEF Canceling, Crash, MarkCanceled, FindQuotes, DropQuotes,
       MarkOnchainCanceled, DropOnchainQuote, At, Deciding
  <2>7. Polling(r) \/ Canceling(r) \/ Crash(r) \/ request'[r] = request[r]
    BY <1>1, OthersRest
  <2> QED  BY <2>1, <2>2, <2>3, <2>4, <2>5, <2>6, <2>7
<1>2. Closed /\ Closed' /\ [Next]_vars =>
        [\A r \in Request :
           request[r].step \in Deciding /\ At(r, "idle")'
             /\ "PAID" \in {request[r].off, request[r].on}
           => "PENDING" \notin {off.status, on.status}]_vars
  BY <1>1 DEF At
<1> QED  BY <1>2, ClosedInvariant, PTL DEF Spec, PollCloses
=============================================================================
