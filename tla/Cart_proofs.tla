----------------------------- MODULE Cart_proofs -----------------------------
(***************************************************************************)
(* Proofs about Cart: type correctness for any requests and webhooks served *)
(* at once; the promises of the checkout for a user whose requests and     *)
(* webhooks are served one after the other, while Stripe charges, expires  *)
(* and sends at any moment between their steps.                            *)
(***************************************************************************)
EXTENDS Cart, TLAPS

-----------------------------------------------------------------------------
(* What the operators on work and carts return. *)

Stages == {"read", "active", "clear", "cancel", "delete", "empty", "add", "service",
           "token", "link", "offer", "activate", "drop", "save"}
Calls == UserCall \cup EventKind
AnyWork == {NoWork} \cup Work

(* Two works with the same request: the same call with the same arguments.  *)
SameRequest(w, new) ==
  new.call = w.call /\ new.network = w.network /\ new.items = w.items

Typed ==
  /\ TypeOK
  /\ work \in [Handler -> AnyWork]
  /\ \A h \in Handler : work[h].stage = "save" => work[h].call # "add"

LEMMA WorkIs ==
  ASSUME NEW w \in AnyWork
  PROVE  /\ w.stage = "idle" <=> w = NoWork
         /\ w.stage # "idle" => w \in Work
BY DEF AnyWork, NoWork, Work

LEMMA NewCartType ==
  ASSUME NEW n \in Network
  PROVE  /\ NewCart(n) \in Doc
         /\ NewCart(n).status = "EMPTY" /\ NewCart(n).sub = NoSub
         /\ NewCart(n).items = NoItems /\ NewCart(n).network = n
BY CartAssumption DEF NewCart, Doc, NoItems, Items, AllTiers, CartStatus, NoSub

LEMMA NoItemsType == NoItems \in Items /\ NoItems.id = 0
BY CartAssumption DEF NoItems, Items, AllTiers

LEMMA BeginsIs ==
  ASSUME Typed, NEW h \in Handler, NEW call \in Calls, NEW c \in CartId,
         NEW s \in SubId \cup {NoSub}, NEW n \in Network, NEW items \in Items,
         Begins(h, call, c, s, n, items)
  PROVE  /\ work' \in [Handler -> AnyWork]
         /\ \A g \in Handler : g # h => work'[g] = work[g]
         /\ work'[h] \in Work
         /\ work'[h].stage = "read" /\ work'[h].call = call /\ work'[h].cart = c
         /\ work'[h].sub = s /\ work'[h].network = n /\ work'[h].items = items
<1> DEFINE new == [ stage |-> "read", call |-> call, cart |-> c, sub |-> s,
                    network |-> n, items |-> items, copy |-> NewCart(n) ]
<1>1. new \in Work
  BY NewCartType DEF Work, Calls
<1>2. work' = [work EXCEPT ![h] = new]
  BY DEF Begins
<1>3. new.stage = "read" /\ new.call = call /\ new.cart = c /\ new.sub = s
      /\ new.network = n /\ new.items = items
  OBVIOUS
<1> HIDE DEF new
<1>4. QED
  BY <1>1, <1>2, <1>3 DEF Typed, AnyWork

LEMMA EndsIs ==
  ASSUME Typed, NEW h \in Handler, Ends(h)
  PROVE  /\ work' \in [Handler -> AnyWork]
         /\ \A g \in Handler : g # h => work'[g] = work[g]
         /\ work'[h] = NoWork /\ work'[h].stage = "idle"
BY DEF Typed, Ends, AnyWork, NoWork

LEMMA GoesIs ==
  ASSUME Typed, NEW h \in Handler, work[h] \in Work, NEW stage \in Stages, NEW copy \in Doc,
         Goes(h, stage, copy)
  PROVE  /\ work' \in [Handler -> AnyWork]
         /\ \A g \in Handler : g # h => work'[g] = work[g]
         /\ work'[h] \in Work
         /\ work'[h].stage = stage /\ work'[h].copy = copy
         /\ work'[h].cart = work[h].cart /\ work'[h].sub = work[h].sub
         /\ SameRequest(work[h], work'[h])
<1>1. PICK w \in Work : w = work[h]
  OBVIOUS
<1> DEFINE new == [w EXCEPT !.stage = stage, !.copy = copy]
<1>2. new \in Work
  BY DEF Work, Stages
<1>3. new.stage = stage /\ new.copy = copy /\ new.cart = w.cart /\ new.sub = w.sub
      /\ new.call = w.call /\ new.network = w.network /\ new.items = w.items
  BY DEF Work
<1>4. work' = [work EXCEPT ![h] = new]
  BY <1>1 DEF Goes
<1> HIDE DEF new
<1>5. QED
  BY <1>1, <1>2, <1>3, <1>4 DEF Typed, AnyWork, SameRequest

LEMMA FoundIs ==
  ASSUME Typed, NEW h \in Handler, work[h] \in Work, NEW stage \in Stages, NEW c \in CartId,
         Found(h, c, stage)
  PROVE  /\ work' \in [Handler -> AnyWork]
         /\ \A g \in Handler : g # h => work'[g] = work[g]
         /\ work'[h] \in Work
         /\ work'[h].stage = stage /\ work'[h].copy = carts[c]
         /\ work'[h].cart = c /\ work'[h].sub = work[h].sub
         /\ SameRequest(work[h], work'[h])
<1>1. PICK w \in Work : w = work[h]
  OBVIOUS
<1>0. PICK doc \in Doc : doc = carts[c]
  BY DEF Typed, TypeOK
<1> DEFINE new == [w EXCEPT !.stage = stage, !.cart = c, !.copy = doc]
<1>2. new \in Work
  BY DEF Work, Stages
<1>3. new.stage = stage /\ new.copy = doc /\ new.cart = c /\ new.sub = w.sub
      /\ new.call = w.call /\ new.network = w.network /\ new.items = w.items
  BY DEF Work
<1>4. work' = [work EXCEPT ![h] = new]
  BY <1>0, <1>1 DEF Found
<1> HIDE DEF new
<1>5. QED
  BY <1>0, <1>1, <1>2, <1>3, <1>4 DEF Typed, AnyWork, SameRequest

(* ReadActive and Token put a subscription into the work.                   *)
Takes(h, s, stage) == work' = [work EXCEPT ![h] = [@ EXCEPT !.sub = s, !.stage = stage]]

LEMMA TakesIs ==
  ASSUME Typed, NEW h \in Handler, work[h] \in Work, NEW stage \in Stages,
         NEW s \in SubId \cup {NoSub}, Takes(h, s, stage)
  PROVE  /\ work' \in [Handler -> AnyWork]
         /\ \A g \in Handler : g # h => work'[g] = work[g]
         /\ work'[h] \in Work
         /\ work'[h].stage = stage /\ work'[h].copy = work[h].copy
         /\ work'[h].cart = work[h].cart /\ work'[h].sub = s
         /\ SameRequest(work[h], work'[h])
<1>1. PICK w \in Work : w = work[h]
  OBVIOUS
<1> DEFINE new == [w EXCEPT !.sub = s, !.stage = stage]
<1>2. new \in Work
  BY DEF Work, Stages
<1>3. new.stage = stage /\ new.copy = w.copy /\ new.cart = w.cart /\ new.sub = s
      /\ new.call = w.call /\ new.network = w.network /\ new.items = w.items
  BY DEF Work
<1>4. work' = [work EXCEPT ![h] = new]
  BY <1>1 DEF Takes
<1> HIDE DEF new
<1>5. QED
  BY <1>1, <1>2, <1>3, <1>4 DEF Typed, AnyWork, SameRequest

(* What is stored is what was to be saved, but for the version.             *)
LEMMA SavedType ==
  ASSUME NEW new \in Doc, NEW c
  PROVE  /\ Saved(c, new) \in Doc
         /\ Saved(c, new).status = new.status /\ Saved(c, new).sub = new.sub
         /\ Saved(c, new).items = new.items /\ Saved(c, new).network = new.network
<1>1. PICK n \in Nat : n = new.v + 1
  BY DEF Doc
<1>2. [new EXCEPT !.v = n] \in Doc
  BY DEF Doc
<1>3. Saved(c, new) \in {new, [new EXCEPT !.v = n]}
  BY <1>1 DEF Saved
<1>4. QED
  BY <1>2, <1>3 DEF Doc

LEMMA PersistsType ==
  ASSUME Typed, NEW h \in Handler, work[h] \in Work, NEW new \in Doc,
         NEW stage \in Stages \cup {"idle"}, Persists(h, new, stage)
  PROVE  /\ carts' \in [CartId -> Doc]
         /\ work' \in [Handler -> AnyWork]
         /\ \A g \in Handler : g # h => work'[g] = work[g]
         /\ \/ work'[h].stage = "idle"
            \/ work'[h].stage = stage /\ work'[h].call = work[h].call
<1> DEFINE c == work[h].cart
<1>0. PICK doc \in Doc : doc = Saved(c, new)
  BY SavedType
<1>1. c \in CartId /\ carts \in [CartId -> Doc]
  BY DEF Work, Typed, TypeOK
<1>2. CASE Savable(c, new) /\ stage = "idle"
  BY <1>0, <1>1, <1>2, EndsIs DEF Persists
<1>3. CASE Savable(c, new) /\ stage # "idle"
  <2>1. carts' = [carts EXCEPT ![c] = doc] /\ Goes(h, stage, doc)
    BY <1>0, <1>3 DEF Persists
  <2>2. QED
    BY <1>1, <1>3, <2>1, GoesIs DEF SameRequest
<1>4. CASE ~Savable(c, new)
  BY <1>1, <1>4, EndsIs DEF Persists
<1>5. QED
  BY <1>2, <1>3, <1>4

(* One field of a cart written.                                             *)
WithStatus(doc, st) == [doc EXCEPT !.status = st]

LEMMA StatusType ==
  ASSUME NEW doc \in Doc, NEW st \in CartStatus
  PROVE  /\ WithStatus(doc, st) \in Doc /\ WithStatus(doc, st).status = st
         /\ WithStatus(doc, st).sub = doc.sub /\ WithStatus(doc, st).items = doc.items
         /\ WithStatus(doc, st).v = doc.v /\ WithStatus(doc, st).network = doc.network
BY DEF Doc, WithStatus

LEMMA EmptiedType ==
  ASSUME NEW doc \in Doc, NEW n \in Network
  PROVE  /\ Emptied(doc, n) \in Doc /\ Emptied(doc, n).status = "EMPTY"
         /\ Emptied(doc, n).sub = NoSub /\ Emptied(doc, n).items = NoItems
         /\ Emptied(doc, n).v = doc.v
<1>1. PICK items \in Items : items = NoItems
  BY NoItemsType
<1>2. PICK d \in Doc : d = [doc EXCEPT !.sub = NoSub, !.items = items]
  BY DEF Doc
<1>3. d.sub = NoSub /\ d.items = items /\ d.v = doc.v
  BY <1>2 DEF Doc
<1>4. "EMPTY" \in CartStatus
  BY DEF CartStatus
<1>5. Emptied(doc, n) = [d EXCEPT !.status = "EMPTY", !.network = n]
  BY <1>1, <1>2 DEF Emptied
<1>6. QED
  BY <1>1, <1>3, <1>4, <1>5 DEF Doc

LEMMA DroppedType ==
  ASSUME NEW doc \in Doc
  PROVE  /\ Dropped(doc) \in Doc /\ Dropped(doc).status = "EXPIRED"
         /\ Dropped(doc).sub = NoSub /\ Dropped(doc).items = doc.items
         /\ Dropped(doc).v = doc.v
BY DEF Dropped, Doc, CartStatus

(* addCartItem keeps the version, and either keeps the cart's status and    *)
(* subscription or goes on to one of the three ways to check out.           *)
LEMMA WithItemsType ==
  ASSUME NEW w \in Work
  PROVE  LET new == WithItems(w) IN
         /\ new \in Doc /\ new.items = w.items /\ new.v = w.copy.v
         /\ new.network = w.copy.network
         /\ \/ new.status = w.copy.status /\ new.sub = w.copy.sub
            \/ /\ w.sub # NoSub
               /\ new.status = "PENDING_NEW_ADDITION_CONFIRMATION" /\ new.sub = w.sub
            \/ /\ w.sub = NoSub /\ w.items.tier = "cc"
               /\ new.status = "PENDING_BILLING_FOR_FREE_OFFER" /\ new.sub = w.copy.sub
            \/ /\ w.sub = NoSub
               /\ new.status = "PENDING_BILLING_INFO" /\ new.sub = w.copy.sub
<1> DEFINE new == WithItems(w)
<1>1. w.copy \in Doc /\ w.items \in Items /\ w.sub \in SubId \cup {NoSub}
      /\ w.items.tier \in AllTiers
  BY DEF Work, Items
<1>2. PICK doc \in Doc : doc = [w.copy EXCEPT !.items = w.items]
  BY <1>1 DEF Doc
<1>3. doc.items = w.items /\ doc.v = w.copy.v /\ doc.sub = w.copy.sub
      /\ doc.status = w.copy.status /\ doc.network = w.copy.network
  BY <1>1, <1>2 DEF Doc
<1>a. {"PENDING_NEW_ADDITION_CONFIRMATION", "PENDING_BILLING_FOR_FREE_OFFER",
       "PENDING_BILLING_INFO"} \subseteq CartStatus
  BY DEF CartStatus, FreeOffer
<1>4. CASE w.items.tier = "free"
  <2>1. new = doc
    BY <1>2, <1>4 DEF WithItems
  <2>2. QED
    BY <1>3, <2>1
<1>5. CASE w.items.tier = "cc" /\ w.sub = NoSub
  <2>1. new = WithStatus(doc, "PENDING_BILLING_FOR_FREE_OFFER")
    BY <1>2, <1>5 DEF WithItems, WithStatus
  <2>2. QED
    BY <1>a, <1>3, <1>5, <2>1, StatusType
<1>6. CASE w.items.tier # "free" /\ w.sub # NoSub
  <2>1. new = [doc EXCEPT !.status = "PENDING_NEW_ADDITION_CONFIRMATION", !.sub = w.sub]
    BY <1>2, <1>6 DEF WithItems
  <2>2. QED
    BY <1>a, <1>1, <1>3, <1>6, <2>1 DEF Doc
<1>7. CASE w.items.tier = "paid" /\ w.sub = NoSub
  <2>1. new = WithStatus(doc, "PENDING_BILLING_INFO")
    BY <1>2, <1>7 DEF WithItems, WithStatus
  <2>2. QED
    BY <1>a, <1>3, <1>7, <2>1, StatusType
<1>8. QED
  BY <1>1, <1>4, <1>5, <1>6, <1>7 DEF AllTiers

(* The last save of a call.                                                 *)
LEMMA ResultType ==
  ASSUME NEW w \in Work, w.call \in {"billing", "pending", "confirm", "error", "attach"}
  PROVE  LET new == Result(w) IN
         /\ new \in Doc /\ new.items = w.copy.items /\ new.v = w.copy.v
         /\ new.network = w.copy.network
         /\ new.sub = IF w.call = "billing" THEN w.sub ELSE w.copy.sub
         /\ \/ /\ w.call = "billing" /\ w.copy.status \in FreeOffer
               /\ new.status = "PENDING_CC_FOR_FREE_OFFER"
            \/ /\ w.call = "billing" /\ w.copy.status \notin FreeOffer
               /\ new.status = "PENDING_CC_INFO"
            \/ w.call = "pending" /\ new.status = "PENDING_PROCESSING_PAYMENT"
            \/ w.call = "error" /\ new.status = "ERROR_GATEWAY_ERROR"
            \/ w.call \in {"confirm", "attach"} /\ new.status = "CHECKOUT_COMPLETE"
<1>1. PICK doc \in Doc : doc = w.copy /\ w.sub \in SubId \cup {NoSub}
  BY DEF Work
<1> DEFINE new == Result(w)
           Kept(st) == /\ new \in Doc /\ new.status = st /\ new.sub = doc.sub
                       /\ new.items = doc.items /\ new.v = doc.v /\ new.network = doc.network
<1>2. {"PENDING_CC_FOR_FREE_OFFER", "PENDING_CC_INFO", "PENDING_PROCESSING_PAYMENT",
       "ERROR_GATEWAY_ERROR", "CHECKOUT_COMPLETE"} \subseteq CartStatus
  BY DEF CartStatus, FreeOffer
<1> HIDE DEF new
<1>3. CASE w.call = "billing"
  <2>1. PICK st \in CartStatus :
           st = IF w.copy.status \in FreeOffer THEN "PENDING_CC_FOR_FREE_OFFER"
                                               ELSE "PENDING_CC_INFO"
    BY <1>2
  <2>2. new = [doc EXCEPT !.sub = w.sub, !.status = st]
    BY <1>1, <1>3, <2>1 DEF new, Result
  <2>3. QED
    BY <1>1, <1>3, <2>1, <2>2 DEF Doc, new
<1>4. CASE w.call = "pending"
  <2>1. new = WithStatus(doc, "PENDING_PROCESSING_PAYMENT")
    BY <1>1, <1>4 DEF new, Result, WithStatus
  <2>2. Kept("PENDING_PROCESSING_PAYMENT")
    BY <1>2, <2>1, StatusType
  <2>3. QED
    BY <1>1, <1>4, <2>2 DEF new
<1>5. CASE w.call = "error"
  <2>1. new = WithStatus(doc, "ERROR_GATEWAY_ERROR")
    BY <1>1, <1>5 DEF new, Result, WithStatus
  <2>2. Kept("ERROR_GATEWAY_ERROR")
    BY <1>2, <2>1, StatusType
  <2>3. QED
    BY <1>1, <1>5, <2>2 DEF new
<1>6. CASE w.call \in {"confirm", "attach"}
  <2>1. new = WithStatus(doc, "CHECKOUT_COMPLETE")
    BY <1>1, <1>6 DEF new, Result, WithStatus
  <2>2. Kept("CHECKOUT_COMPLETE")
    BY <1>2, <2>1, StatusType
  <2>3. QED
    BY <1>1, <1>6, <2>2 DEF new
<1>7. QED
  BY <1>3, <1>4, <1>5, <1>6

(* One subscription written: its status, Stripe's, or both.                 *)
SetsStatus(s, st) == subs' = [subs EXCEPT ![s].status = st]
SetsStripe(s, st) == subs' = [subs EXCEPT ![s].stripe = st]
Requests(s, st) == subs' = [subs EXCEPT ![s] = [@ EXCEPT !.status = "Requested", !.stripe = st]]
Activates(s) == subs' = [subs EXCEPT ![s].status = "Active", ![s].active = @ + 1]

LEMMA SetsStatusIs ==
  ASSUME subs \in [SubId -> Sub], NEW s, NEW st \in SubStatus, SetsStatus(s, st)
  PROVE  /\ subs' \in [SubId -> Sub]
         /\ \A r \in SubId : /\ r # s => subs'[r] = subs[r]
                             /\ r = s => subs'[r].status = st /\ subs'[r].stripe = subs[r].stripe
BY DEF Sub, SetsStatus

LEMMA SetsStripeIs ==
  ASSUME subs \in [SubId -> Sub], NEW s,
         NEW st \in {"none", "incomplete", "active", "expired", "canceled"}, SetsStripe(s, st)
  PROVE  /\ subs' \in [SubId -> Sub]
         /\ \A r \in SubId : /\ r # s => subs'[r] = subs[r]
                             /\ r = s => subs'[r].stripe = st /\ subs'[r].status = subs[r].status
BY DEF Sub, SetsStripe

LEMMA RequestsIs ==
  ASSUME subs \in [SubId -> Sub], NEW s, NEW st \in {"incomplete", "active"}, Requests(s, st)
  PROVE  /\ subs' \in [SubId -> Sub]
         /\ \A r \in SubId : /\ r # s => subs'[r] = subs[r]
                             /\ r = s => subs'[r].stripe = st /\ subs'[r].status = "Requested"
BY DEF Sub, SubStatus, Requests

LEMMA ActivatesIs ==
  ASSUME subs \in [SubId -> Sub], NEW s \in SubId, Activates(s)
  PROVE  /\ subs' \in [SubId -> Sub]
         /\ \A r \in SubId :
              /\ r # s => subs'[r] = subs[r]
              /\ r = s => subs'[r].stripe = subs[r].stripe /\ subs'[r].status = "Active"
<1>1. PICK n \in Nat : n = subs[s].active + 1
  BY DEF Sub
<1>2. subs' = [subs EXCEPT ![s].status = "Active", ![s].active = n]
  BY <1>1 DEF Sub, Activates
<1>3. QED
  BY <1>1, <1>2 DEF Sub, SubStatus

-----------------------------------------------------------------------------
(* Type correctness, for any handlers served at once.                       *)

LEMMA InitTyped == Init => Typed
<1> SUFFICES ASSUME Init PROVE Typed
  OBVIOUS
<1>1. PICK n \in Network : n = CHOOSE m \in Network : TRUE
  BY CartAssumption
<1>2. [NewCart(n) EXCEPT !.status = "ABSENT"] \in Doc
  BY NewCartType DEF Doc
<1>3. carts \in [CartId -> Doc]
  BY <1>1, <1>2 DEF Init
<1>4. subs \in [SubId -> Sub]
  BY DEF Init, NoSubscription, Sub, SubStatus
<1>5. work \in [Handler -> AnyWork] /\ \A h \in Handler : work[h] = NoWork
  BY DEF Init, AnyWork
<1>6. QED
  BY <1>3, <1>4, <1>5, CartAssumption DEF Init, Typed, TypeOK, AnyWork, NoWork

LEMMA FirstCart == 1 \in CartId
BY CartAssumption DEF CartId

(* The parts of Typed that a step of the handler h must keep.               *)
LEMMA HandlerTyped ==
  ASSUME Typed, NEW h \in Handler,
         carts' \in [CartId -> Doc], subs' \in [SubId -> Sub], services' \in [Network -> Nat],
         sent' \subseteq Event, added' \in 0 .. MaxItems, dups' \in 0 .. MaxDups,
         work' \in [Handler -> AnyWork],
         \A g \in Handler : g # h => work'[g] = work[g],
         work'[h].stage = "save" => work'[h].call # "add"
  PROVE  Typed'
BY DEF Typed, TypeOK, AnyWork

LEMMA CallTyped ==
  ASSUME Typed, NEW h \in Handler,
         \/ \E n \in Network : CallInit(h, n)
         \/ \E c \in CartId : \E tier \in Tier : CallAdd(h, c, tier)
         \/ \E c \in CartId : \E call \in UserCall \ {"init", "add"} : CallOther(h, call, c)
         \/ \E e \in sent : Webhook(h, e)
  PROVE  Typed'
<1> USE DEF Typed, TypeOK
<1>1. ASSUME NEW n \in Network, CallInit(h, n)
      PROVE  Typed'
  <2>1. Begins(h, "init", 1, NoSub, n, NoItems)
    BY <1>1 DEF CallInit
  <2>2. work' \in [Handler -> AnyWork] /\ (\A g \in Handler : g # h => work'[g] = work[g])
        /\ work'[h].stage = "read"
    BY <2>1, FirstCart, NoItemsType, BeginsIs DEF Calls, UserCall
  <2>3. QED
    BY <1>1, <2>2, HandlerTyped DEF CallInit, Begins
<1>2. ASSUME NEW c \in CartId, NEW tier \in Tier, CallAdd(h, c, tier)
      PROVE  Typed'
  <2>1. added' \in 0 .. MaxItems
    BY <1>2, CartAssumption DEF CallAdd
  <2>2. PICK items \in Items : items = [id |-> added', tier |-> tier]
    BY <2>1, CartAssumption DEF Items
  <2>3. carts[c].network \in Network /\ "add" \in Calls /\ Typed
    BY DEF Doc, Calls, UserCall
  <2>4. work' \in [Handler -> AnyWork] /\ (\A g \in Handler : g # h => work'[g] = work[g])
        /\ work'[h].stage = "read"
    <3>1. Begins(h, "add", c, NoSub, carts[c].network, items)
      BY <1>2, <2>2 DEF CallAdd
    <3> HIDE DEF Typed, TypeOK
    <3>2. QED
      BY <2>3, <3>1, BeginsIs
  <2>5. QED
    BY <1>2, <2>1, <2>4, HandlerTyped DEF CallAdd, Begins
<1>3. ASSUME NEW c \in CartId, NEW call \in UserCall \ {"init", "add"}, CallOther(h, call, c)
      PROVE  Typed'
  <2>1. Begins(h, call, c, NoSub, carts[c].network, NoItems) /\ carts[c].network \in Network
    BY <1>3 DEF CallOther, Doc
  <2>2. work' \in [Handler -> AnyWork] /\ (\A g \in Handler : g # h => work'[g] = work[g])
        /\ work'[h].stage = "read"
    BY <2>1, NoItemsType, BeginsIs DEF Calls
  <2>3. QED
    BY <1>3, <2>2, HandlerTyped DEF CallOther, Begins
<1>4. ASSUME NEW e \in sent, Webhook(h, e)
      PROVE  Typed'
  <2>1. Begins(h, e.kind, 1, e.sub, carts[1].network, NoItems) /\ carts[1].network \in Network
    BY <1>4, FirstCart DEF Webhook, Doc
  <2>2. e.kind \in Calls /\ e.sub \in SubId \cup {NoSub}
    BY DEF Event, Calls
  <2>a. Typed
    OBVIOUS
  <2>3. work' \in [Handler -> AnyWork] /\ (\A g \in Handler : g # h => work'[g] = work[g])
        /\ work'[h].stage = "read"
    <3>1. PICK n \in Network, k \in Calls, s \in SubId \cup {NoSub} :
            Begins(h, k, 1, s, n, NoItems)
      BY <2>1, <2>2
    <3> HIDE DEF Typed, TypeOK
    <3>2. QED
      BY <2>a, <3>1, NoItemsType, FirstCart, BeginsIs
  <2>4. sent' \subseteq Event /\ dups' \in 0 .. MaxDups
    BY <1>4, CartAssumption DEF Webhook
  <2>5. QED
    BY <1>4, <2>3, <2>4, HandlerTyped DEF Webhook, Begins
<1>5. QED
  BY <1>1, <1>2, <1>3, <1>4

(* A handler that ends, goes on, or finds a cart, and writes nothing.       *)
LEMMA ReadTyped ==
  ASSUME Typed, NEW h \in Handler, work[h] \in Work, UNCHANGED <<services, sent, added, dups>>,
         carts' = carts, subs' \in [SubId -> Sub],
         \/ Ends(h)
         \/ \E stage \in Stages, copy \in Doc :
              Goes(h, stage, copy) /\ (stage = "save" => work[h].call # "add")
         \/ \E stage \in Stages, c \in CartId :
              Found(h, c, stage) /\ (stage = "save" => work[h].call # "add")
         \/ \E stage \in Stages, s \in SubId \cup {NoSub} :
              Takes(h, s, stage) /\ (stage = "save" => work[h].call # "add")
  PROVE  Typed'
<1> DEFINE Goal == /\ work' \in [Handler -> AnyWork]
                   /\ \A g \in Handler : g # h => work'[g] = work[g]
                   /\ work'[h].stage = "save" => work'[h].call # "add"
<1>1. ASSUME Ends(h)
      PROVE  Goal
  BY <1>1, EndsIs
<1>2. ASSUME NEW stage \in Stages, NEW copy \in Doc, Goes(h, stage, copy),
             stage = "save" => work[h].call # "add"
      PROVE  Goal
  BY <1>2, GoesIs DEF SameRequest
<1>3. ASSUME NEW stage \in Stages, NEW c \in CartId, Found(h, c, stage),
             stage = "save" => work[h].call # "add"
      PROVE  Goal
  BY <1>3, FoundIs DEF SameRequest
<1>4. ASSUME NEW stage \in Stages, NEW s \in SubId \cup {NoSub}, Takes(h, s, stage),
             stage = "save" => work[h].call # "add"
      PROVE  Goal
  BY <1>4, TakesIs DEF SameRequest
<1>5. Goal
  BY <1>1, <1>2, <1>3, <1>4
<1>6. QED
  BY <1>5, HandlerTyped DEF Typed, TypeOK

(* A handler that saves a cart.                                             *)
LEMMA WriteTyped ==
  ASSUME Typed, NEW h \in Handler, work[h] \in Work, UNCHANGED <<services, sent, added, dups>>,
         subs' \in [SubId -> Sub], NEW new \in Doc, NEW stage \in (Stages \ {"save"}) \cup {"idle"},
         Persists(h, new, stage)
  PROVE  Typed'
BY PersistsType, HandlerTyped DEF Typed, TypeOK

LEMMA HandleTyped ==
  ASSUME Typed, NEW h \in Handler, Handle(h)
  PROVE  Typed'
<1>0. /\ carts \in [CartId -> Doc] /\ subs \in [SubId -> Sub] /\ work[h] \in AnyWork
      /\ services \in [Network -> Nat]
  BY DEF Typed, TypeOK
<1>w. ASSUME work[h].stage # "idle"
      PROVE  /\ work[h] \in Work /\ work[h].copy \in Doc /\ work[h].cart \in CartId
             /\ work[h].network \in Network /\ work[h].items \in Items
             /\ work[h].sub \in SubId \cup {NoSub} /\ work[h].call \in Calls
             /\ work[h].stage \in Stages
  BY <1>0, <1>w, WorkIs DEF Work, Calls, Stages
<1>s. {"read", "active", "clear", "cancel", "delete", "empty", "add", "service",
       "token", "link", "offer", "activate", "drop", "save"} = Stages
  BY DEF Stages
<1>1. ASSUME ReadInit(h)
      PROVE  Typed'
  <2>1. work[h].stage = "read" /\ work[h].call = "init"
    BY <1>1 DEF ReadInit, At
  <2>2. work[h] \in Work /\ NewCart(work[h].network) \in Doc
    BY <1>w, <2>1, NewCartType
  <2>3. \/ Ends(h)
        \/ Goes(h, "save", NewCart(work[h].network))
        \/ \E c \in CartId : Found(h, c, "clear")
    BY <1>1 DEF ReadInit
  <2>4. QED
    BY <1>0, <1>1, <1>s, <2>1, <2>2, <2>3, ReadTyped DEF ReadInit
<1>2. ASSUME CreateCart(h)
      PROVE  Typed'
  <2>1. work[h] \in Work /\ work[h].copy \in Doc
    BY <1>2, <1>w DEF CreateCart, At
  <2>2. carts' \in [CartId -> Doc]
    BY <1>0, <1>2, <2>1 DEF CreateCart
  <2>3. QED
    BY <1>2, <2>2, EndsIs, HandlerTyped DEF CreateCart, Typed, TypeOK
<1>3. ASSUME ReadCart(h)
      PROVE  Typed'
  <2>1. work[h].stage = "read" /\ work[h].call \in UserCall \ {"init"}
    BY <1>3 DEF ReadCart, At
  <2>2. AfterRead(work[h].call) \in Stages /\ (AfterRead(work[h].call) = "save" => work[h].call # "add")
    BY <2>1 DEF AfterRead, Stages, UserCall
  <2>3. work[h] \in Work /\ work[h].cart \in CartId
    BY <1>w, <2>1
  <2>4. Ends(h) \/ Found(h, work[h].cart, AfterRead(work[h].call))
    BY <1>3 DEF ReadCart
  <2>5. QED
    BY <1>0, <1>3, <2>2, <2>3, <2>4, ReadTyped DEF ReadCart
<1>4. ASSUME ReadActive(h)
      PROVE  Typed'
  <2>1. work[h] \in Work
    BY <1>4, <1>w DEF ReadActive, At
  <2>2. PICK s \in SubId \cup {NoSub} :
          Takes(h, s, IF work[h].copy.status = "EMPTY" THEN "add" ELSE "clear")
    BY <1>4 DEF ReadActive, Takes
  <2>3. PICK stage \in Stages : Takes(h, s, stage) /\ stage # "save"
    BY <2>2 DEF Stages
  <2>4. QED
    BY <1>0, <1>4, <2>1, <2>3, ReadTyped DEF ReadActive
<1>5. ASSUME Clear(h)
      PROVE  Typed'
  <2>1. work[h] \in Work /\ work[h].copy \in Doc
    BY <1>5, <1>w DEF Clear, At
  <2>2. Ends(h) \/ Goes(h, "empty", work[h].copy) \/ Goes(h, "cancel", work[h].copy)
    BY <1>5 DEF Clear
  <2>3. QED
    BY <1>0, <1>5, <1>s, <2>1, <2>2, ReadTyped DEF Clear
<1>6. ASSUME Cancel(h)
      PROVE  Typed'
  <2>1. work[h] \in Work /\ work[h].copy \in Doc
    BY <1>6, <1>w DEF Cancel, At
  <2>2. Ends(h) \/ Goes(h, "delete", work[h].copy)
    BY <1>6 DEF Cancel
  <2>3. subs' \in [SubId -> Sub]
    <3>1. subs' = subs \/ SetsStripe(work[h].copy.sub, "canceled")
      BY <1>6 DEF Cancel, SetsStripe
    <3>2. QED
      BY <1>0, <3>1, SetsStripeIs
  <2>4. QED
    BY <1>6, <1>s, <2>1, <2>2, <2>3, ReadTyped DEF Cancel
<1>7. ASSUME Delete(h)
      PROVE  Typed'
  <2>1. work[h] \in Work /\ work[h].copy \in Doc
    BY <1>7, <1>w DEF Delete, At
  <2>2. subs' \in [SubId -> Sub] /\ Goes(h, "empty", work[h].copy)
    <3>1. SetsStatus(work[h].copy.sub, "deleted") /\ Goes(h, "empty", work[h].copy)
      BY <1>7 DEF Delete, SetsStatus
    <3>2. QED
      BY <1>0, <3>1, SetsStatusIs DEF SubStatus
  <2>3. QED
    BY <1>7, <1>s, <2>1, <2>2, ReadTyped DEF Delete
<1>8. ASSUME Empty(h)
      PROVE  Typed'
  <2>1. work[h] \in Work /\ Emptied(work[h].copy, work[h].network) \in Doc
    BY <1>8, <1>w, EmptiedType DEF Empty, At
  <2>2. PICK stage \in {"idle", "add"} :
          Persists(h, Emptied(work[h].copy, work[h].network), stage)
    BY <1>8 DEF Empty
  <2>3. QED
    BY <1>0, <1>8, <1>s, <2>1, <2>2, WriteTyped DEF Empty
<1>9. ASSUME Add(h)
      PROVE  Typed'
  <2>1. work[h] \in Work /\ WithItems(work[h]) \in Doc
    BY <1>9, <1>w, WithItemsType DEF Add, At
  <2>2. PICK stage \in {"idle", "service"} : Persists(h, WithItems(work[h]), stage)
    BY <1>9 DEF Add
  <2>3. QED
    BY <1>0, <1>9, <1>s, <2>1, <2>2, WriteTyped DEF Add
<1>10. ASSUME AddService(h)
       PROVE  Typed'
  <2>1. work[h].copy.network \in Network
    BY <1>10, <1>w DEF AddService, At, Doc
  <2>2. services' \in [Network -> Nat]
    BY <1>0, <1>10, <2>1 DEF AddService, Serves
  <2>3. QED
    BY <1>10, <2>2, EndsIs, HandlerTyped DEF AddService, Typed, TypeOK
<1>11. ASSUME Token(h)
       PROVE  Typed'
  <2>1. work[h] \in Work /\ work[h].copy.sub \in SubId \cup {NoSub} /\ work[h].call # "add"
    BY <1>11, <1>w DEF Token, At, Doc
  <2>2. CASE subs' = subs /\ sent' = sent /\ (Ends(h) \/ Takes(h, work[h].copy.sub, "save"))
    BY <1>0, <1>11, <1>s, <2>1, <2>2, ReadTyped DEF Token
  <2>3. ASSUME NEW s \in SubId, NEW st \in {"incomplete", "active"}, Takes(h, s, "link"),
               Requests(s, st),
               sent' = sent \/ Emits(s, "succeeded")
        PROVE  Typed'
    <3>1. subs' \in [SubId -> Sub]
      BY <1>0, <2>3, RequestsIs
    <3>2. sent' \subseteq Event
      BY <2>3 DEF Emits, Event, EventKind, Typed, TypeOK
    <3>3. /\ work' \in [Handler -> AnyWork]
          /\ \A g \in Handler : g # h => work'[g] = work[g]
          /\ work'[h].stage = "link"
      BY <1>s, <2>1, <2>3, TakesIs
    <3>4. QED
      BY <1>11, <3>1, <3>2, <3>3, HandlerTyped DEF Token, Typed, TypeOK
  <2>4. QED
    BY <1>11, <2>2, <2>3 DEF Token, Takes, Requests
<1>12. ASSUME Link(h)
       PROVE  Typed'
  <2>1. work[h] \in Work /\ work[h].copy \in Doc /\ work[h].call # "add"
    BY <1>12, <1>w DEF Link, At
  <2>2. subs' \in [SubId -> Sub] /\ Goes(h, "save", work[h].copy)
    <3>1. SetsStatus(work[h].sub, "Incomplete") /\ Goes(h, "save", work[h].copy)
      BY <1>12 DEF Link, SetsStatus
    <3>2. QED
      BY <1>0, <3>1, SetsStatusIs DEF SubStatus
  <2>3. QED
    BY <1>12, <1>s, <2>1, <2>2, ReadTyped DEF Link
<1>13. ASSUME Offer(h)
       PROVE  Typed'
  <2>1. work[h] \in Work /\ work[h].copy \in Doc /\ work[h].call # "add"
    BY <1>13, <1>w DEF Offer, At
  <2>2. services' \in [Network -> Nat]
    BY <1>0, <1>13 DEF Offer
  <2>3. Ends(h) \/ Goes(h, "save", work[h].copy)
    BY <1>13 DEF Offer
  <2>4. /\ work' \in [Handler -> AnyWork]
        /\ \A g \in Handler : g # h => work'[g] = work[g]
        /\ work'[h].stage = "save" => work'[h].call # "add"
    BY <1>s, <2>1, <2>3, EndsIs, GoesIs DEF SameRequest
  <2>5. QED
    BY <1>13, <2>2, <2>4, HandlerTyped DEF Offer, Typed, TypeOK
<1>14. ASSUME SaveCart(h)
       PROVE  Typed'
  <2>1. work[h] \in Work /\ work[h].call \in {"billing", "pending", "confirm", "error", "attach"}
    BY <1>14, <1>w DEF SaveCart, At, UserCall, Typed
  <2>2. Result(work[h]) \in Doc /\ Persists(h, Result(work[h]), "idle")
    BY <1>14, <2>1, ResultType DEF SaveCart
  <2>3. QED
    BY <1>0, <1>14, <2>1, <2>2, WriteTyped DEF SaveCart
<1>f. ASSUME NEW stage \in Stages, FindsCart(h, stage)
      PROVE  Ends(h) \/ \E c \in CartId : Found(h, c, stage)
  BY <1>f DEF FindsCart
<1>15. ASSUME ReadFailed(h) \/ ReadSucceeded(h)
       PROVE  Typed'
  <2>1. work[h] \in Work /\ work[h].call # "add"
    BY <1>15, <1>w DEF ReadFailed, ReadSucceeded, At
  <2>2. Ends(h) \/ \E c \in CartId : Found(h, c, "save")
    BY <1>15, <1>f, <1>s DEF ReadFailed, ReadSucceeded
  <2>3. QED
    BY <1>0, <1>15, <1>s, <2>1, <2>2, ReadTyped DEF ReadFailed, ReadSucceeded
<1>16. ASSUME SaveFailed(h)
       PROVE  Typed'
  <2>1. work[h] \in Work /\ WithStatus(work[h].copy, "ERROR_GATEWAY_ERROR") \in Doc
    BY <1>16, <1>w, StatusType DEF SaveFailed, At, CartStatus
  <2>2. QED
    BY <1>0, <1>16, <2>1, WriteTyped DEF SaveFailed, WithStatus
<1>17. ASSUME SaveSucceeded(h)
       PROVE  Typed'
  <2>1. /\ work[h] \in Work /\ work[h].copy \in Doc
        /\ WithStatus(work[h].copy, "CHECKOUT_COMPLETE") \in Doc
    BY <1>17, <1>w, StatusType DEF SaveSucceeded, At, CartStatus
  <2>2. CASE Goes(h, "activate", work[h].copy) /\ carts' = carts
    BY <1>0, <1>17, <1>s, <2>1, <2>2, ReadTyped DEF SaveSucceeded
  <2>3. CASE Persists(h, WithStatus(work[h].copy, "CHECKOUT_COMPLETE"), "activate")
    BY <1>0, <1>17, <1>s, <2>1, <2>3, WriteTyped DEF SaveSucceeded
  <2>4. QED
    BY <1>17, <2>2, <2>3 DEF SaveSucceeded, WithStatus
<1>18. ASSUME Activate(h)
       PROVE  Typed'
  <2>1. work[h].sub \in SubId \cup {NoSub}
    BY <1>18, <1>w DEF Activate, At
  <2>2. subs' \in [SubId -> Sub]
    <3>1. \/ subs' = subs
          \/ /\ work[h].sub \in SubId
             /\ Activates(work[h].sub)
      BY <1>18, <2>1 DEF Activate, Linked, Exists, Activates
    <3>2. QED
      BY <1>0, <3>1, ActivatesIs
  <2>3. services' \in [Network -> Nat]
    <3>1. work[h].copy.network \in Network
      BY <1>18, <1>w DEF Activate, At, Doc
    <3>2. QED
      BY <1>0, <1>18, <3>1 DEF Activate, Serves
  <2>4. QED
    BY <1>18, <2>2, <2>3, EndsIs, HandlerTyped DEF Activate, Typed, TypeOK
<1>19. ASSUME ReadExpired(h)
       PROVE  Typed'
  <2>1. work[h] \in Work /\ work[h].call # "add"
    BY <1>19, <1>w DEF ReadExpired, At
  <2>2. Ends(h) \/ \E c \in CartId : Found(h, c, "drop")
    BY <1>19, <1>f, <1>s DEF ReadExpired
  <2>3. subs' \in [SubId -> Sub]
    <3>1. subs' = subs \/ SetsStatus(work[h].sub, "IncompleteExpired")
      BY <1>19 DEF ReadExpired, SetsStatus
    <3>2. QED
      BY <1>0, <3>1, SetsStatusIs DEF SubStatus
  <2>4. QED
    BY <1>0, <1>19, <1>s, <2>1, <2>2, <2>3, ReadTyped DEF ReadExpired
<1>20. ASSUME Drop(h)
       PROVE  Typed'
  <2>1. work[h] \in Work /\ Dropped(work[h].copy) \in Doc
    BY <1>20, <1>w, DroppedType DEF Drop, At
  <2>2. subs' \in [SubId -> Sub]
    <3>1. subs' = subs \/ SetsStatus(work[h].sub, "deleted")
      BY <1>20 DEF Drop, SetsStatus
    <3>2. QED
      BY <1>0, <3>1, SetsStatusIs DEF SubStatus
  <2>3. QED
    BY <1>20, <2>1, <2>2, WriteTyped DEF Drop
<1>21. QED
  BY <1>1, <1>2, <1>3, <1>4, <1>5, <1>6, <1>7, <1>8, <1>9, <1>10, <1>11, <1>12, <1>13, <1>14,
     <1>15, <1>16, <1>17, <1>18, <1>19, <1>20 DEF Handle

LEMMA StripeTyped ==
  ASSUME Typed, NEW s \in SubId, StripeStep(s)
  PROVE  Typed'
<1>1. PICK to \in {"incomplete", "active", "expired"}, kind \in EventKind : StripeMoves(s, to, kind)
  BY DEF StripeStep, EventKind
<1>2. subs' \in [SubId -> Sub]
  BY <1>1, SetsStripeIs DEF StripeMoves, SetsStripe, Typed, TypeOK
<1>3. sent' \subseteq Event
  BY <1>1 DEF StripeMoves, Emits, Event, Typed, TypeOK
<1>4. QED
  BY <1>1, <1>2, <1>3 DEF StripeMoves, Typed, TypeOK

LEMMA NextTyped == Typed /\ [Next]_vars => Typed'
<1>1. ASSUME Typed, UNCHANGED vars
      PROVE  Typed'
  BY <1>1 DEF vars, Typed, TypeOK
<1>2. QED
  BY <1>1, CallTyped, HandleTyped, StripeTyped DEF Next

(* Carts, subscriptions and what the handlers hold are well formed in every *)
(* reachable state, however the requests and webhooks overlap.              *)
THEOREM TypeCorrect == Spec => []TypeOK
<1>1. Typed => TypeOK
  BY DEF Typed
<1>2. QED
  BY <1>1, InitTyped, NextTyped, PTL DEF Spec

-----------------------------------------------------------------------------
(* One handler at a time.                                                   *)

(* The cart a handler holds is the stored one, and it is open; what the     *)
(* handler found when it looked at the carts still holds.                   *)
Holds(h) == work[h].stage \notin {"idle", "read"} /\ ~At(h, "save", {"init"})

Fresh(h) == Holds(h) => work[h].copy = carts[work[h].cart]

HeldOK(h) ==
  /\ Fresh(h)
  /\ Holds(h) /\ work[h].stage # "activate" /\ work[h].call # "attach" => Open(work[h].cart)
  /\ At(h, "save", {"init"}) =>
       (\A c \in CartId : ~Open(c)) /\ work[h].copy = NewCart(work[h].network)
  /\ At(h, "activate", {"succeeded"}) => \A c \in CartId : Open(c) => c = work[h].cart
  /\ work[h].stage # "idle" /\ work[h].call = "attach" =>
       carts[work[h].cart].status = "PENDING_CC_FOR_FREE_OFFER" /\ HasActive

(* What the status of a cart says of its subscription and items.            *)
CartOK ==
  \A c \in CartId :
    LET doc == carts[c] IN
    /\ doc.status \in {"EMPTY", "PENDING_BILLING_INFO", "EXPIRED"} => doc.sub = NoSub
    /\ doc.sub # NoSub => doc.items # NoItems
    /\ doc.status = "PENDING_NEW_ADDITION_CONFIRMATION" =>
         doc.sub # NoSub /\ subs[doc.sub].status = "Active"
    /\ doc.status \in FreeOffer =>
         /\ doc.items.tier = "cc"
         /\ doc.sub # NoSub => subs[doc.sub].stripe # "incomplete"
         /\ \A s \in SubId : subs[s].status = "Active" => doc.sub = s

(* What the status of a subscription says of its state at Stripe.           *)
SubsOK ==
  \A s \in SubId :
    LET sub == subs[s] IN
    /\ sub.status = "none" <=> sub.stripe = "none"
    /\ sub.status = "Requested" => sub.stripe \in {"incomplete", "active"}
    /\ sub.status = "Active" => sub.stripe = "active" /\ \E n \in Network : services[n] > 0
    /\ sub.status = "IncompleteExpired" => sub.stripe = "expired"
    /\ sub.status = "deleted" => sub.stripe \in {"canceled", "expired"}
    /\ sub.status # "Canceled"

Billing(h, s) == (At(h, "link", {"billing"}) \/ At(h, "save", {"billing"})) /\ work[h].sub = s
Deleting(h, s) == At(h, "delete", {"init", "add"}) /\ work[h].copy.sub = s
Paying(h, s) == work[h].stage \in {"read", "save"} /\ work[h].call = "succeeded" /\ work[h].sub = s
Paid(h, s) == At(h, "activate", {"succeeded"}) /\ work[h].sub = s
Expiring(h, s) == At(h, "read", {"expired"}) /\ work[h].sub = s
Dropping(h, s) == At(h, "drop", {"expired"}) /\ work[h].sub = s
Emptying(h, s) == At(h, "empty", {"init", "add"}) /\ work[h].copy.sub = s

InCart(s) == \E c \in CartId : Open(c) /\ carts[c].sub = s
Told(kind, s) == [kind |-> kind, sub |-> s] \in sent

(* Nothing is lost on the way: a subscription that waits for money, or is   *)
(* paid and not Active yet, is in the open cart or about to be put there,   *)
(* and the event that moves it on is under way; and the subscription of the *)
(* open cart can be paid for, is paid, or is on its way out of the cart.    *)
Unpaid(h, s) == subs[s].stripe = "incomplete" => InCart(s) \/ Billing(h, s)

Unserved(h, s) ==
  subs[s].stripe = "active" /\ subs[s].status # "Active" =>
    \/ Told("succeeded", s) /\ (InCart(s) \/ Billing(h, s))
    \/ Paying(h, s) /\ InCart(s)
    \/ Paid(h, s)

Placed(h, s) ==
  InCart(s) =>
    LET sub == subs[s] IN
    \/ sub.status = "Active"
    \/ sub.status = "Incomplete" /\ sub.stripe \in {"incomplete", "active"}
    \/ /\ sub.status = "Incomplete" /\ sub.stripe = "expired"
       /\ Told("expired", s) \/ Expiring(h, s)
    \/ sub.stripe = "expired" /\ Dropping(h, s)
    \/ sub.stripe = "canceled" /\ (Deleting(h, s) \/ Emptying(h, s))

Flow(h, s) ==
  /\ subs[s].status = "Requested" <=> At(h, "link", {"billing"}) /\ work[h].sub = s
  /\ subs[s].stripe = "canceled" => subs[s].status = "deleted" \/ Deleting(h, s)
  /\ Unpaid(h, s)
  /\ Unserved(h, s)
  /\ Placed(h, s)

FlowOK(h) == \A s \in SubId : Flow(h, s)

(* An event tells what has happened, also when it is delivered once more.   *)
Truly(kind, s) ==
  /\ kind = "succeeded" => subs[s].stripe \in {"active", "canceled"}
  /\ kind = "expired" => subs[s].stripe = "expired"

SentOK(h) ==
  /\ \A e \in sent : Truly(e.kind, e.sub)
  /\ work[h].stage # "idle" /\ work[h].call \in EventKind =>
       work[h].sub \in SubId /\ Truly(work[h].call, work[h].sub)

(* What a handler found of subscriptions before it came to its stage.       *)
NewSub(s, doc) ==
  /\ ~Exists(doc.sub)
  /\ doc.status \in FreeOffer => subs[s].stripe # "incomplete" /\ ~HasActive

WorkOK(h) ==
  LET w == work[h] IN
  /\ w.stage # "idle" /\ w.call = "add" => w.items # NoItems
  /\ w.stage \in {"clear", "cancel", "delete", "empty", "add"} /\ w.call = "add" =>
       /\ w.sub # NoSub => subs[w.sub].status = "Active"
       /\ w.sub = NoSub => ~HasActive
  /\ At(h, "add", {"add"}) => w.copy.status = "EMPTY"
  /\ At(h, "cancel", {"init", "add"}) =>
       w.copy.sub # NoSub /\ subs[w.copy.sub].status \in {"Requested", "Incomplete"}
  /\ At(h, "delete", {"init", "add"}) =>
       w.copy.sub # NoSub /\ subs[w.copy.sub].stripe = "canceled"
  /\ At(h, "empty", {"init", "add"}) =>
       (w.copy.sub # NoSub => subs[w.copy.sub].status \in {"Active", "deleted"})
  /\ At(h, "link", {"billing"}) =>
       w.sub # NoSub /\ w.copy.items # NoItems /\ NewSub(w.sub, w.copy)
  /\ At(h, "save", {"billing"}) =>
       /\ w.sub # NoSub /\ w.copy.items # NoItems
       /\ \/ w.copy.sub = w.sub
          \/ /\ NewSub(w.sub, w.copy)
             /\ subs[w.sub].status = "Incomplete" /\ subs[w.sub].stripe \in {"incomplete", "active"}
  /\ w.stage \in {"save", "activate"} /\ w.call = "succeeded" =>
       w.copy.sub = w.sub /\ Linked(w.sub)
  /\ At(h, "drop", {"expired"}) =>
       w.copy.sub = w.sub /\ subs[w.sub].status = "IncompleteExpired"
  /\ w.stage \in {"offer", "save"} /\ w.call = "confirm" =>
       w.copy.status = "PENDING_NEW_ADDITION_CONFIRMATION"

CheckoutInv(h) ==
  /\ Typed
  /\ OneOpenCart
  /\ HeldOK(h)
  /\ CartOK
  /\ SubsOK
  /\ FlowOK(h)
  /\ SentOK(h)
  /\ WorkOK(h)

(* The part of CompleteStays a step must respect.                           *)
CompleteKept ==
  \A c \in CartId : carts[c].status = "CHECKOUT_COMPLETE" =>
    carts'[c] = carts[c] \/ carts'[c].status = "CHECKOUT_COMPLETE"

LEMMA SubIdIs == NoSub \notin SubId
BY CartAssumption DEF NoSub, SubId

LEMMA InitInv == ASSUME NEW h \in Handler, Init PROVE CheckoutInv(h)
<1>1. PICK n \in Network : n = CHOOSE m \in Network : TRUE
  BY CartAssumption
<1>2. \A c \in CartId : carts[c].status = "ABSENT" /\ carts[c].sub = NoSub
  <2>1. [NewCart(n) EXCEPT !.status = "ABSENT"].status = "ABSENT"
        /\ [NewCart(n) EXCEPT !.status = "ABSENT"].sub = NoSub
    BY NewCartType DEF Doc
  <2>2. QED
    BY <1>1, <2>1 DEF Init
<1>3. \A s \in SubId : subs[s].status = "none" /\ subs[s].stripe = "none"
  BY DEF Init, NoSubscription
<1>4. work[h].stage = "idle" /\ sent = {}
  BY DEF Init, NoWork
<1>5. OneOpenCart /\ CartOK /\ SubsOK
  BY <1>2, <1>3 DEF OneOpenCart, Open, CartOK, SubsOK, FreeOffer
<1>6. HeldOK(h) /\ SentOK(h) /\ WorkOK(h)
  BY <1>4 DEF HeldOK, Fresh, Holds, SentOK, WorkOK, At
<1>7. FlowOK(h)
  BY <1>2, <1>3, <1>4 DEF FlowOK, Flow, Unpaid, Unserved, Placed, InCart, Open, At
<1>8. QED
  BY <1>5, <1>6, <1>7, InitTyped DEF CheckoutInv

(* What being well typed says of the fields.                                *)
CartTypes == \A c \in CartId : carts[c] \in Doc /\ carts[c].sub \in SubId \cup {NoSub}
StateTypes ==
  /\ carts \in [CartId -> Doc] /\ subs \in [SubId -> Sub]
  /\ services \in [Network -> Nat] /\ work \in [Handler -> AnyWork]
SentTypes == \A e \in sent : e.kind \in EventKind /\ e.sub \in SubId
WorkTypes(h) ==
  work[h].stage # "idle" =>
    /\ work[h] \in Work /\ work[h].stage \in Stages /\ work[h].call \in Calls
    /\ work[h].cart \in CartId /\ work[h].sub \in SubId \cup {NoSub}
    /\ work[h].network \in Network /\ work[h].items \in Items
    /\ work[h].items.tier \in AllTiers
    /\ work[h].copy \in Doc /\ work[h].copy.sub \in SubId \cup {NoSub}
    /\ work[h].copy.network \in Network

LEMMA TypedIs ==
  ASSUME Typed, NEW h \in Handler
  PROVE  CartTypes /\ StateTypes /\ SentTypes /\ WorkTypes(h)
<1>1. /\ \A c \in CartId : carts[c] \in Doc
      /\ carts \in [CartId -> Doc] /\ subs \in [SubId -> Sub]
      /\ services \in [Network -> Nat] /\ work \in [Handler -> AnyWork] /\ sent \subseteq Event
  BY DEF Typed, TypeOK
<1>2. \A doc \in Doc : doc.sub \in SubId \cup {NoSub} /\ doc.network \in Network
  BY DEF Doc
<1>3. \A e \in sent : e.kind \in EventKind /\ e.sub \in SubId
  BY <1>1 DEF Event
<1>4. ASSUME work[h].stage # "idle"
      PROVE  /\ work[h] \in Work /\ work[h].stage \in Stages /\ work[h].call \in Calls
             /\ work[h].cart \in CartId /\ work[h].sub \in SubId \cup {NoSub}
             /\ work[h].network \in Network /\ work[h].items \in Items
             /\ work[h].items.tier \in AllTiers /\ work[h].copy \in Doc
  BY <1>1, <1>4, WorkIs DEF Work, Stages, Calls, Items
<1>5. QED
  BY <1>1, <1>2, <1>3, <1>4 DEF CartTypes, StateTypes, SentTypes, WorkTypes

(* A handler that holds the cart as it is stored saves it.                  *)
LEMMA PersistsIs ==
  ASSUME Typed, NEW h \in Handler, Holds(h), Fresh(h), NEW new \in Doc, new.v = work[h].copy.v,
         NEW stage \in Stages \cup {"idle"}, Persists(h, new, stage)
  PROVE  /\ \A d \in CartId : d # work[h].cart => carts'[d] = carts[d]
         /\ carts'[work[h].cart].status = new.status
         /\ carts'[work[h].cart].sub = new.sub /\ carts'[work[h].cart].items = new.items
         /\ stage = "idle" => work'[h].stage = "idle"
         /\ stage # "idle" =>
              /\ work'[h] \in Work
              /\ work'[h].stage = stage /\ work'[h].copy = carts'[work[h].cart]
              /\ work'[h].cart = work[h].cart /\ work'[h].sub = work[h].sub
              /\ SameRequest(work[h], work'[h])
<1> DEFINE c == work[h].cart
<1>0. work[h] \in Work
  BY WorkIs DEF Typed, Holds
<1>1. c \in CartId /\ carts \in [CartId -> Doc]
  BY <1>0 DEF Work, Typed, TypeOK
<1>2. PICK doc \in Doc : /\ doc = Saved(c, new) /\ doc.status = new.status
                         /\ doc.sub = new.sub /\ doc.items = new.items
  BY SavedType
<1>3. Savable(c, new)
  BY DEF Savable, Fresh
<1>4. carts' = [carts EXCEPT ![c] = doc]
  BY <1>2, <1>3 DEF Persists
<1>5. \A d \in CartId : carts'[d] = IF d = c THEN doc ELSE carts[d]
  BY <1>1, <1>4
<1>6. CASE stage = "idle"
  <2>1. Ends(h)
    BY <1>3, <1>6 DEF Persists
  <2>2. QED
    BY <1>1, <1>2, <1>5, <1>6, <2>1, EndsIs
<1>7. CASE stage # "idle"
  <2>1. Goes(h, stage, doc)
    BY <1>2, <1>3, <1>7 DEF Persists
  <2>2. QED
    BY <1>0, <1>1, <1>2, <1>5, <1>7, <2>1, GoesIs
<1>8. QED
  BY <1>6, <1>7

(* Stripe moves between any two steps of the handler.                       *)
LEMMA StripeInv ==
  ASSUME NEW h \in Handler, Handler = {h}, CheckoutInv(h), NEW s \in SubId, StripeStep(s), Typed'
  PROVE  CheckoutInv(h)' /\ CompleteKept
<1>0. CartTypes /\ StateTypes /\ SentTypes /\ WorkTypes(h)
  BY TypedIs DEF CheckoutInv
<1>1. PICK to \in {"incomplete", "active", "expired"}, kind \in EventKind :
        /\ StripeMoves(s, to, kind)
        /\ kind = "succeeded" <=> to = "active"
        /\ kind = "expired" <=> to = "expired"
  BY DEF StripeStep, EventKind
<1>2. /\ carts' = carts /\ work' = work /\ services' = services
      /\ subs[s].stripe = "incomplete"
      /\ work[h].stage # "idle" => work[h].call # "billing"
  BY <1>1 DEF StripeMoves, Idle
<1>3. /\ \A r \in SubId : subs'[r].status = subs[r].status
      /\ \A r \in SubId : subs'[r].stripe = IF r = s THEN to ELSE subs[r].stripe
  <2>1. subs \in [SubId -> Sub] /\ SetsStripe(s, to)
    BY <1>1 DEF StripeMoves, SetsStripe, CheckoutInv, Typed, TypeOK
  <2>2. QED
    BY <2>1, SetsStripeIs
<1>4. sent' = sent \cup {[kind |-> kind, sub |-> s]}
  BY <1>1 DEF StripeMoves, Emits
<1>5. HasActive' <=> HasActive
  BY <1>3 DEF HasActive
<1>6. OneOpenCart' /\ HeldOK(h)'
  BY <1>2, <1>5 DEF CheckoutInv, OneOpenCart, HeldOK, Holds, Fresh, At, Open
<1>7. CartOK'
  BY <1>0, <1>2, <1>3 DEF CheckoutInv, CartOK, CartTypes
<1>8. SubsOK'
  <2>1. subs[s].status # "Requested"
    BY <1>2 DEF CheckoutInv, FlowOK, Flow, At
  <2>2. QED
    BY <1>2, <1>3, <2>1 DEF CheckoutInv, SubsOK
<1>9. SentOK(h)'
  <2>1. \A r \in SubId, k \in EventKind : Truly(k, r) => Truly(k, r)'
    BY <1>2, <1>3 DEF Truly
  <2>2. Truly(kind, s)'
    BY <1>1, <1>3 DEF Truly
  <2>3. \A e \in sent' : e \in sent \/ (e.kind = kind /\ e.sub = s)
    BY <1>4
  <2>4. \A e \in sent' : Truly(e.kind, e.sub)'
    BY <1>0, <2>1, <2>2, <2>3 DEF CheckoutInv, SentOK, SentTypes
  <2>5. QED
    BY <1>2, <2>1, <2>4 DEF CheckoutInv, SentOK
<1>10. WorkOK(h)'
  <2>1. /\ WorkOK(h)
        /\ work[h].stage # "idle" => work[h].sub \in SubId \cup {NoSub}
        /\ work[h].stage # "idle" => work[h].copy.sub \in SubId \cup {NoSub}
    BY <1>0 DEF CheckoutInv, WorkTypes
  <2>2. \A r \in SubId : subs[r].stripe = "canceled" => subs'[r].stripe = "canceled"
    BY <1>2, <1>3
  <2>a. \A r \in SubId : subs'[r].status = subs[r].status
    BY <1>3
  <2>3. ASSUME work[h].stage # "idle"
        PROVE  Linked(work[h].sub)' <=> Linked(work[h].sub)
    BY <1>2, <1>3, <2>1, <2>3 DEF Linked, Exists
  <2>4. CASE work[h].stage = "idle"
    BY <1>2, <2>4 DEF WorkOK, At
  <2>5. CASE work[h].stage # "idle"
    <3> DEFINE s1 == work[h].sub
               s2 == work[h].copy.sub
    <3>1. /\ s1 # NoSub => subs'[s1].status = subs[s1].status
          /\ s2 # NoSub => /\ subs'[s2].status = subs[s2].status
                           /\ subs[s2].stripe = "canceled" => subs'[s2].stripe = "canceled"
      BY <2>1, <2>2, <2>5, <2>a
    <3>2. Linked(work[h].sub)' <=> Linked(work[h].sub)
      BY <2>3, <2>5
    <3>3. work' = work /\ work[h].call # "billing" /\ (HasActive' <=> HasActive)
      BY <1>2, <1>5, <2>5
    <3>4. At(h, "drop", {"expired"}) => work[h].sub # NoSub
      BY <1>0, <2>5, SubIdIs DEF CheckoutInv, SentOK, At, EventKind
    <3>5. QED
      BY <2>1, <2>5, <3>1, <3>2, <3>3, <3>4 DEF WorkOK, At
  <2>6. QED
    BY <2>4, <2>5
<1>11. FlowOK(h)'
  <2> SUFFICES ASSUME NEW r \in SubId
               PROVE  Flow(h, r)'
    BY DEF FlowOK
  <2>1. InCart(r)' <=> InCart(r)
    BY <1>2 DEF InCart, Open
  <2>2. (\A k \in EventKind : Told(k, r) => Told(k, r)') /\ Told(kind, s)'
    BY <1>4 DEF Told
  <2>3. Flow(h, r) /\ SubsOK /\ "succeeded" \in EventKind /\ "expired" \in EventKind
    BY DEF CheckoutInv, FlowOK, EventKind
  <2>4. QED
    BY <1>1, <1>2, <1>3, <2>1, <2>2, <2>3
       DEF Flow, Unpaid, Unserved, Placed, SubsOK, At,
           Billing, Deleting, Paying, Paid, Expiring, Dropping, Emptying
<1>12. QED
  BY <1>2, <1>6, <1>7, <1>8, <1>9, <1>10, <1>11 DEF CheckoutInv, CompleteKept

(* A request or a webhook begins, when no other is served.                  *)
LEMMA CallIs ==
  ASSUME Typed, NEW h \in Handler,
         \/ \E n \in Network : CallInit(h, n)
         \/ \E c \in CartId : \E tier \in Tier : CallAdd(h, c, tier)
         \/ \E c \in CartId : \E call \in UserCall \ {"init", "add"} : CallOther(h, call, c)
         \/ \E e \in sent : Webhook(h, e)
  PROVE  /\ work[h].stage = "idle" /\ work'[h].stage = "read"
         /\ carts' = carts /\ subs' = subs /\ services' = services /\ sent' \subseteq sent
         /\ work'[h].call = "add" => work'[h].items # NoItems
         /\ work'[h].call = "attach" =>
              carts[work'[h].cart].status = "PENDING_CC_FOR_FREE_OFFER" /\ HasActive
         /\ \/ work'[h].call \notin EventKind /\ sent' = sent
            \/ \E e \in sent : /\ work'[h].call = e.kind /\ work'[h].sub = e.sub
                               /\ \A d \in sent : d = e \/ d \in sent'
<1>0. CartTypes /\ SentTypes /\ \A c \in CartId : carts[c].network \in Network
  BY TypedIs DEF CartTypes, Doc
<1>a. {"add", "attach"} \cap EventKind = {} /\ UserCall \cap EventKind = {}
      /\ UserCall \subseteq Calls /\ EventKind \subseteq Calls
  BY DEF EventKind, UserCall, Calls
<1>b. Idle(h) => work[h].stage = "idle"
  BY DEF Idle
<1>1. ASSUME NEW n \in Network, CallInit(h, n)
      PROVE  /\ Begins(h, "init", 1, NoSub, n, NoItems) /\ sent' = sent
             /\ work'[h].stage = "read" /\ work'[h].call = "init"
  BY <1>1, <1>a, FirstCart, NoItemsType, BeginsIs DEF CallInit, UserCall
<1>2. ASSUME NEW c \in CartId, NEW tier \in Tier, CallAdd(h, c, tier)
      PROVE  /\ Begins(h, "add", c, NoSub, carts[c].network, [id |-> added', tier |-> tier])
             /\ sent' = sent
             /\ work'[h].stage = "read" /\ work'[h].call = "add" /\ work'[h].items # NoItems
  <2>1. added' \in 1 .. MaxItems
    BY <1>2, CartAssumption DEF CallAdd, Typed, TypeOK
  <2>2. [id |-> added', tier |-> tier] \in Items
    BY <2>1, CartAssumption DEF Items
  <2>3. [id |-> added', tier |-> tier] # NoItems
    BY <2>1 DEF NoItems
  <2>4. Begins(h, "add", c, NoSub, carts[c].network, [id |-> added', tier |-> tier])
    BY <1>2 DEF CallAdd
  <2>5. QED
    BY <1>0, <1>2, <1>a, <2>2, <2>3, <2>4, BeginsIs DEF CallAdd, UserCall
<1>3. ASSUME NEW c \in CartId, NEW call \in UserCall \ {"init", "add"}, CallOther(h, call, c)
      PROVE  /\ Begins(h, call, c, NoSub, carts[c].network, NoItems) /\ sent' = sent
             /\ work'[h].stage = "read" /\ work'[h].call = call /\ work'[h].cart = c
  BY <1>0, <1>3, <1>a, NoItemsType, BeginsIs DEF CallOther
<1>4. ASSUME NEW e \in sent, Webhook(h, e)
      PROVE  /\ Begins(h, e.kind, 1, e.sub, carts[1].network, NoItems)
             /\ sent' \subseteq sent /\ (\A d \in sent : d = e \/ d \in sent')
             /\ work'[h].stage = "read" /\ work'[h].call = e.kind /\ work'[h].sub = e.sub
  <2>1. Begins(h, e.kind, 1, e.sub, carts[1].network, NoItems)
    BY <1>4 DEF Webhook
  <2>2. e.kind \in Calls /\ e.sub \in SubId
    BY <1>0, <1>a DEF SentTypes
  <2>3. sent' \subseteq sent /\ \A d \in sent : d = e \/ d \in sent'
    BY <1>4 DEF Webhook
  <2>4. QED
    BY <1>0, <2>1, <2>2, <2>3, FirstCart, NoItemsType, BeginsIs
<1>5. QED
  <2>1. CASE \E n \in Network : CallInit(h, n)
    BY <1>1, <1>a, <1>b, <2>1 DEF Begins, UserCall
  <2>2. CASE \E c \in CartId : \E tier \in Tier : CallAdd(h, c, tier)
    BY <1>2, <1>a, <1>b, <2>2 DEF Begins
  <2>3. ASSUME NEW c \in CartId, NEW call \in UserCall \ {"init", "add"}, CallOther(h, call, c)
        PROVE  /\ work[h].stage = "idle" /\ work'[h].stage = "read"
               /\ carts' = carts /\ subs' = subs /\ services' = services /\ sent' = sent
               /\ work'[h].call # "add"
               /\ work'[h].call = "attach" =>
                    carts[work'[h].cart].status = "PENDING_CC_FOR_FREE_OFFER" /\ HasActive
               /\ work'[h].call \notin EventKind
    <3>1. /\ Begins(h, call, c, NoSub, carts[c].network, NoItems) /\ sent' = sent
          /\ work'[h].stage = "read" /\ work'[h].call = call /\ work'[h].cart = c
      BY <1>3, <2>3
    <3>2. Idle(h) /\ carts' = carts /\ subs' = subs /\ services' = services
      BY <3>1 DEF Begins
    <3>3. call = "attach" => HasActive /\ carts[c].status = "PENDING_CC_FOR_FREE_OFFER"
      BY <2>3 DEF CallOther
    <3>4. QED
      BY <1>a, <1>b, <3>1, <3>2, <3>3
  <2>4. CASE \E e \in sent : Webhook(h, e)
    BY <1>0, <1>4, <1>a, <1>b, <2>4 DEF Begins, SentTypes
  <2>5. QED
    BY <2>1, <2>2, <2>3, <2>4

LEMMA CallInv ==
  ASSUME NEW h \in Handler, Handler = {h}, CheckoutInv(h), Typed',
         \/ \E n \in Network : CallInit(h, n)
         \/ \E c \in CartId : \E tier \in Tier : CallAdd(h, c, tier)
         \/ \E c \in CartId : \E call \in UserCall \ {"init", "add"} : CallOther(h, call, c)
         \/ \E e \in sent : Webhook(h, e)
  PROVE  CheckoutInv(h)' /\ CompleteKept
<1>1. /\ work[h].stage = "idle" /\ work'[h].stage = "read"
      /\ carts' = carts /\ subs' = subs /\ services' = services /\ sent' \subseteq sent
      /\ work'[h].call = "add" => work'[h].items # NoItems
      /\ work'[h].call = "attach" =>
           carts[work'[h].cart].status = "PENDING_CC_FOR_FREE_OFFER" /\ HasActive
      /\ \/ work'[h].call \notin EventKind /\ sent' = sent
         \/ \E e \in sent : /\ work'[h].call = e.kind /\ work'[h].sub = e.sub
                            /\ \A d \in sent : d = e \/ d \in sent'
  BY CallIs DEF CheckoutInv
<1>2. SentTypes
  BY TypedIs DEF CheckoutInv
<1>3. OneOpenCart' /\ CartOK' /\ SubsOK' /\ CompleteKept
  BY <1>1 DEF CheckoutInv, OneOpenCart, Open, CartOK, SubsOK, CompleteKept
<1>4. HeldOK(h)'
  BY <1>1 DEF HeldOK, Fresh, Holds, At, HasActive
<1>5. SentOK(h)'
  BY <1>1, <1>2 DEF CheckoutInv, SentOK, Truly, SentTypes
<1>6. WorkOK(h)'
  BY <1>1 DEF WorkOK, At
<1>7. ASSUME NEW r \in SubId
      PROVE  Flow(h, r)'
  <2>1. InCart(r)' <=> InCart(r)
    BY <1>1 DEF InCart, Open
  <2>2. \A k \in EventKind : Told(k, r) => Told(k, r)' \/ (work'[h].call = k /\ work'[h].sub = r)
    BY <1>1 DEF Told
  <2>3. Flow(h, r) /\ "succeeded" \in EventKind /\ "expired" \in EventKind
    BY DEF CheckoutInv, FlowOK, EventKind
  <2>4. QED
    BY <1>1, <2>1, <2>2, <2>3
       DEF Flow, Unpaid, Unserved, Placed, At,
           Billing, Deleting, Paying, Paid, Expiring, Dropping, Emptying
<1>8. QED
  BY <1>3, <1>4, <1>5, <1>6, <1>7 DEF CheckoutInv, FlowOK

(* A handler without a part in the way of a subscription may do anything    *)
(* else: what Flow says of the subscription stays true.                     *)
NoPart(h, r) ==
  /\ ~Billing(h, r) /\ ~Deleting(h, r) /\ ~Emptying(h, r)
  /\ ~Paying(h, r) /\ ~Paid(h, r) /\ ~Expiring(h, r) /\ ~Dropping(h, r)

LEMMA FlowKept ==
  ASSUME NEW h, NEW r \in SubId, Flow(h, r), UNCHANGED <<carts, subs, sent>>, NoPart(h, r),
         ~At(h, "link", {"billing"})'
  PROVE  Flow(h, r)'
<1>1. InCart(r)' <=> InCart(r)
  BY DEF InCart, Open
<1>2. \A k : Told(k, r)' <=> Told(k, r)
  BY DEF Told
<1>3. ~(At(h, "link", {"billing"}) /\ work[h].sub = r)
  BY DEF NoPart, Billing
<1>4. subs' = subs
  OBVIOUS
<1>5. Unpaid(h, r)' /\ Unserved(h, r)'
  BY <1>1, <1>2, <1>4 DEF Flow, Unpaid, Unserved, NoPart
<1>6. Placed(h, r)'
  BY <1>1, <1>2, <1>4 DEF Flow, Placed, NoPart
<1>7. QED
  BY <1>3, <1>4, <1>5, <1>6 DEF Flow, NoPart

LEMMA NoPartIs ==
  ASSUME NEW h,
         \/ work[h].stage \notin {"read", "link", "save", "delete", "empty", "drop", "activate"}
         \/ work[h].stage = "read" /\ work[h].call \notin {"succeeded", "expired"}
         \/ work[h].stage = "save" /\ work[h].call \notin {"succeeded", "billing"}
  PROVE  \A r : NoPart(h, r)
BY DEF NoPart, Billing, Deleting, Emptying, Paying, Paid, Expiring, Dropping, At

(* A step that only takes the handler on.                                   *)
LEMMA OnlyWork ==
  ASSUME NEW h \in Handler, CheckoutInv(h), Typed', UNCHANGED <<carts, subs, services, sent>>,
         HeldOK(h)', SentOK(h)', WorkOK(h)', \A r \in SubId : Flow(h, r)'
  PROVE  CheckoutInv(h)' /\ CompleteKept
<1>1. OneOpenCart' /\ CartOK' /\ SubsOK' /\ CompleteKept
  BY DEF CheckoutInv, OneOpenCart, Open, CartOK, SubsOK, CompleteKept
<1>2. QED
  BY <1>1 DEF CheckoutInv, FlowOK

(* A request that only ends.                                                *)
LEMMA EndInv ==
  ASSUME NEW h \in Handler, CheckoutInv(h), Typed', UNCHANGED <<carts, subs, services, sent>>,
         Ends(h), \A r \in SubId : NoPart(h, r)
  PROVE  CheckoutInv(h)' /\ CompleteKept
<1>1. work'[h].stage = "idle"
  BY EndsIs DEF CheckoutInv
<1>2. HeldOK(h)' /\ WorkOK(h)'
  BY <1>1 DEF HeldOK, Fresh, Holds, WorkOK, At
<1>3. SentOK(h)'
  BY <1>1 DEF CheckoutInv, SentOK, Truly
<1>4. \A r \in SubId : Flow(h, r)'
  BY <1>1, FlowKept DEF CheckoutInv, FlowOK, At
<1>5. QED
  BY <1>2, <1>3, <1>4, OnlyWork

LEMMA UserCallIs == UserCall \cap EventKind = {}
BY DEF UserCall, EventKind

LEMMA ReadInitInv ==
  ASSUME NEW h \in Handler, CheckoutInv(h), Typed', ReadInit(h)
  PROVE  CheckoutInv(h)' /\ CompleteKept
<1>1. /\ work[h].stage = "read" /\ work[h].call = "init"
      /\ UNCHANGED <<carts, subs, services, sent>>
  BY DEF ReadInit, At
<1>2. WorkTypes(h) /\ Typed
  BY TypedIs DEF CheckoutInv
<1>3. \A r \in SubId : NoPart(h, r)
  BY <1>1, NoPartIs
<1>4. CASE Ends(h)
  BY <1>1, <1>3, <1>4, EndInv
<1>5. ASSUME NEW c \in CartId, Open(c), Found(h, c, "clear")
      PROVE  CheckoutInv(h)' /\ CompleteKept
  <2>1. /\ work'[h].stage = "clear" /\ work'[h].call = "init"
        /\ work'[h].copy = carts[c] /\ work'[h].cart = c
    BY <1>1, <1>2, <1>5, FoundIs DEF WorkTypes, Stages, SameRequest
  <2>2. HeldOK(h)' /\ WorkOK(h)'
    BY <1>1, <1>5, <2>1 DEF HeldOK, Fresh, Holds, WorkOK, At, Open
  <2>3. SentOK(h)'
    BY <1>1, <2>1 DEF CheckoutInv, SentOK, Truly, EventKind
  <2>4. \A r \in SubId : Flow(h, r)'
    BY <1>1, <1>3, <2>1, FlowKept DEF CheckoutInv, FlowOK, At
  <2>5. QED
    BY <1>1, <2>2, <2>3, <2>4, OnlyWork
<1>6. CASE (\A c \in CartId : ~Open(c)) /\ Goes(h, "save", NewCart(work[h].network))
  <2>1. /\ work'[h].stage = "save" /\ work'[h].call = "init"
        /\ work'[h].copy = NewCart(work'[h].network)
    BY <1>1, <1>2, <1>6, NewCartType, GoesIs DEF WorkTypes, Stages, SameRequest
  <2>2. HeldOK(h)' /\ WorkOK(h)'
    BY <1>1, <1>6, <2>1 DEF HeldOK, Fresh, Holds, WorkOK, At, Open
  <2>3. SentOK(h)'
    BY <1>1, <2>1 DEF CheckoutInv, SentOK, Truly, EventKind
  <2>4. \A r \in SubId : Flow(h, r)'
    BY <1>1, <1>3, <2>1, FlowKept DEF CheckoutInv, FlowOK, At
  <2>5. QED
    BY <1>1, <2>2, <2>3, <2>4, OnlyWork
<1>7. QED
  BY <1>4, <1>5, <1>6 DEF ReadInit, Resumable

LEMMA ReadCartInv ==
  ASSUME NEW h \in Handler, CheckoutInv(h), Typed', ReadCart(h)
  PROVE  CheckoutInv(h)' /\ CompleteKept
<1> DEFINE call == work[h].call
           c == work[h].cart
<1>1. /\ work[h].stage = "read" /\ call \in UserCall \ {"init"}
      /\ UNCHANGED <<carts, subs, services, sent>>
  BY DEF ReadCart, At
<1>2. WorkTypes(h) /\ Typed /\ call \notin EventKind
  BY <1>1, TypedIs, UserCallIs DEF CheckoutInv
<1>3. \A r \in SubId : NoPart(h, r)
  BY <1>1, <1>2, NoPartIs DEF EventKind
<1>4. CASE Ends(h)
  BY <1>1, <1>3, <1>4, EndInv
<1>5. CASE /\ carts[c].status # "ABSENT" /\ Accepts(call, carts[c])
           /\ Found(h, c, AfterRead(call))
  <2>1. AfterRead(call) \in Stages
    BY <1>1 DEF AfterRead, Stages, UserCall
  <2>2. /\ work'[h].stage = AfterRead(call) /\ work'[h].call = call
        /\ work'[h].copy = carts[c] /\ work'[h].cart = c /\ work'[h].items = work[h].items
    BY <1>1, <1>2, <1>5, <2>1, FoundIs DEF WorkTypes, SameRequest
  <2>3. /\ call = "add" => AfterRead(call) = "active"
        /\ call = "billing" => AfterRead(call) = "token"
        /\ call = "confirm" => AfterRead(call) = "offer"
        /\ call \in {"pending", "error", "attach"} => AfterRead(call) = "save"
    BY DEF AfterRead
  <2>4. call # "attach" => Open(c)
    BY <1>1, <1>5 DEF Accepts, Open, UserCall
  <2>5. call = "confirm" => carts[c].status = "PENDING_NEW_ADDITION_CONFIRMATION"
    BY <1>5 DEF Accepts
  <2>6. call \in {"add", "billing", "confirm", "pending", "error", "attach"}
    BY <1>1 DEF UserCall
  <2>7. HeldOK(h)'
    BY <1>1, <2>2, <2>3, <2>4, <2>6
       DEF CheckoutInv, HeldOK, Fresh, Holds, At, Open, HasActive
  <2>8. WorkOK(h)'
    BY <1>1, <2>2, <2>3, <2>5, <2>6 DEF CheckoutInv, WorkOK, At
  <2>9. SentOK(h)'
    BY <1>1, <1>2, <2>2 DEF CheckoutInv, SentOK, Truly
  <2>10. \A r \in SubId : Flow(h, r)'
    BY <1>1, <1>3, <2>2, <2>3, <2>6, FlowKept DEF CheckoutInv, FlowOK, At
  <2>11. QED
    BY <1>1, <2>7, <2>8, <2>9, <2>10, OnlyWork
<1>6. QED
  BY <1>4, <1>5 DEF ReadCart

LEMMA CreateCartInv ==
  ASSUME NEW h \in Handler, CheckoutInv(h), Typed', CreateCart(h)
  PROVE  CheckoutInv(h)' /\ CompleteKept
<1>1. /\ work[h].stage = "save" /\ work[h].call = "init" /\ Ends(h)
      /\ UNCHANGED <<subs, services, sent>>
  BY DEF CreateCart, At
<1>2. WorkTypes(h) /\ StateTypes
  BY TypedIs DEF CheckoutInv
<1>3. PICK c \in CartId : /\ carts[c].status = "ABSENT"
                          /\ carts' = [carts EXCEPT ![c] = work[h].copy]
  BY DEF CreateCart
<1>4. work'[h].stage = "idle"
  BY <1>1, EndsIs DEF CheckoutInv
<1>5. /\ carts'[c].status = "EMPTY" /\ carts'[c].sub = NoSub
      /\ \A d \in CartId : d # c => carts'[d] = carts[d]
      /\ \A d \in CartId : ~Open(d)
  BY <1>1, <1>2, <1>3, NewCartType DEF CheckoutInv, HeldOK, At, StateTypes, WorkTypes
<1>6. OneOpenCart' /\ CompleteKept
  BY <1>3, <1>5 DEF OneOpenCart, Open, CompleteKept
<1>7. CartOK' /\ SubsOK'
  BY <1>1, <1>5 DEF CheckoutInv, CartOK, SubsOK, FreeOffer
<1>8. HeldOK(h)' /\ WorkOK(h)'
  BY <1>4 DEF HeldOK, Fresh, Holds, WorkOK, At
<1>9. SentOK(h)'
  BY <1>1, <1>4 DEF CheckoutInv, SentOK, Truly
<1>10. ASSUME NEW r \in SubId
       PROVE  Flow(h, r)'
  <2>1. ~InCart(r) /\ ~InCart(r)'
    BY <1>5, SubIdIs DEF InCart, Open
  <2>2. Flow(h, r) /\ NoPart(h, r) /\ subs' = subs
    BY <1>1, NoPartIs DEF CheckoutInv, FlowOK
  <2>3. QED
    BY <1>1, <1>4, <2>1, <2>2 DEF Flow, NoPart, Unpaid, Unserved, Placed, Billing, Paying, At
<1>11. QED
  BY <1>6, <1>7, <1>8, <1>9, <1>10 DEF CheckoutInv, FlowOK

LEMMA ReadActiveInv ==
  ASSUME NEW h \in Handler, CheckoutInv(h), Typed', ReadActive(h)
  PROVE  CheckoutInv(h)' /\ CompleteKept
<1>1. /\ work[h].stage = "active" /\ work[h].call = "add"
      /\ UNCHANGED <<carts, subs, services, sent>>
  BY DEF ReadActive, At
<1>2. WorkTypes(h) /\ Typed
  BY TypedIs DEF CheckoutInv
<1>3. PICK s \in SubId \cup {NoSub}, stage \in {"add", "clear"} :
        /\ IF HasActive THEN s # NoSub /\ subs[s].status = "Active" ELSE s = NoSub
        /\ stage = "add" <=> work[h].copy.status = "EMPTY"
        /\ Takes(h, s, stage)
  BY DEF ReadActive, Takes
<1>4. /\ work'[h].stage = stage /\ work'[h].copy = work[h].copy /\ work'[h].call = "add"
      /\ work'[h].cart = work[h].cart /\ work'[h].sub = s /\ work'[h].items = work[h].items
  BY <1>1, <1>2, <1>3, TakesIs DEF WorkTypes, Stages, SameRequest
<1>5. \A r \in SubId : NoPart(h, r)
  BY <1>1, NoPartIs
<1>6. HeldOK(h)'
  BY <1>1, <1>3, <1>4 DEF CheckoutInv, HeldOK, Fresh, Holds, At, Open
<1>7. WorkOK(h)'
  BY <1>1, <1>3, <1>4 DEF CheckoutInv, WorkOK, At, HasActive
<1>8. SentOK(h)'
  BY <1>1, <1>4 DEF CheckoutInv, SentOK, Truly, EventKind
<1>9. \A r \in SubId : Flow(h, r)'
  BY <1>1, <1>3, <1>4, <1>5, FlowKept DEF CheckoutInv, FlowOK, At
<1>10. QED
  BY <1>1, <1>6, <1>7, <1>8, <1>9, OnlyWork

(* A step to a stage of clearCartHelper.                                    *)
LEMMA ClearInv ==
  ASSUME NEW h \in Handler, CheckoutInv(h), Typed', Clear(h)
  PROVE  CheckoutInv(h)' /\ CompleteKept
<1> DEFINE doc == work[h].copy
<1>1. /\ work[h].stage = "clear" /\ work[h].call \in {"init", "add"}
      /\ UNCHANGED <<carts, subs, services, sent>>
  BY DEF Clear, At
<1>2. WorkTypes(h) /\ Typed
  BY TypedIs DEF CheckoutInv
<1>3. \A r \in SubId : NoPart(h, r)
  BY <1>1, NoPartIs
<1>4. CASE Ends(h)
  BY <1>1, <1>3, <1>4, EndInv
<1>5. ASSUME NEW stage \in {"empty", "cancel"}, Goes(h, stage, doc),
             stage = "empty" => (doc.sub # NoSub => subs[doc.sub].status = "Active"),
             stage = "cancel" =>
               doc.sub # NoSub /\ subs[doc.sub].status \in {"Requested", "Incomplete"}
      PROVE  CheckoutInv(h)' /\ CompleteKept
  <2>1. /\ work'[h].stage = stage /\ work'[h].copy = work[h].copy
        /\ work'[h].call = work[h].call /\ work'[h].cart = work[h].cart
        /\ work'[h].sub = work[h].sub /\ work'[h].items = work[h].items
    BY <1>1, <1>2, <1>5, GoesIs DEF WorkTypes, Stages, SameRequest
  <2>2. HeldOK(h)'
    BY <1>1, <1>5, <2>1 DEF CheckoutInv, HeldOK, Fresh, Holds, At, Open
  <2>3. WorkOK(h)'
    BY <1>1, <1>5, <2>1 DEF CheckoutInv, WorkOK, At, HasActive
  <2>4. SentOK(h)'
    BY <1>1, <2>1 DEF CheckoutInv, SentOK, Truly, EventKind
  <2>5. \A r \in SubId : Flow(h, r)'
    BY <1>1, <1>3, <1>5, <2>1, FlowKept DEF CheckoutInv, FlowOK, At
  <2>6. QED
    BY <1>1, <2>2, <2>3, <2>4, <2>5, OnlyWork
<1>6. doc.status = "PENDING_NEW_ADDITION_CONFIRMATION" => subs[doc.sub].status = "Active"
  BY <1>1, <1>2 DEF CheckoutInv, HeldOK, Fresh, Holds, At, CartOK, WorkTypes
<1>7. QED
  BY <1>1, <1>4, <1>5, <1>6 DEF Clear

(* A step on another subscription: nothing changes for r.                   *)
LEMMA FlowSame ==
  ASSUME NEW h, NEW r \in SubId, Flow(h, r), NoPart(h, r),
         subs'[r] = subs[r], InCart(r)' <=> InCart(r),
         \A k \in EventKind : Told(k, r) => Told(k, r)',
         ~(At(h, "link", {"billing"})' /\ work'[h].sub = r)
  PROVE  Flow(h, r)'
<1>1. "succeeded" \in EventKind /\ "expired" \in EventKind
  BY DEF EventKind
<1>2. ~(At(h, "link", {"billing"}) /\ work[h].sub = r)
  BY DEF NoPart, Billing
<1>3. Unpaid(h, r)' /\ Unserved(h, r)'
  BY <1>1 DEF Flow, Unpaid, Unserved, NoPart
<1>4. Placed(h, r)'
  BY <1>1 DEF Flow, Placed, NoPart
<1>5. QED
  BY <1>2, <1>3, <1>4 DEF Flow, NoPart

(* What one open cart, written or not, says of the subscriptions in carts.  *)
LEMMA OpenCartIs ==
  ASSUME OneOpenCart, NEW c \in CartId, Open(c),
         \A d \in CartId : d # c => carts'[d] = carts[d]
  PROVE  /\ \A r \in SubId : InCart(r) <=> carts[c].sub = r
         /\ \A r \in SubId : InCart(r)' <=> Open(c)' /\ carts'[c].sub = r
         /\ OneOpenCart' /\ CompleteKept
BY DEF OneOpenCart, InCart, Open, CompleteKept

LEMMA CancelInv ==
  ASSUME NEW h \in Handler, CheckoutInv(h), Typed', Cancel(h)
  PROVE  CheckoutInv(h)' /\ CompleteKept
<1> DEFINE s == work[h].copy.sub
<1>1. /\ work[h].stage = "cancel" /\ work[h].call \in {"init", "add"}
      /\ UNCHANGED <<carts, services, sent>>
  BY DEF Cancel, At
<1>2. WorkTypes(h) /\ Typed /\ StateTypes /\ SentTypes
  BY TypedIs DEF CheckoutInv
<1>3. \A r \in SubId : NoPart(h, r)
  BY <1>1, NoPartIs
<1>4. CASE Ends(h) /\ UNCHANGED subs
  BY <1>1, <1>3, <1>4, EndInv
<1>5. ASSUME subs[s].stripe \in {"incomplete", "active"},
             SetsStripe(s, "canceled"), Goes(h, "delete", work[h].copy)
      PROVE  CheckoutInv(h)' /\ CompleteKept
  <2>1. /\ work'[h].stage = "delete" /\ work'[h].copy = work[h].copy
        /\ work'[h].call = work[h].call /\ work'[h].cart = work[h].cart
        /\ work'[h].sub = work[h].sub /\ work'[h].items = work[h].items
    BY <1>1, <1>2, <1>5, GoesIs DEF WorkTypes, Stages, SameRequest
  <2>2. s \in SubId /\ subs[s].status \in {"Requested", "Incomplete"}
    BY <1>1, <1>2 DEF CheckoutInv, WorkOK, At, WorkTypes
  <2>3. /\ \A r \in SubId : r # s => subs'[r] = subs[r]
        /\ subs'[s].stripe = "canceled" /\ subs'[s].status = subs[s].status
    BY <1>2, <1>5, <2>2, SetsStripeIs DEF StateTypes
  <2>4. subs[s].status = "Incomplete"
    BY <1>1, <2>2 DEF CheckoutInv, FlowOK, Flow, At
  <2>5. \A r \in SubId : subs'[r].status = subs[r].status
    BY <2>3
  <2>6. OneOpenCart' /\ CompleteKept
    BY <1>1 DEF CheckoutInv, OneOpenCart, Open, CompleteKept
  <2>7. HeldOK(h)'
    BY <1>1, <2>1 DEF CheckoutInv, HeldOK, Fresh, Holds, At, Open
  <2>8. CartOK'
    <3>1. CartTypes
      BY TypedIs DEF CheckoutInv
    <3>2. \A r \in SubId : subs[r].stripe # "incomplete" => subs'[r].stripe # "incomplete"
      BY <2>3
    <3>3. QED
      BY <1>1, <2>5, <3>1, <3>2 DEF CheckoutInv, CartOK, CartTypes
  <2>9. SubsOK'
    BY <1>1, <2>3, <2>4 DEF CheckoutInv, SubsOK
  <2>10. SentOK(h)'
    <3>1. \A r \in SubId, k \in EventKind : Truly(k, r) => Truly(k, r)'
      BY <1>5, <2>3 DEF Truly
    <3>2. QED
      BY <1>1, <1>2, <2>1, <3>1 DEF CheckoutInv, SentOK, SentTypes, EventKind
  <2>11. WorkOK(h)'
    <3>1. HasActive' <=> HasActive
      BY <2>5 DEF HasActive
    <3>2. QED
      BY <1>1, <1>2, <2>1, <2>2, <2>3, <2>5, <3>1, SubIdIs
         DEF CheckoutInv, WorkOK, At, WorkTypes
  <2>12. ASSUME NEW r \in SubId
         PROVE  Flow(h, r)'
    <3>1. (InCart(r)' <=> InCart(r)) /\ \A k : Told(k, r)' <=> Told(k, r)
      BY <1>1 DEF InCart, Open, Told
    <3>2. ~At(h, "link", {"billing"})'
      BY <2>1 DEF At
    <3>3. ASSUME r # s PROVE Flow(h, r)'
      BY <1>3, <2>3, <3>1, <3>2, <3>3, FlowSame DEF CheckoutInv, FlowOK
    <3>4. ASSUME r = s PROVE Flow(h, r)'
      BY <1>1, <2>1, <2>3, <2>4, <3>2, <3>4 DEF Flow, Unpaid, Unserved, Placed, Deleting, At
    <3>5. QED
      BY <3>3, <3>4
  <2>13. QED
    BY <2>6, <2>7, <2>8, <2>9, <2>10, <2>11, <2>12 DEF CheckoutInv, FlowOK
<1>6. QED
  BY <1>4, <1>5 DEF Cancel, SetsStripe

LEMMA DeleteInv ==
  ASSUME NEW h \in Handler, CheckoutInv(h), Typed', Delete(h)
  PROVE  CheckoutInv(h)' /\ CompleteKept
<1> DEFINE s == work[h].copy.sub
<1>1. /\ work[h].stage = "delete" /\ work[h].call \in {"init", "add"}
      /\ UNCHANGED <<carts, services, sent>>
  BY DEF Delete, At
<1>2. WorkTypes(h) /\ Typed /\ StateTypes /\ SentTypes /\ CartTypes
  BY TypedIs DEF CheckoutInv
<1>3. /\ work'[h].stage = "empty" /\ work'[h].copy = work[h].copy
      /\ work'[h].call = work[h].call /\ work'[h].cart = work[h].cart
      /\ work'[h].sub = work[h].sub /\ work'[h].items = work[h].items
  BY <1>1, <1>2, GoesIs DEF Delete, WorkTypes, Stages, SameRequest
<1>4. s \in SubId /\ subs[s].stripe = "canceled"
  BY <1>1, <1>2 DEF CheckoutInv, WorkOK, At, WorkTypes
<1>5. /\ \A r \in SubId : r # s => subs'[r] = subs[r]
      /\ subs'[s].stripe = "canceled" /\ subs'[s].status = "deleted"
  <2>1. SetsStatus(s, "deleted") /\ "deleted" \in SubStatus
    BY DEF Delete, SetsStatus, SubStatus
  <2>2. QED
    BY <1>2, <1>4, <2>1, SetsStatusIs DEF StateTypes
<1>6. subs[s].status # "Active"
  BY <1>4 DEF CheckoutInv, SubsOK
<1>7. \A r \in SubId : /\ subs'[r].status = "Active" <=> subs[r].status = "Active"
                       /\ subs'[r].stripe = subs[r].stripe
  BY <1>4, <1>5, <1>6
<1>8. OneOpenCart' /\ CompleteKept
  BY <1>1 DEF CheckoutInv, OneOpenCart, Open, CompleteKept
<1>9. HeldOK(h)'
  BY <1>1, <1>3 DEF CheckoutInv, HeldOK, Fresh, Holds, At, Open
<1>10. CartOK'
  BY <1>1, <1>2, <1>7 DEF CheckoutInv, CartOK, CartTypes
<1>11. SubsOK'
  BY <1>1, <1>4, <1>5, <1>7 DEF CheckoutInv, SubsOK
<1>12. SentOK(h)'
  <2>1. \A r \in SubId, k \in EventKind : Truly(k, r) => Truly(k, r)'
    BY <1>7 DEF Truly
  <2>2. QED
    BY <1>1, <1>2, <1>3, <2>1 DEF CheckoutInv, SentOK, SentTypes, EventKind
<1>13. WorkOK(h)'
  <2>1. HasActive' <=> HasActive
    BY <1>7 DEF HasActive
  <2>2. QED
    BY <1>1, <1>2, <1>3, <1>5, <1>7, <2>1 DEF CheckoutInv, WorkOK, At, WorkTypes
<1>14. ASSUME NEW r \in SubId
       PROVE  Flow(h, r)'
  <2>1. (InCart(r)' <=> InCart(r)) /\ \A k : Told(k, r)' <=> Told(k, r)
    BY <1>1 DEF InCart, Open, Told
  <2>2. ~At(h, "link", {"billing"})'
    BY <1>3 DEF At
  <2>3. ASSUME r # s PROVE Flow(h, r)'
    <3>1. NoPart(h, r)
      BY <1>1, <2>3
         DEF NoPart, Billing, Deleting, Emptying, Paying, Paid, Expiring, Dropping, At
    <3>2. QED
      BY <1>5, <2>1, <2>2, <2>3, <3>1, FlowSame DEF CheckoutInv, FlowOK
  <2>4. ASSUME r = s PROVE Flow(h, r)'
    BY <1>1, <1>3, <1>5, <2>2, <2>4 DEF Flow, Unpaid, Unserved, Placed, Emptying, At
  <2>5. QED
    BY <2>3, <2>4
<1>15. QED
  BY <1>8, <1>9, <1>10, <1>11, <1>12, <1>13, <1>14 DEF CheckoutInv, FlowOK

LEMMA EmptyInv ==
  ASSUME NEW h \in Handler, CheckoutInv(h), Typed', Empty(h)
  PROVE  CheckoutInv(h)' /\ CompleteKept
<1> DEFINE c == work[h].cart
           stage == IF work[h].call = "init" THEN "idle" ELSE "add"
<1>1. /\ work[h].stage = "empty" /\ work[h].call \in {"init", "add"}
      /\ UNCHANGED <<subs, services, sent>>
  BY DEF Empty, At
<1>2. WorkTypes(h) /\ Typed /\ StateTypes /\ CartTypes
  BY TypedIs DEF CheckoutInv
<1>3. Holds(h) /\ Fresh(h) /\ Open(c) /\ c \in CartId
  BY <1>1, <1>2 DEF CheckoutInv, HeldOK, Holds, At, WorkTypes
<1>4. work[h].copy = carts[c]
  BY <1>3 DEF Fresh
<1>5. PICK new \in Doc : /\ new = Emptied(work[h].copy, work[h].network)
                         /\ new.status = "EMPTY" /\ new.sub = NoSub
                         /\ new.v = work[h].copy.v
  BY <1>1, <1>2, EmptiedType DEF WorkTypes
<1>6. Persists(h, new, stage) /\ stage \in Stages \cup {"idle"}
  BY <1>5 DEF Empty, Stages
<1>7. /\ \A d \in CartId : d # c => carts'[d] = carts[d]
      /\ carts'[c].status = "EMPTY" /\ carts'[c].sub = NoSub
  BY <1>2, <1>3, <1>5, <1>6, PersistsIs
<1>8. \/ work'[h].stage = "idle"
      \/ /\ work[h].call = "add" /\ work'[h].stage = "add" /\ work'[h].call = "add"
         /\ work'[h].copy = carts'[c] /\ work'[h].cart = c
         /\ work'[h].sub = work[h].sub /\ work'[h].items = work[h].items
  BY <1>1, <1>2, <1>3, <1>5, <1>6, PersistsIs DEF SameRequest
<1>9. /\ \A r \in SubId : InCart(r) <=> work[h].copy.sub = r
      /\ \A r \in SubId : ~InCart(r)'
      /\ OneOpenCart' /\ CompleteKept
  BY <1>3, <1>4, <1>7, OpenCartIs, SubIdIs DEF CheckoutInv
<1>10. HeldOK(h)'
  BY <1>7, <1>8 DEF HeldOK, Fresh, Holds, At, Open
<1>11. CartOK' /\ SubsOK'
  BY <1>1, <1>7 DEF CheckoutInv, CartOK, SubsOK, FreeOffer
<1>12. SentOK(h)'
  BY <1>1, <1>8 DEF CheckoutInv, SentOK, Truly, EventKind
<1>13. WorkOK(h)'
  BY <1>1, <1>7, <1>8 DEF CheckoutInv, WorkOK, At, HasActive
<1>14. ASSUME NEW r \in SubId
       PROVE  Flow(h, r)'
  <2>1. InCart(r) => subs[r].status \in {"Active", "deleted"}
    BY <1>1, <1>9, SubIdIs DEF CheckoutInv, WorkOK, At
  <2>2. Flow(h, r) /\ SubsOK /\ ~InCart(r)' /\ subs' = subs
    BY <1>1, <1>9 DEF CheckoutInv, FlowOK
  <2>3. ~Billing(h, r) /\ ~Paying(h, r) /\ ~Paid(h, r) /\ ~Deleting(h, r)
        /\ ~At(h, "link", {"billing"}) /\ ~At(h, "link", {"billing"})'
    BY <1>1, <1>8 DEF Billing, Paying, Paid, Deleting, At
  <2>4. subs[r].stripe # "incomplete"
        /\ (subs[r].stripe = "active" => subs[r].status = "Active")
    BY <2>1, <2>2, <2>3 DEF Flow, Unpaid, Unserved, SubsOK
  <2>5. QED
    BY <2>2, <2>3, <2>4 DEF Flow, Unpaid, Unserved, Placed
<1>15. QED
  BY <1>9, <1>10, <1>11, <1>12, <1>13, <1>14 DEF CheckoutInv, FlowOK

LEMMA AddInv ==
  ASSUME NEW h \in Handler, CheckoutInv(h), Typed', Add(h)
  PROVE  CheckoutInv(h)' /\ CompleteKept
<1> DEFINE stage == IF work[h].items.tier = "free" THEN "service" ELSE "idle"
<1>1. /\ work[h].stage = "add" /\ work[h].call = "add"
      /\ UNCHANGED <<subs, services, sent>>
  BY DEF Add, At
<1>2. WorkTypes(h) /\ Typed /\ StateTypes /\ CartTypes
  BY TypedIs DEF CheckoutInv
<1>3. PICK c \in CartId : c = work[h].cart /\ Holds(h) /\ Fresh(h) /\ Open(c)
  BY <1>1, <1>2 DEF CheckoutInv, HeldOK, Holds, At, WorkTypes
<1>4. work[h].copy = carts[c]
  BY <1>3 DEF Fresh
<1>5. /\ work[h].copy.status = "EMPTY" /\ work[h].items # NoItems
      /\ work[h].sub # NoSub => subs[work[h].sub].status = "Active"
      /\ work[h].sub = NoSub => ~HasActive
  BY <1>1 DEF CheckoutInv, WorkOK, At
<1>6. work[h].copy.sub = NoSub
  BY <1>3, <1>4, <1>5 DEF CheckoutInv, CartOK
<1>7. PICK new \in Doc :
        /\ new = WithItems(work[h])
        /\ new.items = work[h].items /\ new.v = work[h].copy.v
        /\ \/ new.status = "EMPTY" /\ new.sub = NoSub
           \/ /\ work[h].sub # NoSub
              /\ new.status = "PENDING_NEW_ADDITION_CONFIRMATION" /\ new.sub = work[h].sub
           \/ /\ work[h].sub = NoSub /\ work[h].items.tier = "cc"
              /\ new.status = "PENDING_BILLING_FOR_FREE_OFFER" /\ new.sub = NoSub
           \/ /\ work[h].sub = NoSub
              /\ new.status = "PENDING_BILLING_INFO" /\ new.sub = NoSub
  BY <1>1, <1>2, <1>5, <1>6, WithItemsType DEF WorkTypes
<1>8. Persists(h, new, stage) /\ stage \in Stages \cup {"idle"}
  BY <1>7 DEF Add, Stages
<1>9. /\ \A d \in CartId : d # c => carts'[d] = carts[d]
      /\ carts'[c].status = new.status /\ carts'[c].sub = new.sub
      /\ carts'[c].items = new.items
  BY <1>2, <1>3, <1>7, <1>8, PersistsIs
<1>10. \/ work'[h].stage = "idle"
       \/ /\ work'[h].stage = "service" /\ work'[h].call = "add"
          /\ work'[h].copy = carts'[c] /\ work'[h].cart = c
          /\ work'[h].items = work[h].items
  BY <1>1, <1>2, <1>3, <1>7, <1>8, PersistsIs DEF SameRequest
<1>11. /\ \A r \in SubId : InCart(r) <=> work[h].copy.sub = r
       /\ \A r \in SubId : InCart(r)' <=> new.sub = r
       /\ OneOpenCart' /\ CompleteKept
  <2>1. Open(c)'
    BY <1>7, <1>9 DEF Open
  <2>2. QED
    BY <1>3, <1>4, <1>9, <2>1, OpenCartIs DEF CheckoutInv
<1>12. HeldOK(h)'
  BY <1>7, <1>9, <1>10 DEF HeldOK, Fresh, Holds, At, Open
<1>13. CartOK' /\ SubsOK'
  <2>1. SubsOK'
    BY <1>1 DEF CheckoutInv, SubsOK
  <2>2. ASSUME NEW d \in CartId, d # c
        PROVE  carts'[d] = carts[d] /\ subs' = subs
    BY <1>1, <1>9, <2>2
  <2>3. ~HasActive => \A s \in SubId : subs'[s].status # "Active"
    BY <1>1 DEF HasActive
  <2>4. CartOK'
    BY <1>1, <1>3, <1>5, <1>7, <1>9, <2>2, <2>3 DEF CheckoutInv, CartOK, FreeOffer
  <2>5. QED
    BY <2>1, <2>4
<1>14. SentOK(h)'
  BY <1>1, <1>10 DEF CheckoutInv, SentOK, Truly, EventKind
<1>15. WorkOK(h)'
  BY <1>5, <1>10 DEF WorkOK, At
<1>16. ASSUME NEW r \in SubId
       PROVE  Flow(h, r)'
  <2>1. ~InCart(r) /\ (InCart(r)' => subs[r].status = "Active")
    BY <1>5, <1>6, <1>7, <1>11, SubIdIs
  <2>2. Flow(h, r) /\ SubsOK /\ subs' = subs
    BY <1>1 DEF CheckoutInv, FlowOK
  <2>3. ~Billing(h, r) /\ ~Paying(h, r) /\ ~Paid(h, r) /\ ~Deleting(h, r)
        /\ ~At(h, "link", {"billing"}) /\ ~At(h, "link", {"billing"})'
    BY <1>1, <1>10 DEF Billing, Paying, Paid, Deleting, At
  <2>4. QED
    BY <2>1, <2>2, <2>3 DEF Flow, Unpaid, Unserved, Placed
<1>17. QED
  BY <1>11, <1>12, <1>13, <1>14, <1>15, <1>16 DEF CheckoutInv, FlowOK

(* A user network more.                                                     *)
LEMMA ServedIs ==
  ASSUME services \in [Network -> Nat], NEW n \in Network,
         Serves(n) \/ services' = [services EXCEPT ![n] = IF @ = 0 THEN 1 ELSE @]
  PROVE  /\ services'[n] > 0
         /\ (\E m \in Network : services[m] > 0) => \E m \in Network : services'[m] > 0
<1>1. \A m \in Network : services[m] \in Nat
  OBVIOUS
<1>2. \A m \in Network : services'[m] >= services[m]
  BY <1>1 DEF Serves
<1>3. services'[n] > 0
  BY <1>1 DEF Serves
<1>4. ASSUME NEW m \in Network, services[m] > 0
      PROVE  services'[m] > 0
  <2>1. CASE m = n
    BY <1>3, <2>1
  <2>2. CASE m # n
    <3>1. services'[m] = services[m]
      BY <2>2 DEF Serves
    <3>2. QED
      BY <1>4, <3>1
  <2>3. QED
    BY <2>1, <2>2
<1>5. QED
  BY <1>3, <1>4

LEMMA AddServiceInv ==
  ASSUME NEW h \in Handler, CheckoutInv(h), Typed', AddService(h)
  PROVE  CheckoutInv(h)' /\ CompleteKept
<1>1. /\ work[h].stage = "service" /\ work[h].call = "add" /\ Ends(h)
      /\ UNCHANGED <<carts, subs, sent>>
  BY DEF AddService, At
<1>2. WorkTypes(h) /\ Typed /\ StateTypes
  BY TypedIs DEF CheckoutInv
<1>3. work'[h].stage = "idle"
  BY <1>1, EndsIs DEF CheckoutInv
<1>4. (\E m \in Network : services[m] > 0) => \E m \in Network : services'[m] > 0
  <2>1. work[h].copy.network \in Network
    BY <1>1, <1>2 DEF WorkTypes
  <2>2. QED
    BY <1>2, <2>1, ServedIs DEF AddService, StateTypes
<1>5. OneOpenCart' /\ CartOK' /\ SubsOK' /\ CompleteKept
  BY <1>1, <1>4 DEF CheckoutInv, OneOpenCart, Open, CartOK, SubsOK, CompleteKept
<1>6. HeldOK(h)' /\ WorkOK(h)'
  BY <1>3 DEF HeldOK, Fresh, Holds, WorkOK, At
<1>7. SentOK(h)'
  BY <1>1, <1>3 DEF CheckoutInv, SentOK, Truly
<1>8. \A r \in SubId : Flow(h, r)'
  <2>1. \A r \in SubId : NoPart(h, r)
    BY <1>1, NoPartIs
  <2>2. QED
    BY <1>1, <1>3, <2>1, FlowKept DEF CheckoutInv, FlowOK, At
<1>9. QED
  BY <1>5, <1>6, <1>7, <1>8 DEF CheckoutInv, FlowOK

LEMMA OfferInv ==
  ASSUME NEW h \in Handler, CheckoutInv(h), Typed', Offer(h)
  PROVE  CheckoutInv(h)' /\ CompleteKept
<1>1. /\ work[h].stage = "offer" /\ work[h].call = "confirm"
      /\ UNCHANGED <<carts, subs, sent>>
  BY DEF Offer, At
<1>2. WorkTypes(h) /\ Typed /\ StateTypes
  BY TypedIs DEF CheckoutInv
<1>3. \A r \in SubId : NoPart(h, r)
  BY <1>1, NoPartIs
<1>4. CASE Ends(h) /\ UNCHANGED services
  BY <1>1, <1>3, <1>4, EndInv
<1> DEFINE n == work[h].copy.network
<1>5. ASSUME services' = [services EXCEPT ![n] = IF @ = 0 THEN 1 ELSE @],
             Goes(h, "save", work[h].copy)
      PROVE  CheckoutInv(h)' /\ CompleteKept
  <2>1. /\ work'[h].stage = "save" /\ work'[h].copy = work[h].copy
        /\ work'[h].call = "confirm" /\ work'[h].cart = work[h].cart
    BY <1>1, <1>2, <1>5, GoesIs DEF WorkTypes, Stages, SameRequest
  <2>2. (\E m \in Network : services[m] > 0) => \E m \in Network : services'[m] > 0
    <3>1. n \in Network
      BY <1>1, <1>2 DEF WorkTypes
    <3>2. QED
      BY <1>2, <1>5, <3>1, ServedIs DEF StateTypes
  <2>3. OneOpenCart' /\ CartOK' /\ SubsOK' /\ CompleteKept
    BY <1>1, <2>2 DEF CheckoutInv, OneOpenCart, Open, CartOK, SubsOK, CompleteKept
  <2>4. HeldOK(h)'
    BY <1>1, <2>1 DEF CheckoutInv, HeldOK, Fresh, Holds, At, Open
  <2>5. WorkOK(h)'
    BY <1>1, <2>1 DEF CheckoutInv, WorkOK, At
  <2>6. SentOK(h)'
    BY <1>1, <2>1 DEF CheckoutInv, SentOK, Truly, EventKind
  <2>7. \A r \in SubId : Flow(h, r)'
    BY <1>1, <1>3, <2>1, FlowKept DEF CheckoutInv, FlowOK, At
  <2>8. QED
    BY <2>3, <2>4, <2>5, <2>6, <2>7 DEF CheckoutInv, FlowOK
<1>6. QED
  BY <1>4, <1>5 DEF Offer

LEMMA TokenInv ==
  ASSUME NEW h \in Handler, CheckoutInv(h), Typed', Token(h)
  PROVE  CheckoutInv(h)' /\ CompleteKept
<1> DEFINE c == work[h].cart
           doc == work[h].copy
<1>1. /\ work[h].stage = "token" /\ work[h].call = "billing"
      /\ UNCHANGED <<carts, services>>
  BY DEF Token, At
<1>2. WorkTypes(h) /\ Typed /\ StateTypes /\ CartTypes /\ SentTypes
  BY TypedIs DEF CheckoutInv
<1>3. Holds(h) /\ Fresh(h) /\ Open(c) /\ c \in CartId
  BY <1>1, <1>2 DEF CheckoutInv, HeldOK, Holds, At, WorkTypes
<1>4. doc = carts[c] /\ \A r \in SubId : InCart(r) <=> doc.sub = r
  BY <1>3, OpenCartIs DEF CheckoutInv, Fresh, OneOpenCart, InCart
<1>5. \A r \in SubId : NoPart(h, r)
  BY <1>1, NoPartIs
<1>6. OneOpenCart' /\ CompleteKept
  BY <1>1 DEF CheckoutInv, OneOpenCart, Open, CompleteKept
<1>7. CASE Ends(h) /\ UNCHANGED <<subs, sent>>
  BY <1>1, <1>5, <1>7, EndInv
<1>8. ASSUME Exists(doc.sub), Takes(h, doc.sub, "save"), UNCHANGED <<subs, sent>>
      PROVE  CheckoutInv(h)' /\ CompleteKept
  <2>1. /\ work'[h].stage = "save" /\ work'[h].copy = doc /\ work'[h].call = "billing"
        /\ work'[h].cart = c /\ work'[h].sub = doc.sub
    BY <1>1, <1>2, <1>8, TakesIs DEF WorkTypes, Stages, SameRequest
  <2>2. HeldOK(h)'
    BY <1>1, <1>3, <1>4, <2>1 DEF HeldOK, Fresh, Holds, At, Open
  <2>3. WorkOK(h)'
    <3>1. doc.sub # NoSub /\ doc.items # NoItems
      BY <1>3, <1>4, <1>8 DEF CheckoutInv, CartOK, Exists
    <3>2. QED
      BY <2>1, <3>1 DEF WorkOK, At
  <2>4. SentOK(h)'
    BY <1>8, <2>1 DEF CheckoutInv, SentOK, Truly, EventKind
  <2>5. \A r \in SubId : Flow(h, r)'
    BY <1>1, <1>5, <1>8, <2>1, FlowKept DEF CheckoutInv, FlowOK, At
  <2>6. QED
    BY <1>1, <1>8, <2>2, <2>3, <2>4, <2>5, OnlyWork
<1>9. ASSUME ~Exists(doc.sub), doc.items # NoItems,
             NEW s \in SubId, subs[s].status = "none",
             NEW st \in {"incomplete", "active"},
             Requests(s, st), Takes(h, s, "link"),
             st = "incomplete" => doc.items.tier = "paid" /\ sent' = sent,
             st = "active" => Emits(s, "succeeded")
      PROVE  CheckoutInv(h)' /\ CompleteKept
  <2>1. /\ work'[h].stage = "link" /\ work'[h].copy = doc /\ work'[h].call = "billing"
        /\ work'[h].cart = c /\ work'[h].sub = s
    BY <1>1, <1>2, <1>9, TakesIs DEF WorkTypes, Stages, SameRequest
  <2>2. /\ \A r \in SubId : r # s => subs'[r] = subs[r]
        /\ subs'[s].stripe = st /\ subs'[s].status = "Requested"
    BY <1>2, <1>9, RequestsIs DEF StateTypes
  <2>3. subs[s].stripe = "none" /\ ~InCart(s) /\ doc.sub # s
    BY <1>4, <1>9 DEF CheckoutInv, SubsOK, FlowOK, Flow, Placed
  <2>4. /\ \A e \in sent' : e \in sent \/ (e.kind = "succeeded" /\ e.sub = s /\ st = "active")
        /\ \A k \in EventKind, r \in SubId : Told(k, r) => Told(k, r)'
        /\ st = "active" => Told("succeeded", s)'
    BY <1>9 DEF Emits, Told
  <2>5. HasActive' <=> HasActive
    BY <1>9, <2>2 DEF HasActive
  <2>6. HeldOK(h)'
    BY <1>1, <1>3, <1>4, <2>1 DEF HeldOK, Fresh, Holds, At, Open
  <2>7. CartOK'
    <3>1. \A r \in SubId : subs'[r].status = "Active" <=> subs[r].status = "Active"
      BY <1>9, <2>2
    <3>2. ASSUME NEW d \in CartId, carts[d].status \in FreeOffer
          PROVE  carts[d].sub # s
      BY <2>3, <3>2 DEF InCart, Open, FreeOffer
    <3>3. QED
      BY <1>1, <1>2, <2>2, <3>1, <3>2 DEF CheckoutInv, CartOK, CartTypes
  <2>8. SubsOK'
    BY <1>1, <2>2 DEF CheckoutInv, SubsOK
  <2>9. SentOK(h)'
    <3>1. \A r \in SubId, k \in EventKind : Truly(k, r) => Truly(k, r)'
      BY <2>2, <2>3 DEF Truly
    <3>2. st = "active" => Truly("succeeded", s)'
      BY <2>2 DEF Truly
    <3>3. QED
      BY <1>2, <2>1, <2>4, <3>1, <3>2 DEF CheckoutInv, SentOK, SentTypes, EventKind
  <2>10. WorkOK(h)'
    <3>1. ~Exists(doc.sub)'
      <4>1. doc.sub \in SubId \cup {NoSub}
        BY <1>1, <1>2 DEF WorkTypes
      <4>2. QED
        BY <1>9, <2>1, <2>2, <2>3, <4>1 DEF Exists
    <3>2. doc.status \in FreeOffer => st # "incomplete" /\ ~HasActive'
      <4>1. ASSUME doc.status \in FreeOffer
            PROVE  /\ doc.items.tier = "cc"
                   /\ \A r \in SubId : subs[r].status = "Active" => doc.sub = r
        BY <1>3, <1>4, <4>1 DEF CheckoutInv, CartOK
      <4>2. QED
        BY <1>9, <2>5, <4>1, SubIdIs DEF Exists, HasActive
    <3>3. NewSub(s, doc)'
      BY <2>1, <2>2, <3>1, <3>2 DEF NewSub
    <3>4. QED
      BY <1>9, <2>1, <3>3, SubIdIs DEF WorkOK, At
  <2>11. ASSUME NEW r \in SubId
         PROVE  Flow(h, r)'
    <3>1. InCart(r)' <=> InCart(r)
      BY <1>1 DEF InCart, Open
    <3>2. ASSUME r # s PROVE Flow(h, r)'
      BY <1>5, <2>1, <2>2, <2>4, <3>1, <3>2, FlowSame DEF CheckoutInv, FlowOK
    <3>3. ASSUME r = s PROVE Flow(h, r)'
      BY <2>1, <2>2, <2>3, <2>4, <3>1, <3>3 DEF Flow, Unpaid, Unserved, Placed, Billing, At
    <3>4. QED
      BY <3>2, <3>3
  <2>12. QED
    BY <1>6, <2>6, <2>7, <2>8, <2>9, <2>10, <2>11 DEF CheckoutInv, FlowOK
<1>10. QED
  <2>1. CASE Exists(doc.sub)
    BY <1>8, <2>1 DEF Token, Takes
  <2>2. CASE ~Exists(doc.sub) /\ doc.items = NoItems
    BY <1>7, <2>2 DEF Token
  <2>3. CASE ~Exists(doc.sub) /\ doc.items # NoItems
    <3>1. PICK s \in SubId :
            /\ subs[s].status = "none" /\ Takes(h, s, "link")
            /\ \/ doc.items.tier = "paid" /\ Requests(s, "incomplete") /\ sent' = sent
               \/ Requests(s, "active") /\ Emits(s, "succeeded")
      BY <2>3 DEF Token, Takes, Requests
    <3>2. QED
      BY <1>9, <2>3, <3>1
  <2>4. QED
    BY <2>1, <2>2, <2>3

LEMMA LinkInv ==
  ASSUME NEW h \in Handler, CheckoutInv(h), Typed', Link(h)
  PROVE  CheckoutInv(h)' /\ CompleteKept
<1> DEFINE c == work[h].cart
           s == work[h].sub
           doc == work[h].copy
<1>1. /\ work[h].stage = "link" /\ work[h].call = "billing"
      /\ UNCHANGED <<carts, services, sent>>
  BY DEF Link, At
<1>2. WorkTypes(h) /\ Typed /\ StateTypes /\ CartTypes /\ SentTypes
  BY TypedIs DEF CheckoutInv
<1>3. Holds(h) /\ Fresh(h) /\ Open(c) /\ c \in CartId
  BY <1>1, <1>2 DEF CheckoutInv, HeldOK, Holds, At, WorkTypes
<1>4. doc = carts[c] /\ \A r \in SubId : InCart(r) <=> doc.sub = r
  BY <1>3, OpenCartIs DEF CheckoutInv, Fresh, OneOpenCart, InCart
<1>5. s \in SubId /\ doc.items # NoItems /\ NewSub(s, doc)
  BY <1>1, <1>2 DEF CheckoutInv, WorkOK, At, WorkTypes
<1>6. subs[s].status = "Requested" /\ subs[s].stripe \in {"incomplete", "active"}
  BY <1>1, <1>5 DEF CheckoutInv, FlowOK, Flow, SubsOK, At
<1>7. /\ work'[h].stage = "save" /\ work'[h].copy = doc /\ work'[h].call = "billing"
      /\ work'[h].cart = c /\ work'[h].sub = s
  BY <1>1, <1>2, GoesIs DEF Link, WorkTypes, Stages, SameRequest
<1>8. /\ \A r \in SubId : r # s => subs'[r] = subs[r]
      /\ subs'[s].stripe = subs[s].stripe /\ subs'[s].status = "Incomplete"
  <2>1. SetsStatus(s, "Incomplete") /\ "Incomplete" \in SubStatus
    BY DEF Link, SetsStatus, SubStatus
  <2>2. QED
    BY <1>2, <1>5, <2>1, SetsStatusIs DEF StateTypes
<1>9. doc.sub # s
  BY <1>5, <1>6, SubIdIs DEF NewSub, Exists
<1>10. \A r \in SubId : /\ subs'[r].status = "Active" <=> subs[r].status = "Active"
                        /\ subs'[r].stripe = subs[r].stripe
  BY <1>6, <1>8
<1>11. HasActive' <=> HasActive
  BY <1>10 DEF HasActive
<1>12. OneOpenCart' /\ CompleteKept
  BY <1>1 DEF CheckoutInv, OneOpenCart, Open, CompleteKept
<1>13. HeldOK(h)'
  BY <1>1, <1>3, <1>4, <1>7 DEF HeldOK, Fresh, Holds, At, Open
<1>14. CartOK'
  BY <1>1, <1>2, <1>10 DEF CheckoutInv, CartOK, CartTypes
<1>15. SubsOK'
  BY <1>1, <1>6, <1>8 DEF CheckoutInv, SubsOK
<1>16. SentOK(h)'
  <2>1. \A r \in SubId, k \in EventKind : Truly(k, r) => Truly(k, r)'
    BY <1>10 DEF Truly
  <2>2. QED
    BY <1>1, <1>2, <1>7, <2>1 DEF CheckoutInv, SentOK, SentTypes, EventKind
<1>17. WorkOK(h)'
  <2>1. ~Exists(doc.sub)'
    <3>1. doc.sub \in SubId \cup {NoSub} /\ ~Exists(doc.sub)
      BY <1>1, <1>2, <1>5 DEF WorkTypes, NewSub
    <3>2. QED
      BY <1>7, <1>8, <1>9, <3>1 DEF Exists
  <2>2. NewSub(s, doc)'
    BY <1>5, <1>7, <1>8, <1>11, <2>1 DEF NewSub
  <2>3. QED
    BY <1>5, <1>6, <1>7, <1>8, <2>2, SubIdIs DEF WorkOK, At
<1>18. ASSUME NEW r \in SubId
       PROVE  Flow(h, r)'
  <2>1. (InCart(r)' <=> InCart(r)) /\ \A k : Told(k, r)' <=> Told(k, r)
    BY <1>1 DEF InCart, Open, Told
  <2>2. ~At(h, "link", {"billing"})'
    BY <1>7 DEF At
  <2>3. ASSUME r # s PROVE Flow(h, r)'
    <3>1. NoPart(h, r)
      BY <1>1, <2>3
         DEF NoPart, Billing, Deleting, Emptying, Paying, Paid, Expiring, Dropping, At
    <3>2. QED
      BY <1>8, <2>1, <2>2, <2>3, <3>1, FlowSame DEF CheckoutInv, FlowOK
  <2>4. ASSUME r = s PROVE Flow(h, r)'
    <3>1. Flow(h, r) /\ ~InCart(r) /\ ~Paying(h, r) /\ ~Paid(h, r) /\ Billing(h, r)'
      BY <1>1, <1>4, <1>7, <1>9, <2>4
         DEF CheckoutInv, FlowOK, Paying, Paid, Billing, At
    <3>2. QED
      BY <1>6, <1>8, <2>1, <2>2, <2>4, <3>1 DEF Flow, Unpaid, Unserved, Placed
  <2>5. QED
    BY <2>3, <2>4
<1>19. QED
  BY <1>12, <1>13, <1>14, <1>15, <1>16, <1>17, <1>18 DEF CheckoutInv, FlowOK

(* The last save of a call: the status of the cart changes and, for         *)
(* addBillingInfo, its subscription; then the handler is done.              *)
LEMMA SaveCartInv ==
  ASSUME NEW h \in Handler, CheckoutInv(h), Typed', SaveCart(h)
  PROVE  CheckoutInv(h)' /\ CompleteKept
<1> DEFINE call == work[h].call
           doc == work[h].copy
<1>1. /\ work[h].stage = "save"
      /\ call \in {"billing", "pending", "confirm", "error", "attach"}
      /\ UNCHANGED <<subs, services, sent>>
  BY DEF SaveCart, At, UserCall, CheckoutInv, Typed
<1>2. WorkTypes(h) /\ Typed /\ StateTypes /\ CartTypes
  BY TypedIs DEF CheckoutInv
<1>3. PICK c \in CartId : c = work[h].cart /\ Holds(h) /\ Fresh(h) /\ Open(c)
  BY <1>1, <1>2 DEF CheckoutInv, HeldOK, Holds, Fresh, At, WorkTypes, Open
<1>4. doc = carts[c]
  BY <1>3 DEF Fresh
<1>5. PICK new \in Doc :
        /\ new = Result(work[h])
        /\ new.items = doc.items /\ new.v = doc.v
        /\ new.sub = IF call = "billing" THEN work[h].sub ELSE doc.sub
        /\ \/ /\ call = "billing" /\ doc.status \in FreeOffer
              /\ new.status = "PENDING_CC_FOR_FREE_OFFER"
           \/ /\ call = "billing" /\ doc.status \notin FreeOffer
              /\ new.status = "PENDING_CC_INFO"
           \/ call = "pending" /\ new.status = "PENDING_PROCESSING_PAYMENT"
           \/ call = "error" /\ new.status = "ERROR_GATEWAY_ERROR"
           \/ call \in {"confirm", "attach"} /\ new.status = "CHECKOUT_COMPLETE"
  BY <1>1, <1>2, ResultType DEF WorkTypes
<1>6. Persists(h, new, "idle")
  BY <1>5 DEF SaveCart
<1>7. /\ \A d \in CartId : d # c => carts'[d] = carts[d]
      /\ carts'[c].status = new.status /\ carts'[c].sub = new.sub
      /\ carts'[c].items = new.items
      /\ work'[h].stage = "idle"
  BY <1>2, <1>3, <1>5, <1>6, PersistsIs
<1>8. /\ \A r \in SubId : InCart(r) <=> doc.sub = r
      /\ \A r \in SubId : InCart(r)' <=> new.status # "CHECKOUT_COMPLETE" /\ new.sub = r
      /\ OneOpenCart' /\ CompleteKept
  <2>1. Open(c)' <=> new.status # "CHECKOUT_COMPLETE"
    BY <1>5, <1>7 DEF Open
  <2>2. QED
    BY <1>3, <1>4, <1>7, <2>1, OpenCartIs DEF CheckoutInv
<1>9. call = "billing" =>
        /\ work[h].sub \in SubId /\ doc.items # NoItems
        /\ \/ doc.sub = work[h].sub
           \/ /\ NewSub(work[h].sub, doc)
              /\ subs[work[h].sub].status = "Incomplete"
              /\ subs[work[h].sub].stripe \in {"incomplete", "active"}
  BY <1>1, <1>2 DEF CheckoutInv, WorkOK, At, WorkTypes
<1>10. call \in {"confirm", "attach"} => doc.sub \in SubId /\ subs[doc.sub].status = "Active"
  <2>1. CASE call = "confirm"
    <3>1. doc.status = "PENDING_NEW_ADDITION_CONFIRMATION"
      BY <1>1, <2>1 DEF CheckoutInv, WorkOK
    <3>2. QED
      BY <1>1, <1>2, <1>4, <3>1 DEF CheckoutInv, CartOK, WorkTypes
  <2>2. CASE call = "attach"
    <3>1. doc.status \in FreeOffer /\ HasActive
      BY <1>1, <1>3, <1>4, <2>2 DEF CheckoutInv, HeldOK, FreeOffer
    <3>2. QED
      BY <1>4, <3>1 DEF CheckoutInv, CartOK, HasActive
  <2>3. QED
    BY <2>1, <2>2
<1>11. HeldOK(h)' /\ WorkOK(h)'
  BY <1>7 DEF HeldOK, Fresh, Holds, WorkOK, At
<1>12. CartOK'
  <2>1. /\ new.status \in {"EMPTY", "PENDING_BILLING_INFO", "EXPIRED"} => new.sub = NoSub
        /\ new.sub # NoSub => new.items # NoItems
        /\ new.status # "PENDING_NEW_ADDITION_CONFIRMATION"
    BY <1>1, <1>4, <1>5, <1>9 DEF CheckoutInv, CartOK
  <2>2. ASSUME new.status \in FreeOffer
        PROVE  /\ new.items.tier = "cc"
               /\ new.sub # NoSub => subs[new.sub].stripe # "incomplete"
               /\ \A s \in SubId : subs[s].status = "Active" => new.sub = s
    <3>1. call = "billing" /\ doc.status \in FreeOffer /\ new.sub = work[h].sub
      BY <1>5, <2>2 DEF FreeOffer
    <3>2. /\ doc.items.tier = "cc"
          /\ doc.sub # NoSub => subs[doc.sub].stripe # "incomplete"
          /\ \A s \in SubId : subs[s].status = "Active" => doc.sub = s
      BY <1>4, <3>1 DEF CheckoutInv, CartOK
    <3>3. QED
      BY <1>5, <1>9, <3>1, <3>2 DEF NewSub, HasActive
  <2>3. QED
    BY <1>1, <1>7, <2>1, <2>2 DEF CheckoutInv, CartOK
<1>13. SubsOK'
  BY <1>1 DEF CheckoutInv, SubsOK
<1>14. SentOK(h)'
  BY <1>1, <1>7 DEF CheckoutInv, SentOK, Truly
<1>15. ASSUME NEW r \in SubId
       PROVE  Flow(h, r)'
  <2>1. Flow(h, r) /\ SubsOK /\ subs' = subs
    BY <1>1 DEF CheckoutInv, FlowOK
  <2>2. ~Paying(h, r) /\ ~Paid(h, r) /\ ~Deleting(h, r) /\ ~Emptying(h, r)
        /\ ~Expiring(h, r) /\ ~Dropping(h, r)
        /\ ~At(h, "link", {"billing"}) /\ ~At(h, "link", {"billing"})'
    BY <1>1, <1>7 DEF Paying, Paid, Deleting, Emptying, Expiring, Dropping, At
  <2>3. (Billing(h, r) <=> call = "billing" /\ work[h].sub = r) /\ (Told("succeeded", r)' <=> Told("succeeded", r))
    BY <1>1 DEF Billing, At, Told
  <2>4. CASE call = "billing" /\ work[h].sub = r
    <3>1. InCart(r)'
      BY <1>5, <1>8, <2>4
    <3>2. \/ InCart(r)
          \/ subs[r].status = "Incomplete" /\ subs[r].stripe \in {"incomplete", "active"}
      BY <1>8, <1>9, <2>4
    <3>3. Placed(h, r)'
      BY <2>1, <2>2, <3>2, <1>1 DEF Flow, Placed, Told
    <3>4. QED
      BY <2>1, <2>2, <2>3, <3>1, <3>3 DEF Flow, Unpaid, Unserved
  <2>5. CASE call = "billing" /\ work[h].sub # r
    <3>1. ~InCart(r)' /\ ~Billing(h, r)
      BY <1>5, <1>8, <2>3, <2>5
    <3>2. InCart(r) => subs[r].status \in {"none", "deleted"}
      BY <1>8, <1>9, <2>5, SubIdIs DEF NewSub, Exists
    <3>3. subs[r].stripe # "incomplete"
          /\ (subs[r].stripe = "active" => subs[r].status = "Active")
      BY <2>1, <2>2, <3>1, <3>2 DEF Flow, Unpaid, Unserved, SubsOK
    <3>4. QED
      BY <2>1, <2>2, <3>1, <3>3 DEF Flow, Unpaid, Unserved, Placed
  <2>6. CASE call \in {"pending", "error"}
    <3>1. InCart(r)' <=> InCart(r)
      BY <1>5, <1>8, <2>6
    <3>2. NoPart(h, r) /\ \A k \in EventKind : Told(k, r) => Told(k, r)'
      BY <1>1, <2>2, <2>3, <2>6 DEF NoPart, Told
    <3>3. QED
      BY <2>1, <2>2, <3>1, <3>2, FlowSame
  <2>7. CASE call \in {"confirm", "attach"}
    <3>1. ~InCart(r)' /\ ~Billing(h, r) /\ (InCart(r) => subs[r].status = "Active")
      BY <1>5, <1>8, <1>10, <2>3, <2>7
    <3>2. QED
      BY <2>1, <2>2, <3>1 DEF Flow, Unpaid, Unserved, Placed, SubsOK
  <2>8. QED
    BY <1>1, <2>4, <2>5, <2>6, <2>7
<1>16. QED
  BY <1>8, <1>11, <1>12, <1>13, <1>14, <1>15 DEF CheckoutInv, FlowOK

LEMMA ReadFailedInv ==
  ASSUME NEW h \in Handler, CheckoutInv(h), Typed', ReadFailed(h)
  PROVE  CheckoutInv(h)' /\ CompleteKept
<1>1. /\ work[h].stage = "read" /\ work[h].call = "failed"
      /\ UNCHANGED <<carts, subs, services, sent>>
  BY DEF ReadFailed, At
<1>2. WorkTypes(h) /\ Typed
  BY TypedIs DEF CheckoutInv
<1>3. \A r \in SubId : NoPart(h, r)
  BY <1>1, NoPartIs
<1>4. CASE Ends(h)
  BY <1>1, <1>3, <1>4, EndInv
<1>5. ASSUME NEW c \in CartId, Open(c), Found(h, c, "save")
      PROVE  CheckoutInv(h)' /\ CompleteKept
  <2>1. /\ work'[h].stage = "save" /\ work'[h].call = "failed"
        /\ work'[h].copy = carts[c] /\ work'[h].cart = c /\ work'[h].sub = work[h].sub
    BY <1>1, <1>2, <1>5, FoundIs DEF WorkTypes, Stages, SameRequest
  <2>2. HeldOK(h)' /\ WorkOK(h)'
    BY <1>1, <1>5, <2>1 DEF HeldOK, Fresh, Holds, WorkOK, At, Open
  <2>3. SentOK(h)'
    BY <1>1, <2>1 DEF CheckoutInv, SentOK, Truly
  <2>4. \A r \in SubId : Flow(h, r)'
    BY <1>1, <1>3, <2>1, FlowKept DEF CheckoutInv, FlowOK, At
  <2>5. QED
    BY <1>1, <2>2, <2>3, <2>4, OnlyWork
<1>6. QED
  BY <1>4, <1>5 DEF ReadFailed, FindsCart

LEMMA SaveFailedInv ==
  ASSUME NEW h \in Handler, CheckoutInv(h), Typed', SaveFailed(h)
  PROVE  CheckoutInv(h)' /\ CompleteKept
<1> DEFINE doc == work[h].copy
<1>1. /\ work[h].stage = "save" /\ work[h].call = "failed"
      /\ UNCHANGED <<subs, services, sent>>
  BY DEF SaveFailed, At
<1>2. WorkTypes(h) /\ Typed /\ StateTypes /\ CartTypes
  BY TypedIs DEF CheckoutInv
<1>3. PICK c \in CartId : c = work[h].cart /\ Holds(h) /\ Fresh(h) /\ Open(c)
  BY <1>1, <1>2 DEF CheckoutInv, HeldOK, Holds, At, WorkTypes
<1>4. doc = carts[c]
  BY <1>3 DEF Fresh
<1>5. PICK new \in Doc : /\ new = WithStatus(doc, "ERROR_GATEWAY_ERROR")
                         /\ new.status = "ERROR_GATEWAY_ERROR" /\ new.sub = doc.sub
                         /\ new.items = doc.items /\ new.v = doc.v
  <2>1. "ERROR_GATEWAY_ERROR" \in CartStatus /\ doc \in Doc
    BY <1>1, <1>2 DEF CartStatus, WorkTypes
  <2>2. QED
    BY <2>1, StatusType
<1>6. Persists(h, new, "idle")
  BY <1>5 DEF SaveFailed, WithStatus
<1>7. /\ \A d \in CartId : d # c => carts'[d] = carts[d]
      /\ carts'[c].status = new.status /\ carts'[c].sub = new.sub
      /\ carts'[c].items = new.items
      /\ work'[h].stage = "idle"
  BY <1>2, <1>3, <1>5, <1>6, PersistsIs
<1>8. /\ \A r \in SubId : InCart(r)' <=> InCart(r)
      /\ OneOpenCart' /\ CompleteKept
  <2>1. Open(c)'
    BY <1>5, <1>7 DEF Open
  <2>2. QED
    BY <1>3, <1>4, <1>5, <1>7, <2>1, OpenCartIs DEF CheckoutInv
<1>9. HeldOK(h)' /\ WorkOK(h)'
  BY <1>7 DEF HeldOK, Fresh, Holds, WorkOK, At
<1>10. CartOK' /\ SubsOK'
  BY <1>1, <1>4, <1>5, <1>7 DEF CheckoutInv, CartOK, SubsOK, FreeOffer
<1>11. SentOK(h)'
  BY <1>1, <1>7 DEF CheckoutInv, SentOK, Truly
<1>12. ASSUME NEW r \in SubId
       PROVE  Flow(h, r)'
  <2>1. NoPart(h, r)
    BY <1>1, NoPartIs
  <2>2. ~At(h, "link", {"billing"})' /\ subs'[r] = subs[r]
        /\ \A k \in EventKind : Told(k, r) => Told(k, r)'
    BY <1>1, <1>7 DEF At, Told
  <2>3. QED
    BY <1>8, <2>1, <2>2, FlowSame DEF CheckoutInv, FlowOK
<1>13. QED
  BY <1>8, <1>9, <1>10, <1>11, <1>12 DEF CheckoutInv, FlowOK

(* The subscription of the event: Stripe has it active, and it is linked    *)
(* when it is in the open cart.                                             *)
LEMMA ReadSucceededInv ==
  ASSUME NEW h \in Handler, CheckoutInv(h), Typed', ReadSucceeded(h)
  PROVE  CheckoutInv(h)' /\ CompleteKept
<1>1. /\ work[h].stage = "read" /\ work[h].call = "succeeded"
      /\ UNCHANGED <<carts, subs, services, sent>> /\ subs' = subs /\ sent' = sent
  BY DEF ReadSucceeded, At
<1>2. WorkTypes(h) /\ Typed
  BY TypedIs DEF CheckoutInv
<1>3. PICK s \in SubId : s = work[h].sub /\ Truly("succeeded", s)
  BY <1>1 DEF CheckoutInv, SentOK, EventKind
<1>4. \A r \in SubId : r # s => NoPart(h, r)
  BY <1>1, <1>3 DEF NoPart, Billing, Deleting, Emptying, Paying, Paid, Expiring, Dropping, At
<1>5. \A r \in SubId : /\ InCart(r)' <=> InCart(r)
                       /\ \A k : Told(k, r)' <=> Told(k, r)
  BY <1>1 DEF InCart, Open, Told
<1>6. /\ Flow(h, s) /\ ~Billing(h, s) /\ ~Paid(h, s) /\ ~Expiring(h, s) /\ ~Dropping(h, s)
      /\ ~Deleting(h, s) /\ ~Emptying(h, s) /\ ~At(h, "link", {"billing"})
  BY <1>1, <1>3 DEF CheckoutInv, FlowOK, At,
     Billing, Deleting, Emptying, Paid, Expiring, Dropping
<1>7. CASE Linked(s) /\ \E c \in CartId : Open(c) /\ carts[c].sub = s /\ Found(h, c, "save")
  <2>1. PICK c \in CartId : Open(c) /\ carts[c].sub = s /\ Found(h, c, "save")
    BY <1>7
  <2>2. /\ work'[h].stage = "save" /\ work'[h].call = "succeeded"
        /\ work'[h].copy = carts[c] /\ work'[h].cart = c /\ work'[h].sub = s
    BY <1>1, <1>2, <1>3, <2>1, FoundIs DEF WorkTypes, Stages, SameRequest
  <2>3. HeldOK(h)'
    BY <1>1, <2>1, <2>2 DEF HeldOK, Fresh, Holds, At, Open
  <2>a. SentOK(h)'
    BY <1>1, <1>3, <2>2 DEF CheckoutInv, SentOK, Truly
  <2>4. WorkOK(h)'
    BY <1>1, <1>3, <1>7, <2>1, <2>2 DEF WorkOK, At, Linked, Exists
  <2>5. \A r \in SubId : Flow(h, r)'
    <3>1. ~At(h, "link", {"billing"})' /\ Paying(h, s)' /\ Paying(h, s)
      BY <1>1, <1>3, <2>2 DEF At, Paying
    <3>2. ASSUME NEW r \in SubId, r # s PROVE Flow(h, r)'
      BY <1>1, <1>4, <1>5, <3>1, <3>2, FlowSame DEF CheckoutInv, FlowOK
    <3>3. Unpaid(h, s)' /\ Unserved(h, s)'
      BY <1>1, <1>3, <1>5, <1>6, <2>2, <3>1 DEF Flow, Unpaid, Unserved, Paying
    <3>4. Placed(h, s)'
      BY <1>1, <1>3, <1>5, <1>6, <2>2 DEF Flow, Placed
    <3>5. Flow(h, s)'
      BY <1>1, <1>6, <2>2, <3>1, <3>3, <3>4 DEF Flow
    <3>6. QED
      BY <3>2, <3>5
  <2>6. QED
    BY <1>1, <2>3, <2>a, <2>4, <2>5, OnlyWork
<1>8. CASE Ends(h) /\ ~(Linked(s) /\ InCart(s))
  <2>1. work'[h].stage = "idle"
    BY <1>8, EndsIs DEF CheckoutInv
  <2>2. HeldOK(h)' /\ WorkOK(h)' /\ SentOK(h)'
    BY <1>1, <2>1 DEF CheckoutInv, HeldOK, Fresh, Holds, WorkOK, At, SentOK, Truly
  <2>3. subs[s].stripe = "active" => ~InCart(s)
    BY <1>3, <1>6, <1>8, SubIdIs DEF CheckoutInv, SubsOK, Linked, Exists, Flow
  <2>4. ~At(h, "link", {"billing"})'
    BY <2>1 DEF At
  <2>5. ASSUME NEW r \in SubId, r # s PROVE Flow(h, r)'
    BY <1>1, <1>4, <1>5, <2>4, <2>5, FlowSame DEF CheckoutInv, FlowOK
  <2>6. Flow(h, s)'
    BY <1>1, <1>3, <1>5, <1>6, <2>1, <2>3, <2>4
       DEF Flow, Unpaid, Unserved, Placed, Truly, Deleting, At
  <2>7. QED
    BY <1>1, <2>2, <2>5, <2>6, OnlyWork
<1>9. QED
  BY <1>3, <1>7, <1>8 DEF ReadSucceeded, FindsCart, InCart

LEMMA SaveSucceededInv ==
  ASSUME NEW h \in Handler, CheckoutInv(h), Typed', SaveSucceeded(h)
  PROVE  CheckoutInv(h)' /\ CompleteKept
<1> DEFINE doc == work[h].copy
           s == work[h].sub
<1>1. /\ work[h].stage = "save" /\ work[h].call = "succeeded"
      /\ UNCHANGED <<subs, services, sent>> /\ subs' = subs /\ sent' = sent
  BY DEF SaveSucceeded, At
<1>2. WorkTypes(h) /\ Typed /\ StateTypes /\ CartTypes
  BY TypedIs DEF CheckoutInv
<1>3. PICK c \in CartId : c = work[h].cart /\ Holds(h) /\ Fresh(h) /\ Open(c)
  BY <1>1, <1>2 DEF CheckoutInv, HeldOK, Holds, At, WorkTypes
<1>4. doc = carts[c]
  BY <1>3 DEF Fresh
<1>5. doc.sub = s /\ Linked(s) /\ s \in SubId /\ Truly("succeeded", s)
  BY <1>1, SubIdIs DEF CheckoutInv, WorkOK, SentOK, EventKind
<1>6. /\ work'[h].stage = "activate" /\ work'[h].call = "succeeded"
      /\ work'[h].copy = carts'[c] /\ work'[h].cart = c /\ work'[h].sub = s
      /\ \A d \in CartId : d # c => carts'[d] = carts[d]
      /\ carts'[c].sub = doc.sub /\ carts'[c].items = doc.items
      /\ \/ doc.status \in FreeOffer /\ carts'[c] = carts[c]
         \/ carts'[c].status = "CHECKOUT_COMPLETE"
  <2>1. CASE doc.status \in FreeOffer
    <3>1. Goes(h, "activate", doc) /\ carts' = carts
      BY <2>1 DEF SaveSucceeded
    <3>2. QED
      BY <1>1, <1>2, <1>3, <1>4, <2>1, <3>1, GoesIs DEF WorkTypes, Stages, SameRequest
  <2>2. CASE doc.status \notin FreeOffer
    <3>1. "CHECKOUT_COMPLETE" \in CartStatus /\ doc \in Doc /\ "activate" \in Stages
      BY <1>1, <1>2 DEF CartStatus, WorkTypes, Stages
    <3>2. PICK new \in Doc : /\ new = WithStatus(doc, "CHECKOUT_COMPLETE")
                             /\ new.status = "CHECKOUT_COMPLETE" /\ new.sub = doc.sub
                             /\ new.items = doc.items /\ new.v = doc.v
      BY <3>1, StatusType
    <3>3. Persists(h, new, "activate")
      BY <2>2, <3>2 DEF SaveSucceeded, WithStatus
    <3>4. /\ \A d \in CartId : d # c => carts'[d] = carts[d]
          /\ carts'[c].status = new.status
          /\ carts'[c].sub = new.sub /\ carts'[c].items = new.items
      BY <1>2, <1>3, <3>1, <3>2, <3>3, PersistsIs
    <3>5. /\ work'[h].stage = "activate" /\ work'[h].copy = carts'[c] /\ work'[h].cart = c
          /\ work'[h].sub = work[h].sub /\ work'[h].call = work[h].call
      <4>1. PICK stage \in Stages : stage = "activate" /\ stage # "idle"
        BY <3>1
      <4>a. new.v = work[h].copy.v /\ Persists(h, new, stage)
        BY <3>2, <3>3, <4>1
      <4>2. /\ work'[h].stage = stage /\ work'[h].copy = carts'[work[h].cart]
            /\ work'[h].cart = work[h].cart /\ work'[h].sub = work[h].sub
            /\ SameRequest(work[h], work'[h])
        BY <1>2, <1>3, <4>1, <4>a, PersistsIs
      <4>3. QED
        BY <1>3, <4>1, <4>2 DEF SameRequest
    <3>6. QED
      BY <1>1, <3>2, <3>4, <3>5
  <2>3. QED
    BY <2>1, <2>2
<1>7. /\ \A r \in SubId : InCart(r) <=> r = s
      /\ \A r \in SubId : InCart(r)' => InCart(r)
      /\ OneOpenCart' /\ CompleteKept
  BY <1>3, <1>4, <1>5, <1>6, OpenCartIs DEF CheckoutInv
<1>8. HeldOK(h)'
  <2>1. \A d \in CartId : Open(d)' => d = c
    BY <1>3, <1>6 DEF CheckoutInv, OneOpenCart, Open
  <2>2. QED
    BY <1>6, <2>1 DEF HeldOK, Fresh, Holds, At
<1>9. CartOK'
  BY <1>1, <1>4, <1>6 DEF CheckoutInv, CartOK, FreeOffer
<1>10. SubsOK'
  BY <1>1 DEF CheckoutInv, SubsOK
<1>11. SentOK(h)'
  BY <1>1, <1>6 DEF CheckoutInv, SentOK, Truly
<1>12. WorkOK(h)'
  BY <1>1, <1>5, <1>6 DEF WorkOK, At, Linked, Exists
<1>13. ASSUME NEW r \in SubId
       PROVE  Flow(h, r)'
  <2>1. \A k : Told(k, r)' <=> Told(k, r)
    BY <1>1 DEF Told
  <2>2. ~At(h, "link", {"billing"})' /\ ~At(h, "link", {"billing"})
    BY <1>1, <1>6 DEF At
  <2>3. ASSUME r # s PROVE Flow(h, r)'
    <3>1. NoPart(h, r)
      BY <1>1, <2>3
         DEF NoPart, Billing, Deleting, Emptying, Paying, Paid, Expiring, Dropping, At
    <3>2. QED
      BY <1>1, <1>7, <2>1, <2>2, <2>3, <3>1, FlowSame DEF CheckoutInv, FlowOK
  <2>4. ASSUME r = s PROVE Flow(h, r)'
    <3>1. Flow(h, r) /\ ~Expiring(h, r) /\ ~Dropping(h, r) /\ ~Deleting(h, r)
          /\ ~Emptying(h, r) /\ Paid(h, r)'
      BY <1>1, <1>6, <2>4
         DEF CheckoutInv, FlowOK, Expiring, Dropping, Deleting, Emptying, Paid, At
    <3>2. Unpaid(h, r)' /\ Unserved(h, r)'
      BY <1>1, <1>5, <2>4, <3>1 DEF Unpaid, Unserved, Truly
    <3>3. Placed(h, r)'
      BY <1>1, <1>7, <2>1, <3>1 DEF Flow, Placed
    <3>4. QED
      BY <1>1, <2>2, <3>1, <3>2, <3>3 DEF Flow
  <2>5. QED
    BY <2>3, <2>4
<1>14. QED
  BY <1>7, <1>8, <1>9, <1>10, <1>11, <1>12, <1>13 DEF CheckoutInv, FlowOK

LEMMA ActivateInv ==
  ASSUME NEW h \in Handler, CheckoutInv(h), Typed', Activate(h)
  PROVE  CheckoutInv(h)' /\ CompleteKept
<1> DEFINE doc == work[h].copy
           s == work[h].sub
<1>1. /\ work[h].stage = "activate" /\ work[h].call = "succeeded" /\ Ends(h)
      /\ UNCHANGED <<carts, sent>>
  BY DEF Activate, At
<1>2. WorkTypes(h) /\ Typed /\ StateTypes /\ CartTypes /\ SentTypes
  BY TypedIs DEF CheckoutInv
<1>3. PICK c \in CartId : c = work[h].cart /\ Holds(h) /\ Fresh(h)
                          /\ \A d \in CartId : Open(d) => d = c
  BY <1>1, <1>2 DEF CheckoutInv, HeldOK, Holds, At, WorkTypes
<1>4. doc = carts[c]
  BY <1>3 DEF Fresh
<1>5. doc.sub = s /\ Linked(s) /\ s \in SubId /\ Truly("succeeded", s)
  BY <1>1, SubIdIs DEF CheckoutInv, WorkOK, SentOK, EventKind
<1>6. doc.items # NoItems
  BY <1>3, <1>4, <1>5, SubIdIs DEF CheckoutInv, CartOK
<1>7. Serves(doc.network) /\ Activates(s)
  BY <1>5, <1>6 DEF Activate, Activates
<1>8. subs[s].stripe = "active"
  <2>1. ~Deleting(h, s)
    BY <1>1 DEF Deleting, At
  <2>2. QED
    BY <1>5, <2>1 DEF Truly, CheckoutInv, FlowOK, Flow, Linked, Exists
<1>9. /\ \A r \in SubId : r # s => subs'[r] = subs[r]
      /\ subs'[s].stripe = "active" /\ subs'[s].status = "Active"
  BY <1>2, <1>5, <1>7, <1>8, ActivatesIs DEF StateTypes
<1>10. \A r \in SubId : subs'[r].stripe = subs[r].stripe
  BY <1>8, <1>9
<1>11. \E n \in Network : services'[n] > 0
  <2>1. doc.network \in Network
    BY <1>1, <1>2 DEF WorkTypes
  <2>2. QED
    BY <1>2, <1>7, <2>1, ServedIs DEF StateTypes
<1>12. work'[h].stage = "idle"
  BY <1>1, EndsIs DEF CheckoutInv
<1>13. OneOpenCart' /\ CompleteKept
  BY <1>1 DEF CheckoutInv, OneOpenCart, Open, CompleteKept
<1>14. HeldOK(h)' /\ WorkOK(h)'
  BY <1>12 DEF HeldOK, Fresh, Holds, WorkOK, At
<1>15. CartOK'
  <2>1. ASSUME NEW d \in CartId, carts[d].status \in FreeOffer, NEW r \in SubId,
               subs'[r].status = "Active"
        PROVE  carts[d].sub = r
    <3>1. CASE r = s
      <4>1. d = c
        BY <1>3, <2>1 DEF Open, FreeOffer
      <4>2. QED
        BY <1>4, <1>5, <3>1, <4>1
    <3>2. CASE r # s
      BY <1>9, <2>1, <3>2 DEF CheckoutInv, CartOK
    <3>3. QED
      BY <3>1, <3>2
  <2>2. \A r \in SubId : subs[r].status = "Active" => subs'[r].status = "Active"
    BY <1>9
  <2>3. QED
    BY <1>1, <1>2, <1>10, <2>1, <2>2 DEF CheckoutInv, CartOK, CartTypes
<1>16. SubsOK'
  BY <1>9, <1>10, <1>11 DEF CheckoutInv, SubsOK
<1>17. SentOK(h)'
  <2>1. \A r \in SubId, k \in EventKind : Truly(k, r) => Truly(k, r)'
    BY <1>10 DEF Truly
  <2>2. QED
    BY <1>1, <1>2, <1>12, <2>1 DEF CheckoutInv, SentOK, SentTypes
<1>18. ASSUME NEW r \in SubId
       PROVE  Flow(h, r)'
  <2>1. (InCart(r)' <=> InCart(r)) /\ \A k : Told(k, r)' <=> Told(k, r)
    BY <1>1 DEF InCart, Open, Told
  <2>2. ~At(h, "link", {"billing"})'
    BY <1>12 DEF At
  <2>3. ASSUME r # s PROVE Flow(h, r)'
    <3>1. NoPart(h, r)
      BY <1>1, <2>3
         DEF NoPart, Billing, Deleting, Emptying, Paying, Paid, Expiring, Dropping, At
    <3>2. QED
      BY <1>9, <2>1, <2>2, <2>3, <3>1, FlowSame DEF CheckoutInv, FlowOK
  <2>4. ASSUME r = s PROVE Flow(h, r)'
    BY <1>9, <2>2, <2>4 DEF Flow, Unpaid, Unserved, Placed
  <2>5. QED
    BY <2>3, <2>4
<1>19. QED
  BY <1>13, <1>14, <1>15, <1>16, <1>17, <1>18 DEF CheckoutInv, FlowOK

LEMMA ReadExpiredInv ==
  ASSUME NEW h \in Handler, CheckoutInv(h), Typed', ReadExpired(h)
  PROVE  CheckoutInv(h)' /\ CompleteKept
<1>1. /\ work[h].stage = "read" /\ work[h].call = "expired"
      /\ UNCHANGED <<carts, services, sent>>
  BY DEF ReadExpired, At
<1>2. WorkTypes(h) /\ Typed /\ StateTypes /\ CartTypes /\ SentTypes
  BY TypedIs DEF CheckoutInv
<1>3. PICK s \in SubId : s = work[h].sub /\ subs[s].stripe = "expired"
  BY <1>1 DEF CheckoutInv, SentOK, EventKind, Truly
<1>4. \A r \in SubId : /\ r # s => subs'[r] = subs[r]
                       /\ subs'[r].stripe = subs[r].stripe
                       /\ subs'[r].status = IF r = s /\ Linked(s) THEN "IncompleteExpired"
                                                                  ELSE subs[r].status
  <2>1. CASE Linked(s)
    <3>1. SetsStatus(s, "IncompleteExpired") /\ "IncompleteExpired" \in SubStatus
      BY <1>3, <2>1 DEF ReadExpired, SetsStatus, SubStatus
    <3>2. QED
      BY <1>2, <2>1, <3>1, SetsStatusIs DEF StateTypes
  <2>2. CASE ~Linked(s)
    BY <1>3, <2>2 DEF ReadExpired
  <2>3. QED
    BY <2>1, <2>2
<1>5. \A r \in SubId : subs'[r].status = "Active" <=> subs[r].status = "Active"
  BY <1>3, <1>4 DEF CheckoutInv, SubsOK
<1>6. /\ Flow(h, s) /\ ~Billing(h, s) /\ ~Dropping(h, s)
      /\ ~Deleting(h, s) /\ ~Emptying(h, s) /\ ~At(h, "link", {"billing"})
  BY <1>1, <1>3 DEF CheckoutInv, FlowOK, At, Billing, Deleting, Emptying, Dropping
<1>7. InCart(s) => Linked(s)
  BY <1>3, <1>6, SubIdIs DEF Flow, Placed, Linked, Exists, CheckoutInv, SubsOK
<1>8. \/ /\ Linked(s)
         /\ \E c \in CartId : Open(c) /\ carts[c].sub = s /\ Found(h, c, "drop")
      \/ Ends(h) /\ ~InCart(s)
  BY <1>3, <1>7 DEF ReadExpired, FindsCart, InCart
<1>9. OneOpenCart' /\ CompleteKept
  BY <1>1 DEF CheckoutInv, OneOpenCart, Open, CompleteKept
<1>10. CartOK'
  BY <1>1, <1>2, <1>4, <1>5 DEF CheckoutInv, CartOK, CartTypes
<1>11. SubsOK'
  BY <1>1, <1>3, <1>4 DEF CheckoutInv, SubsOK, Linked, Exists
<1>12. \A r \in SubId, k \in EventKind : Truly(k, r) => Truly(k, r)'
  BY <1>4 DEF Truly
<1>13. \A r \in SubId : /\ InCart(r)' <=> InCart(r)
                        /\ \A k : Told(k, r)' <=> Told(k, r)
  BY <1>1 DEF InCart, Open, Told
<1>14. \A r \in SubId : r # s => NoPart(h, r)
  BY <1>1, <1>3 DEF NoPart, Billing, Deleting, Emptying, Paying, Paid, Expiring, Dropping, At
<1>15. ASSUME ~At(h, "link", {"billing"})', InCart(s) => Dropping(h, s)'
       PROVE  FlowOK(h)'
  <2>1. ASSUME NEW r \in SubId, r # s PROVE Flow(h, r)'
    BY <1>4, <1>13, <1>14, <1>15, <2>1, FlowSame DEF CheckoutInv, FlowOK
  <2>2. subs'[s].status # "Requested" /\ subs'[s].stripe = "expired"
    BY <1>3, <1>4, <1>6 DEF Flow
  <2>3. Flow(h, s)'
    BY <1>13, <1>15, <2>2 DEF Flow, Unpaid, Unserved, Placed
  <2>4. QED
    BY <2>1, <2>3 DEF FlowOK
<1>16. ASSUME NEW c \in CartId, Linked(s), Open(c), carts[c].sub = s, Found(h, c, "drop")
       PROVE  CheckoutInv(h)' /\ CompleteKept
  <2>1. /\ work'[h].stage = "drop" /\ work'[h].call = "expired"
        /\ work'[h].copy = carts[c] /\ work'[h].cart = c /\ work'[h].sub = s
    BY <1>1, <1>2, <1>3, <1>16, FoundIs DEF WorkTypes, Stages, SameRequest
  <2>2. HeldOK(h)'
    BY <1>1, <1>16, <2>1 DEF HeldOK, Fresh, Holds, At, Open
  <2>3. WorkOK(h)'
    BY <1>4, <1>16, <2>1 DEF WorkOK, At
  <2>4. SentOK(h)'
    BY <1>1, <1>2, <1>3, <1>12, <2>1 DEF CheckoutInv, SentOK, SentTypes
  <2>5. FlowOK(h)'
    BY <1>15, <2>1 DEF At, Dropping
  <2>6. QED
    BY <1>9, <1>10, <1>11, <2>2, <2>3, <2>4, <2>5 DEF CheckoutInv
<1>17. ASSUME Ends(h), ~InCart(s)
       PROVE  CheckoutInv(h)' /\ CompleteKept
  <2>1. work'[h].stage = "idle"
    BY <1>17, EndsIs DEF CheckoutInv
  <2>2. HeldOK(h)' /\ WorkOK(h)'
    BY <2>1 DEF HeldOK, Fresh, Holds, WorkOK, At
  <2>3. SentOK(h)'
    BY <1>1, <1>2, <1>12, <2>1 DEF CheckoutInv, SentOK, SentTypes
  <2>4. FlowOK(h)'
    BY <1>15, <1>17, <2>1 DEF At
  <2>5. QED
    BY <1>9, <1>10, <1>11, <2>2, <2>3, <2>4 DEF CheckoutInv
<1>18. QED
  BY <1>8, <1>16, <1>17

LEMMA DropInv ==
  ASSUME NEW h \in Handler, CheckoutInv(h), Typed', Drop(h)
  PROVE  CheckoutInv(h)' /\ CompleteKept
<1> DEFINE doc == work[h].copy
<1>1. /\ work[h].stage = "drop" /\ work[h].call = "expired"
      /\ UNCHANGED <<services, sent>>
  BY DEF Drop, At
<1>2. WorkTypes(h) /\ Typed /\ StateTypes /\ CartTypes /\ SentTypes
  BY TypedIs DEF CheckoutInv
<1>3. PICK c \in CartId : c = work[h].cart /\ Holds(h) /\ Fresh(h) /\ Open(c)
  BY <1>1, <1>2 DEF CheckoutInv, HeldOK, Holds, At, WorkTypes
<1>4. doc = carts[c]
  BY <1>3 DEF Fresh
<1>5. PICK s \in SubId : /\ s = work[h].sub /\ doc.sub = s
                         /\ subs[s].status = "IncompleteExpired"
                         /\ subs[s].stripe = "expired"
  BY <1>1, <1>2 DEF CheckoutInv, SentOK, EventKind, Truly, WorkOK, At
<1>6. PICK new \in Doc : /\ new = Dropped(doc) /\ new.status = "EXPIRED"
                         /\ new.sub = NoSub /\ new.v = doc.v
  BY <1>1, <1>2, DroppedType DEF WorkTypes
<1>7. Persists(h, new, "idle")
  BY <1>6 DEF Drop
<1>8. /\ \A d \in CartId : d # c => carts'[d] = carts[d]
      /\ carts'[c].status = "EXPIRED" /\ carts'[c].sub = NoSub
      /\ work'[h].stage = "idle"
  BY <1>2, <1>3, <1>6, <1>7, PersistsIs
<1>9. /\ \A r \in SubId : r # s => subs'[r] = subs[r]
      /\ subs'[s].stripe = "expired" /\ subs'[s].status = "deleted"
  <2>1. SetsStatus(s, "deleted") /\ "deleted" \in SubStatus
    BY <1>5 DEF Drop, SetsStatus, SubStatus
  <2>2. QED
    BY <1>2, <1>5, <2>1, SetsStatusIs DEF StateTypes
<1>10. \A r \in SubId : /\ subs'[r].status = "Active" <=> subs[r].status = "Active"
                        /\ subs'[r].stripe = subs[r].stripe
  BY <1>5, <1>9
<1>11. /\ \A r \in SubId : InCart(r) <=> r = s
       /\ \A r \in SubId : ~InCart(r)'
       /\ OneOpenCart' /\ CompleteKept
  BY <1>3, <1>4, <1>5, <1>8, OpenCartIs, SubIdIs DEF CheckoutInv
<1>12. HeldOK(h)' /\ WorkOK(h)'
  BY <1>8 DEF HeldOK, Fresh, Holds, WorkOK, At
<1>13. CartOK'
  BY <1>2, <1>8, <1>10 DEF CheckoutInv, CartOK, CartTypes, FreeOffer
<1>14. SubsOK'
  BY <1>1, <1>9 DEF CheckoutInv, SubsOK
<1>15. SentOK(h)'
  <2>1. \A r \in SubId, k \in EventKind : Truly(k, r) => Truly(k, r)'
    BY <1>10 DEF Truly
  <2>2. QED
    BY <1>1, <1>2, <1>8, <2>1 DEF CheckoutInv, SentOK, SentTypes
<1>16. ASSUME NEW r \in SubId
       PROVE  Flow(h, r)'
  <2>1. ~At(h, "link", {"billing"})'
    BY <1>8 DEF At
  <2>2. ASSUME r # s PROVE Flow(h, r)'
    <3>1. NoPart(h, r)
      BY <1>1, <1>5, <2>2
         DEF NoPart, Billing, Deleting, Emptying, Paying, Paid, Expiring, Dropping, At
    <3>2. \A k \in EventKind : Told(k, r) => Told(k, r)'
      BY <1>1 DEF Told
    <3>3. QED
      BY <1>9, <1>11, <2>1, <2>2, <3>1, <3>2, FlowSame DEF CheckoutInv, FlowOK
  <2>3. ASSUME r = s PROVE Flow(h, r)'
    BY <1>9, <1>11, <2>1, <2>3 DEF Flow, Unpaid, Unserved, Placed
  <2>4. QED
    BY <2>2, <2>3
<1>17. QED
  BY <1>11, <1>12, <1>13, <1>14, <1>15, <1>16 DEF CheckoutInv, FlowOK

LEMMA HandleInv ==
  ASSUME NEW h \in Handler, CheckoutInv(h), Typed', Handle(h)
  PROVE  CheckoutInv(h)' /\ CompleteKept
BY ReadInitInv, CreateCartInv, ReadCartInv, ReadActiveInv, ClearInv, CancelInv, DeleteInv,
   EmptyInv, AddInv, AddServiceInv, TokenInv, LinkInv, OfferInv, SaveCartInv, ReadFailedInv,
   SaveFailedInv, ReadSucceededInv, SaveSucceededInv, ActivateInv, ReadExpiredInv, DropInv
   DEF Handle

LEMMA NextInv ==
  ASSUME NEW h \in Handler, Handler = {h}, CheckoutInv(h), [Next]_vars
  PROVE  CheckoutInv(h)' /\ CompleteKept
<1>1. Typed'
  BY NextTyped DEF CheckoutInv
<1>2. CASE UNCHANGED vars
  <2>1. UNCHANGED <<carts, subs, services, sent>> /\ work' = work
    BY <1>2 DEF vars
  <2>2. HeldOK(h)' /\ SentOK(h)'
    BY <2>1 DEF CheckoutInv, HeldOK, Fresh, Holds, Open, HasActive, At, SentOK, Truly
  <2>a. WorkOK(h)'
    BY <2>1 DEF CheckoutInv, WorkOK, NewSub, Exists, Linked, HasActive, At
  <2>3. ASSUME NEW r \in SubId
        PROVE  Flow(h, r)'
    <3>1. (InCart(r)' <=> InCart(r)) /\ \A k : Told(k, r)' <=> Told(k, r)
      BY <2>1 DEF InCart, Open, Told
    <3>2. Flow(h, r)
      BY DEF CheckoutInv, FlowOK
    <3>3. QED
      BY <2>1, <3>1, <3>2
         DEF Flow, Unpaid, Unserved, Placed, At,
             Billing, Deleting, Paying, Paid, Expiring, Dropping, Emptying
  <2>4. QED
    BY <1>1, <2>1, <2>2, <2>a, <2>3, OnlyWork
<1>3. ASSUME NEW s \in SubId, StripeStep(s)
      PROVE  CheckoutInv(h)' /\ CompleteKept
  BY <1>1, <1>3, StripeInv
<1>4. CASE \/ \E n \in Network : CallInit(h, n)
           \/ \E c \in CartId : \E tier \in Tier : CallAdd(h, c, tier)
           \/ \E c \in CartId : \E call \in UserCall \ {"init", "add"} : CallOther(h, call, c)
           \/ \E e \in sent : Webhook(h, e)
  BY <1>1, <1>4, CallInv
<1>5. CASE Handle(h)
  BY <1>1, <1>5, HandleInv
<1>6. QED
  BY <1>2, <1>3, <1>4, <1>5 DEF Next

LEMMA Checkout == ASSUME NEW h \in Handler, Handler = {h} PROVE Spec => []CheckoutInv(h)
<1>1. Init => CheckoutInv(h)
  BY InitInv
<1>2. CheckoutInv(h) /\ [Next]_vars => CheckoutInv(h)'
  BY NextInv
<1>3. QED
  BY <1>1, <1>2, PTL DEF Spec

-----------------------------------------------------------------------------
(* The promises of the checkout, for a user whose requests and webhooks are *)
(* served one after the other: any networks, tiers, carts, subscriptions    *)
(* and repeated events.                                                     *)

(* When nothing is under way, no handler has a part in anything.            *)
LEMMA QuietIs ==
  ASSUME NEW h \in Handler, CheckoutInv(h), Quiet, NEW s \in SubId
  PROVE  Flow(h, s) /\ NoPart(h, s) /\ \A k : ~Told(k, s)
<1>1. work[h].stage = "idle" /\ sent = {}
  BY DEF Quiet, Idle
<1>2. NoPart(h, s)
  BY <1>1, NoPartIs
<1>3. QED
  BY <1>1, <1>2 DEF CheckoutInv, FlowOK, Told

(* OneOpenCart: initCartSessionForNetwork looks for the open cart before it *)
(* creates one, and no call opens a cart that is complete.                  *)
THEOREM OneCart == ASSUME NEW h, Handler = {h} PROVE Spec => []OneOpenCart
<1>1. CheckoutInv(h) => OneOpenCart
  BY DEF CheckoutInv
<1>2. Spec => []CheckoutInv(h)
  BY Checkout
<1>3. QED
  BY <1>1, <1>2, PTL

(* PaidIsServed: the webhook of a payment finds the cart of the             *)
(* subscription, or the subscription was canceled before.                   *)
THEOREM PaidServed == ASSUME NEW h, Handler = {h} PROVE Spec => []PaidIsServed
<1>1. ASSUME CheckoutInv(h), Quiet, NEW s \in SubId, subs[s].stripe = "active"
      PROVE  subs[s].status = "Active" /\ \E n \in Network : services[n] > 0
  <2>1. subs[s].status = "Active"
    BY <1>1, QuietIs DEF Flow, Unserved, NoPart
  <2>2. QED
    BY <1>1, <2>1 DEF CheckoutInv, SubsOK
<1>2. CheckoutInv(h) => PaidIsServed
  BY <1>1 DEF PaidIsServed
<1>3. Spec => []CheckoutInv(h)
  BY Checkout
<1>4. QED
  BY <1>2, <1>3, PTL

(* CartCanBeCleared: whatever Stripe and the webhooks made of the           *)
(* subscription of the open cart, clearCartHelper has a way with it.        *)
THEOREM CartClears == ASSUME NEW h, Handler = {h} PROVE Spec => []CartCanBeCleared
<1>1. ASSUME CheckoutInv(h), Quiet, NEW c \in CartId, Open(c), carts[c].sub # NoSub
      PROVE  LET sub == subs[carts[c].sub] IN
             \/ sub.status = "Active"
             \/ sub.status = "Incomplete" /\ sub.stripe = "incomplete"
  <2>1. PICK s \in SubId : s = carts[c].sub
    BY <1>1, TypedIs DEF CheckoutInv, CartTypes
  <2>2. InCart(s)
    BY <1>1, <2>1 DEF InCart
  <2>3. QED
    BY <1>1, <2>1, <2>2, QuietIs DEF Flow, Unserved, Placed, NoPart
<1>2. CheckoutInv(h) => CartCanBeCleared
  BY <1>1 DEF CartCanBeCleared
<1>3. Spec => []CheckoutInv(h)
  BY Checkout
<1>4. QED
  BY <1>2, <1>3, PTL

(* NoOrphan: a subscription that waits for its first payment was saved into *)
(* the cart, and the cart lets go of it only once Stripe has canceled it or *)
(* let it expire.                                                           *)
THEOREM NothingOrphaned == ASSUME NEW h, Handler = {h} PROVE Spec => []NoOrphan
<1>1. ASSUME CheckoutInv(h), Quiet, NEW s \in SubId, subs[s].stripe = "incomplete"
      PROVE  \E c \in CartId : Open(c) /\ carts[c].sub = s
  BY <1>1, QuietIs DEF Flow, Unpaid, NoPart, InCart
<1>2. CheckoutInv(h) => NoOrphan
  BY <1>1 DEF NoOrphan
<1>3. Spec => []CheckoutInv(h)
  BY Checkout
<1>4. QED
  BY <1>2, <1>3, PTL

(* CompleteStays: a handler saves the cart it read, and that cart was open. *)
THEOREM CompleteForGood == ASSUME NEW h, Handler = {h} PROVE Spec => CompleteStays
<1>1. CheckoutInv(h) /\ [Next]_vars => CompleteKept
  BY NextInv
<1>2. Spec => []CheckoutInv(h)
  BY Checkout
<1>3. QED
  BY <1>1, <1>2, PTL DEF Spec, CompleteStays, CompleteKept
=============================================================================
