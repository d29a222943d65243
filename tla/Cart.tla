-------------------------------- MODULE Cart --------------------------------
(***************************************************************************)
(* The checkout of one user (CartService, with what it asks of             *)
(* ConnectSubscriptionService and what StripeController asks of it).  The  *)
(* front end calls the API in any order and any number of times; Stripe    *)
(* charges the first invoice of a subscription, or lets it expire, and     *)
(* tells by webhook.  Each request reads the cart, waits for Stripe or the *)
(* database, and saves the plain copy it read.                             *)
(*                                                                         *)
(* The subscription's side of a handler is one step here; its steps, and   *)
(* the life of an active subscription, are in ConnectSubscription.         *)
(***************************************************************************)
EXTENDS Naturals, FiniteSets

CONSTANTS
  Network,    (* the networks on offer, each in one billing category        *)
  Tier,       (* the tiers offered, a subset of AllTiers                    *)
  Handler,    (* requests and webhooks served at once                       *)
  MaxCarts,   (* bound: carts created                                       *)
  MaxSubs,    (* bound: subscriptions created                               *)
  MaxItems,   (* bound: times items are added                               *)
  MaxDups     (* bound: events delivered once more                          *)

AllTiers == {"paid", "cc", "free"}     \* billed, FreeWithCC, Free

ASSUME CartAssumption ==
  /\ Network # {} /\ Tier \subseteq AllTiers
  /\ MaxCarts \in Nat \ {0} /\ {MaxSubs, MaxItems, MaxDups} \subseteq Nat

VARIABLES
  carts,      (* carts[c]: the document                                     *)
  subs,       (* subs[s]: the connect subscription and its Stripe status    *)
  services,   (* services[n]: user networks of n                            *)
  sent,       (* events of Stripe not delivered yet                         *)
  work,       (* work[h]: what the handler h has read and does next         *)
  added, dups

vars == <<carts, subs, services, sent, work, added, dups>>

-----------------------------------------------------------------------------
CartId == 1 .. MaxCarts
SubId == 1 .. MaxSubs
NoSub == 0

FreeOffer == {"PENDING_BILLING_FOR_FREE_OFFER", "PENDING_CC_FOR_FREE_OFFER"}
CartStatus == FreeOffer \cup
  {"EMPTY", "PENDING_NEW_ADDITION_CONFIRMATION", "PENDING_BILLING_INFO", "PENDING_CC_INFO",
   "PENDING_PROCESSING_PAYMENT", "CHECKOUT_COMPLETE", "ERROR_GATEWAY_ERROR", "EXPIRED"}

(* A list of items has subdocument ids of its own: it equals no other list. *)
Items == [id : 0 .. MaxItems, tier : AllTiers]
NoItems == [id |-> 0, tier |-> "free"]

Doc == [ status : CartStatus \cup {"ABSENT"}, network : Network,
         items : Items, sub : SubId \cup {NoSub}, v : Nat ]

NewCart(n) ==
  [status |-> "EMPTY", network |-> n, items |-> NoItems, sub |-> NoSub, v |-> 0]

SubStatus == {"none", "Requested", "Incomplete", "Active", "IncompleteExpired", "Canceled",
              "deleted"}
Sub == [ status : SubStatus,
         stripe : {"none", "incomplete", "active", "expired", "canceled"},
         active : Nat ]         \* how often it was activated

NoSubscription == [status |-> "none", stripe |-> "none", active |-> 0]

UserCall == {"init", "add", "billing", "pending", "confirm", "error", "attach"}
EventKind == {"failed", "succeeded", "expired"}
Event == [kind : EventKind, sub : SubId]

NoWork == [stage |-> "idle"]
Work == [ stage : {"read", "active", "clear", "cancel", "delete", "empty", "add", "service",
                   "token", "link", "offer", "activate", "drop", "save"},
          call : UserCall \cup EventKind, cart : CartId, sub : SubId \cup {NoSub},
          network : Network, items : Items, copy : Doc ]

Idle(h) == work[h].stage = "idle"
Quiet == sent = {} /\ \A h \in Handler : Idle(h)

Open(c) == carts[c].status \notin {"ABSENT", "CHECKOUT_COMPLETE"}
Exists(s) == s # NoSub /\ subs[s].status \notin {"none", "deleted"}
HasActive == \E s \in SubId : subs[s].status = "Active"

(* getSubscriptionByStripeSubscriptionId: the id is stored with Incomplete. *)
Linked(s) == Exists(s) /\ subs[s].status # "Requested"

Init ==
  /\ carts = [c \in CartId |-> [NewCart(CHOOSE n \in Network : TRUE) EXCEPT !.status = "ABSENT"]]
  /\ subs = [s \in SubId |-> NoSubscription]
  /\ services = [n \in Network |-> 0]
  /\ sent = {}
  /\ work = [h \in Handler |-> NoWork]
  /\ added = 0 /\ dups = 0

-----------------------------------------------------------------------------
(* Stripe. *)

Emits(s, kind) == sent' = sent \cup {[kind |-> kind, sub |-> s]}

(* Only addBillingInfo, once it has answered, gives the front end the token *)
(* to pay with.                                                             *)
StripeMoves(s, to, kind) ==
  /\ subs[s].stripe = "incomplete"
  /\ \A h \in Handler : ~Idle(h) => work[h].call # "billing"
  /\ subs' = [subs EXCEPT ![s].stripe = to]
  /\ Emits(s, kind)
  /\ UNCHANGED <<carts, services, work, added, dups>>

StripeStep(s) ==
  \/ StripeMoves(s, "incomplete", "failed")
  \/ StripeMoves(s, "active", "succeeded")
  \/ StripeMoves(s, "expired", "expired")

-----------------------------------------------------------------------------
(* A request begins, and so does a webhook. *)

Begins(h, call, c, s, n, items) ==
  /\ Idle(h)
  /\ work' = [work EXCEPT ![h] = [ stage |-> "read", call |-> call, cart |-> c, sub |-> s,
                                   network |-> n, items |-> items, copy |-> NewCart(n) ]]
  /\ UNCHANGED <<carts, subs, services>>

(* initCartSessionForNetwork: "You already have this network configured".   *)
CallInit(h, n) ==
  /\ services[n] = 0
  /\ Begins(h, "init", 1, NoSub, n, NoItems)
  /\ UNCHANGED <<sent, added, dups>>

CallAdd(h, c, tier) ==
  /\ added < MaxItems
  /\ added' = added + 1
  /\ Begins(h, "add", c, NoSub, carts[c].network, [id |-> added', tier |-> tier])
  /\ UNCHANGED <<sent, dups>>

(* attach: a setup intent, then setSubscriptionDefaultPaymentMethod, which  *)
(* fails without an active subscription; the front end asks for it in the   *)
(* form of a free offer only.                                               *)
CallOther(h, call, c) ==
  /\ call = "billing" => \E s \in SubId : subs[s].status = "none"    \* MaxSubs
  /\ call = "attach" => HasActive /\ carts[c].status = "PENDING_CC_FOR_FREE_OFFER"
  /\ Begins(h, call, c, NoSub, carts[c].network, NoItems)
  /\ UNCHANGED <<sent, added, dups>>

Webhook(h, e) ==
  /\ e \in sent
  /\ Begins(h, e.kind, 1, e.sub, carts[1].network, NoItems)
  /\ \/ sent' = sent \ {e} /\ UNCHANGED dups
     \/ dups < MaxDups /\ dups' = dups + 1 /\ UNCHANGED sent
  /\ UNCHANGED added

-----------------------------------------------------------------------------
(* The steps of a handler, each between two of its awaits. *)

Ends(h) == work' = [work EXCEPT ![h] = NoWork]
Goes(h, stage, copy) == work' = [work EXCEPT ![h] = [@ EXCEPT !.stage = stage, !.copy = copy]]
Found(h, c, stage) ==
  work' = [work EXCEPT ![h] = [@ EXCEPT !.stage = stage, !.cart = c, !.copy = carts[c]]]

At(h, stage, calls) == work[h].stage = stage /\ work[h].call \in calls

(* Saving a plain copy writes every field; if the items are not the stored  *)
(* ones, only over the version that was read.                               *)
Savable(c, new) == carts[c].items = new.items \/ carts[c].v = new.v
Saved(c, new) == IF carts[c].items = new.items THEN new ELSE [new EXCEPT !.v = @ + 1]

Persists(h, new, stage) ==
  LET c == work[h].cart IN
  IF Savable(c, new)
    THEN /\ carts' = [carts EXCEPT ![c] = Saved(c, new)]
         /\ IF stage = "idle" THEN Ends(h) ELSE Goes(h, stage, Saved(c, new))
    ELSE Ends(h) /\ UNCHANGED carts

(* initCartSessionForNetwork: the open cart, cleared if it is of another    *)
(* network or cannot be resumed, or a new one.                              *)
IsOpenFor(c, n) == Open(c) /\ carts[c].network = n     \* mutant of Resumable
Resumable(c, n) == Open(c)

Restarts(doc, n) ==
  \/ doc.network # n /\ doc.status # "PENDING_PROCESSING_PAYMENT"
  \/ doc.network = n /\ doc.status \in FreeOffer \cup {"EXPIRED", "ERROR_GATEWAY_ERROR"}

ReadInit(h) ==
  LET n == work[h].network IN
  /\ At(h, "read", {"init"})
  /\ \/ \E c \in CartId :
          /\ Resumable(c, n)
          /\ IF Restarts(carts[c], n) THEN Found(h, c, "clear") ELSE Ends(h)
     \/ /\ \A c \in CartId : ~Resumable(c, n)
        /\ Goes(h, "save", NewCart(n))
  /\ UNCHANGED <<carts, subs, services, sent, added, dups>>

CreateCart(h) ==
  /\ At(h, "save", {"init"})
  /\ \E c \in CartId :
       /\ carts[c].status = "ABSENT" /\ \A d \in 1 .. c - 1 : carts[d].status # "ABSENT"
       /\ carts' = [carts EXCEPT ![c] = work[h].copy]
  /\ Ends(h)
  /\ UNCHANGED <<subs, services, sent, added, dups>>

(* What each call accepts; addBillingInfo and the others differ. *)
Accepts(call, doc) ==
  CASE call = "add" ->
         doc.status \notin {"PENDING_PROCESSING_PAYMENT", "ERROR_GATEWAY_ERROR", "CHECKOUT_COMPLETE"}
    [] call = "billing" ->
         doc.status \notin {"CHECKOUT_COMPLETE", "PENDING_NEW_ADDITION_CONFIRMATION",
                            "PENDING_PROCESSING_PAYMENT"}
    [] call = "pending" -> doc.status \in {"PENDING_CC_INFO", "ERROR_GATEWAY_ERROR"}
    [] call = "confirm" -> doc.status = "PENDING_NEW_ADDITION_CONFIRMATION"
    [] call = "error" -> doc.status \notin {"ERROR_GATEWAY_ERROR", "CHECKOUT_COMPLETE"}
    [] call = "attach" -> TRUE

AfterRead(call) ==
  CASE call = "add" -> "active" [] call = "billing" -> "token" [] call = "confirm" -> "offer"
    [] call \in {"pending", "error", "attach"} -> "save"

ReadCart(h) ==
  LET w == work[h] IN
  /\ At(h, "read", UserCall \ {"init"})
  /\ IF carts[w.cart].status # "ABSENT" /\ Accepts(w.call, carts[w.cart])
       THEN Found(h, w.cart, AfterRead(w.call))
       ELSE Ends(h)
  /\ UNCHANGED <<carts, subs, services, sent, added, dups>>

(* addCartItem: the active subscription of the user, if there is one.       *)
ReadActive(h) ==
  /\ At(h, "active", {"add"})
  /\ \E s \in SubId \cup {NoSub} :
       /\ IF HasActive THEN s # NoSub /\ subs[s].status = "Active" ELSE s = NoSub
       /\ work' = [work EXCEPT ![h] =
            [@ EXCEPT !.sub = s,
                      !.stage = IF work[h].copy.status = "EMPTY" THEN "add" ELSE "clear"]]
  /\ UNCHANGED <<carts, subs, services, sent, added, dups>>

(* clearCartHelper: an unpaid subscription goes with the cart; Stripe is    *)
(* told first, then the document is deleted, then the cart is emptied.  A   *)
(* subscription that is missing or in another status ends the request.      *)
Clear(h) ==
  LET doc == work[h].copy IN
  /\ At(h, "clear", {"init", "add"})
  /\ IF \/ doc.status = "PENDING_NEW_ADDITION_CONFIRMATION"
        \/ doc.sub = NoSub
        \/ doc.sub # NoSub /\ subs[doc.sub].status = "Active"
       THEN Goes(h, "empty", doc)
       ELSE IF subs[doc.sub].status \in {"Requested", "Incomplete"}
              THEN Goes(h, "cancel", doc)
              ELSE Ends(h)
  /\ UNCHANGED <<carts, subs, services, sent, added, dups>>

Cancel(h) ==
  LET s == work[h].copy.sub IN
  /\ At(h, "cancel", {"init", "add"})
  /\ IF subs[s].stripe \in {"incomplete", "active"}
       THEN /\ subs' = [subs EXCEPT ![s].stripe = "canceled"]
            /\ Goes(h, "delete", work[h].copy)
       ELSE Ends(h) /\ UNCHANGED subs
  /\ UNCHANGED <<carts, services, sent, added, dups>>

Delete(h) ==
  /\ At(h, "delete", {"init", "add"})
  /\ subs' = [subs EXCEPT ![work[h].copy.sub].status = "deleted"]
  /\ Goes(h, "empty", work[h].copy)
  /\ UNCHANGED <<carts, services, sent, added, dups>>

Emptied(doc, n) ==
  [doc EXCEPT !.sub = NoSub, !.items = NoItems, !.status = "EMPTY", !.network = n]

Empty(h) ==
  LET w == work[h] IN
  /\ At(h, "empty", {"init", "add"})
  /\ Persists(h, Emptied(w.copy, w.network), IF w.call = "init" THEN "idle" ELSE "add")
  /\ UNCHANGED <<subs, services, sent, added, dups>>

(* addCartItem: what the tier and an active subscription make of the cart.  *)
WithItems(w) ==
  LET doc == [w.copy EXCEPT !.items = w.items] IN
  CASE w.items.tier = "free" -> doc
    [] w.items.tier = "cc" /\ w.sub = NoSub ->
         [doc EXCEPT !.status = "PENDING_BILLING_FOR_FREE_OFFER"]
    [] w.items.tier # "free" /\ w.sub # NoSub ->
         [doc EXCEPT !.status = "PENDING_NEW_ADDITION_CONFIRMATION", !.sub = w.sub]
    [] w.items.tier = "paid" /\ w.sub = NoSub ->
         [doc EXCEPT !.status = "PENDING_BILLING_INFO"]

Add(h) ==
  LET w == work[h] IN
  /\ At(h, "add", {"add"})
  /\ Persists(h, WithItems(w), IF w.items.tier = "free" THEN "service" ELSE "idle")
  /\ UNCHANGED <<subs, services, sent, added, dups>>

(* addUserNetwork, without looking for one.                                 *)
Serves(n) == services' = [services EXCEPT ![n] = @ + 1]

AddService(h) ==
  /\ At(h, "service", {"add"})
  /\ Serves(work[h].copy.network)
  /\ Ends(h)
  /\ UNCHANGED <<carts, subs, sent, added, dups>>

(* getSubscriptionStripePaymentTokenCreateIfNotPresent.  Nobody knows of    *)
(* the new document before Stripe has answered.  A subscription with        *)
(* nothing to pay is active, and its invoice paid, at once.                 *)
Token(h) ==
  LET w == work[h] IN
  /\ At(h, "token", {"billing"})
  /\ \/ /\ Exists(w.copy.sub)
        /\ work' = [work EXCEPT ![h] = [@ EXCEPT !.sub = w.copy.sub, !.stage = "save"]]
        /\ UNCHANGED <<subs, sent>>
     \/ /\ ~Exists(w.copy.sub) /\ w.copy.items = NoItems
        /\ Ends(h)
        /\ UNCHANGED <<subs, sent>>
     \/ /\ ~Exists(w.copy.sub) /\ w.copy.items # NoItems
        /\ \E s \in SubId :
             /\ subs[s].status = "none" /\ \A r \in 1 .. s - 1 : subs[r].status # "none"
             /\ work' = [work EXCEPT ![h] = [@ EXCEPT !.sub = s, !.stage = "link"]]
             /\ IF w.copy.items.tier = "paid"
                  THEN /\ subs' = [subs EXCEPT ![s] = [@ EXCEPT !.status = "Requested",
                                                               !.stripe = "incomplete"]]
                       /\ UNCHANGED sent
                  ELSE /\ subs' = [subs EXCEPT ![s] = [@ EXCEPT !.status = "Requested",
                                                               !.stripe = "active"]]
                       /\ Emits(s, "succeeded")
  /\ UNCHANGED <<carts, services, added, dups>>

(* The document gets its Stripe id: from here on webhooks find it.          *)
Link(h) ==
  /\ At(h, "link", {"billing"})
  /\ subs' = [subs EXCEPT ![work[h].sub].status = "Incomplete"]
  /\ Goes(h, "save", work[h].copy)
  /\ UNCHANGED <<carts, services, sent, added, dups>>

(* confirmCartPendingItems asks for the offer to be added first; a network  *)
(* the user has already is not added again.                                 *)
Offer(h) ==
  LET n == work[h].copy.network IN
  /\ At(h, "offer", {"confirm"})
  /\ IF Exists(work[h].copy.sub)
       THEN /\ services' = [services EXCEPT ![n] = IF @ = 0 THEN 1 ELSE @]
            /\ Goes(h, "save", work[h].copy)
       ELSE Ends(h) /\ UNCHANGED services
  /\ UNCHANGED <<carts, subs, sent, added, dups>>

(* The last save of each call. *)
BilledWithoutSub(w) ==         \* mutant: connectSubscriptionId is not recorded
  CASE w.call = "billing" ->
         [w.copy EXCEPT !.status = IF @ \in FreeOffer THEN "PENDING_CC_FOR_FREE_OFFER"
                                                     ELSE "PENDING_CC_INFO"]
    [] w.call = "pending" -> [w.copy EXCEPT !.status = "PENDING_PROCESSING_PAYMENT"]
    [] w.call = "error" -> [w.copy EXCEPT !.status = "ERROR_GATEWAY_ERROR"]
    [] w.call \in {"confirm", "attach"} -> [w.copy EXCEPT !.status = "CHECKOUT_COMPLETE"]

Result(w) ==
  CASE w.call = "billing" ->
         [w.copy EXCEPT !.sub = w.sub,
                        !.status = IF @ \in FreeOffer THEN "PENDING_CC_FOR_FREE_OFFER"
                                                      ELSE "PENDING_CC_INFO"]
    [] w.call = "pending" -> [w.copy EXCEPT !.status = "PENDING_PROCESSING_PAYMENT"]
    [] w.call = "error" -> [w.copy EXCEPT !.status = "ERROR_GATEWAY_ERROR"]
    [] w.call \in {"confirm", "attach"} -> [w.copy EXCEPT !.status = "CHECKOUT_COMPLETE"]

SaveCart(h) ==
  /\ At(h, "save", UserCall \ {"init"})
  /\ Persists(h, Result(work[h]), "idle")
  /\ UNCHANGED <<subs, services, sent, added, dups>>

-----------------------------------------------------------------------------
(* The webhooks of the first invoice. *)

(* The subscription of the event and its open cart, or an exception.        *)
FindsAnyCart(h, stage) ==      \* mutant: a complete cart is found as well
  LET s == work[h].sub
      found == {c \in CartId : carts[c].sub = s}
  IN IF Linked(s) /\ found # {} THEN \E c \in found : Found(h, c, stage) ELSE Ends(h)

FindsCart(h, stage) ==
  LET s == work[h].sub
      found == {c \in CartId : Open(c) /\ carts[c].sub = s}
  IN IF Linked(s) /\ found # {} THEN \E c \in found : Found(h, c, stage) ELSE Ends(h)

ReadFailed(h) ==
  /\ At(h, "read", {"failed"})
  /\ FindsCart(h, "save")
  /\ UNCHANGED <<carts, subs, services, sent, added, dups>>

SaveFailed(h) ==
  /\ At(h, "save", {"failed"})
  /\ Persists(h, [work[h].copy EXCEPT !.status = "ERROR_GATEWAY_ERROR"], "idle")
  /\ UNCHANGED <<subs, services, sent, added, dups>>

ReadSucceeded(h) ==
  /\ At(h, "read", {"succeeded"})
  /\ FindsCart(h, "save")
  /\ UNCHANGED <<carts, subs, services, sent, added, dups>>

(* A free offer completes when the payment method is attached.              *)
SaveSucceeded(h) ==
  LET doc == work[h].copy IN
  /\ At(h, "save", {"succeeded"})
  /\ IF doc.status \in FreeOffer
       THEN Goes(h, "activate", doc) /\ UNCHANGED carts
       ELSE Persists(h, [doc EXCEPT !.status = "CHECKOUT_COMPLETE"], "activate")
  /\ UNCHANGED <<subs, services, sent, added, dups>>

(* markSubscriptionActive...: of the items, the first one is looked at.     *)
ActivatedOnly(h) ==            \* mutant: the user network is not created
  /\ At(h, "activate", {"succeeded"})
  /\ IF Linked(work[h].sub)
       THEN subs' = [subs EXCEPT ![work[h].sub].status = "Active", ![work[h].sub].active = @ + 1]
       ELSE UNCHANGED subs
  /\ Ends(h)
  /\ UNCHANGED <<carts, services, sent, added, dups>>

Activate(h) ==
  LET w == work[h] IN
  /\ At(h, "activate", {"succeeded"})
  /\ IF w.copy.items # NoItems /\ Linked(w.sub)
       THEN /\ Serves(w.copy.network)
            /\ subs' = [subs EXCEPT ![w.sub].status = "Active", ![w.sub].active = @ + 1]
       ELSE UNCHANGED <<subs, services>>
  /\ Ends(h)
  /\ UNCHANGED <<carts, sent, added, dups>>

(* updateSubscriptionStatus, then the look for the cart.                    *)
ReadExpired(h) ==
  LET s == work[h].sub IN
  /\ At(h, "read", {"expired"})
  /\ subs' = IF Linked(s) THEN [subs EXCEPT ![s].status = "IncompleteExpired"] ELSE subs
  /\ FindsCart(h, "drop")
  /\ UNCHANGED <<carts, services, sent, added, dups>>

(* expireCartSession...: the cart and the subscription, side by side.       *)
DroppedKeepingSub(doc) == [doc EXCEPT !.status = "EXPIRED"]       \* mutant
DroppedLikeSub(doc) == [doc EXCEPT !.status = "IncompleteExpired"] \* mutant: the wrong enum
Dropped(doc) == [doc EXCEPT !.status = "EXPIRED", !.sub = NoSub]

Drop(h) ==
  LET s == work[h].sub IN
  /\ At(h, "drop", {"expired"})
  /\ Persists(h, Dropped(work[h].copy), "idle")
  /\ subs' = IF subs[s].status \in {"Requested", "Incomplete", "IncompleteExpired"}
               THEN [subs EXCEPT ![s].status = "deleted"] ELSE subs
  /\ UNCHANGED <<services, sent, added, dups>>

-----------------------------------------------------------------------------
Handle(h) ==
  \/ ReadInit(h) \/ CreateCart(h)
  \/ ReadCart(h) \/ ReadActive(h)
  \/ Clear(h) \/ Cancel(h) \/ Delete(h) \/ Empty(h)
  \/ Add(h) \/ AddService(h)
  \/ Token(h) \/ Link(h) \/ Offer(h) \/ SaveCart(h)
  \/ ReadFailed(h) \/ SaveFailed(h)
  \/ ReadSucceeded(h) \/ SaveSucceeded(h) \/ Activate(h)
  \/ ReadExpired(h) \/ Drop(h)

Next ==
  \/ \E s \in SubId : StripeStep(s)
  \/ \E h \in Handler :
       \/ Handle(h)
       \/ \E n \in Network : CallInit(h, n)
       \/ \E c \in CartId :
            \/ \E tier \in Tier : CallAdd(h, c, tier)
            \/ \E call \in UserCall \ {"init", "add"} : CallOther(h, call, c)
       \/ \E e \in sent : Webhook(h, e)

Spec == Init /\ [][Next]_vars

-----------------------------------------------------------------------------
(* Properties. *)

(* The type invariant. *)
TypeOK ==
  /\ carts \in [CartId -> Doc]
  /\ subs \in [SubId -> Sub]
  /\ services \in [Network -> Nat]
  /\ sent \subseteq Event
  /\ \A h \in Handler : work[h] = NoWork \/ work[h] \in Work
  /\ added \in 0 .. MaxItems
  /\ dups \in 0 .. MaxDups

(* "Only 1 cart session with a status not equal to CHECKOUT_COMPLETE per    *)
(* user allowed at a time": initCartSessionForNetwork goes on with the cart *)
(* that is open, of whatever network.                                       *)
OneOpenCart == \A c, d \in CartId : Open(c) /\ Open(d) => c = d

(* Whoever pays for a subscription is served: when nothing is under way, a  *)
(* subscription that Stripe has active is Active here and its user has a    *)
(* user network, whatever became of the cart before the webhook came.       *)
PaidIsServed ==
  Quiet => \A s \in SubId :
    subs[s].stripe = "active" => subs[s].status = "Active" /\ \E n \in Network : services[n] > 0

(* No open cart is stuck: its subscription is one clearCartHelper can       *)
(* cancel with Stripe, or leaves alone because it is Active.                *)
CartCanBeCleared ==
  Quiet => \A c \in CartId :
    Open(c) /\ carts[c].sub # NoSub =>
      LET sub == subs[carts[c].sub] IN
      \/ sub.status = "Active"
      \/ sub.status = "Incomplete" /\ sub.stripe = "incomplete"

(* A subscription that waits for its first payment is in the open cart: it  *)
(* can be paid for there, and it goes when the cart is cleared or expires.  *)
NoOrphan ==
  Quiet => \A s \in SubId :
    subs[s].stripe = "incomplete" => \E c \in CartId : Open(c) /\ carts[c].sub = s

(* A checkout that is complete is not opened again by a call that comes     *)
(* late or a webhook that is delivered late (markCartPendingPayment,        *)
(* markCartWithPaymentError...).                                            *)
CompleteStays ==
  [][\A c \in CartId : carts[c].status = "CHECKOUT_COMPLETE" =>
       carts'[c] = carts[c] \/ carts'[c].status = "CHECKOUT_COMPLETE"]_vars
=============================================================================
