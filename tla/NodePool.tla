------------------------------ MODULE NodePool ------------------------------
(***************************************************************************)
(* The pool of lightning nodes: an hourly task has nodes provisioned       *)
(* (LightningTasksService), a tenant that subscribed claims one            *)
(* (LightningOnboardService), its front end initialises the wallet and     *)
(* stores the macaroons (secure-transport.ts, LightningMacaroonService,    *)
(* LightningNodeController), a BEN opens an inbound channel, and the node  *)
(* is reset, decommissioned, or given up when the service is canceled      *)
(* (CancellationService and its BIP_NODE_TERMINATION task).                *)
(*                                                                         *)
(* A tenant is one session: it has one request under way.  Requests of     *)
(* different tenants, the tasks and the admin interleave at every access   *)
(* to the database, to LND or to the provisioner.                          *)
(***************************************************************************)
EXTENDS Naturals, FiniteSets

CONSTANTS
  Tenant, Node, Channel,
  NoTenant, NoNode, NoChannel,
  MaxPool,    (* maxNodePoolSize                                            *)
  MaxResets,  (* bound: nodes returned to the pool                          *)
  Faults      (* what may go wrong, a subset of AllFaults                   *)

(* "race": claims and resets of different tenants overlap; "inactive": the  *)
(* peer of a channel is offline for a while; "silent": LND does not answer  *)
(* when its pending channels are asked for.                                 *)
AllFaults == {"race", "inactive", "silent"}

ASSUME NodePoolAssumption ==
  /\ MaxPool \in Nat /\ MaxResets \in Nat
  /\ Faults \subseteq AllFaults
  /\ NoTenant \notin Tenant /\ NoNode \notin Node /\ NoChannel \notin Channel
  /\ IsFiniteSet(Node) /\ IsFiniteSet(Channel)

VARIABLES
  node,       (* node[n]: its document in lightningnodes                    *)
  wallet,     (* wallet[n]: whose wallet LND at n has, and whether it holds *)
              (* more than dust                                             *)
  chan,       (* chan[c]: a channel from a BEN to a node                    *)
  service,    (* service[t]: the user network of the lightning offering     *)
  ending,     (* ending[t]: the BIP_NODE_TERMINATION task                   *)
  request,    (* request[t]: what the tenant's request does next            *)
  left,       (* messages the provisioning task has still to send           *)
  requested,  (* nodes asked for and not provisioned yet                    *)
  returned    (* nodes returned to the pool so far                          *)

vars == <<node, wallet, chan, service, ending, request, left, requested, returned>>

-----------------------------------------------------------------------------
Doc == [ exists : BOOLEAN, tenant : Tenant \cup {NoTenant}, tier : BOOLEAN,
         macaroonId : BOOLEAN, registered : BOOLEAN,    \* pubkey and bscMacaroon
         incoming : Channel \cup {NoChannel}, decomissioned : BOOLEAN ]

FreshDoc ==
  [ exists |-> TRUE, tenant |-> NoTenant, tier |-> FALSE, macaroonId |-> FALSE,
    registered |-> FALSE, incoming |-> NoChannel, decomissioned |-> FALSE ]

Wallet == [owner : Tenant \cup {NoTenant}, funded : BOOLEAN]
NoWallet == [owner |-> NoTenant, funded |-> FALSE]

ChannelStatus == {"unused", "pending", "active", "inactive", "closed"}
Chan == [node : Node \cup {NoNode}, status : ChannelStatus]

Steps == {"idle", "find", "assign", "init", "macaroon", "register", "record", "wipe", "schedule"}
Request == [step : Steps, node : Node \cup {NoNode}]
Idle == [step |-> "idle", node |-> NoNode]

Init ==
  /\ node = [n \in Node |-> [FreshDoc EXCEPT !.exists = FALSE]]
  /\ wallet = [n \in Node |-> NoWallet]
  /\ chan = [c \in Channel |-> [node |-> NoNode, status |-> "unused"]]
  /\ service = [t \in Tenant |-> "none"]
  /\ ending = [t \in Tenant |-> "none"]
  /\ request = [t \in Tenant |-> Idle]
  /\ left = 0 /\ requested = 0 /\ returned = 0

-----------------------------------------------------------------------------
(* The queries.                                                             *)

(* { tenantId, decomissioned: { $exists: false } }                          *)
Live(t) == {n \in Node : node[n].exists /\ node[n].tenant = t /\ ~node[n].decomissioned}

(* A claim that asks for the fields of the setup only.                      *)
UnclaimedByAnyone ==
  {n \in Node : node[n].exists /\ ~node[n].macaroonId /\ ~node[n].registered /\ ~node[n].decomissioned}

(* getUnclaimedNode: every field a claim or a setup writes is absent.       *)
Unclaimed ==
  {n \in Node : /\ node[n].exists /\ node[n].tenant = NoTenant /\ ~node[n].tier
                /\ ~node[n].macaroonId /\ ~node[n].registered
                /\ node[n].incoming = NoChannel /\ ~node[n].decomissioned}

(* provisionLightningNodes: { tenantId: null }                              *)
Counted == {n \in Node : node[n].exists /\ node[n].tenant = NoTenant}

On(n, S) == {c \in Channel : chan[c].node = n /\ chan[c].status \in S}

(* A check that waits for no pending channel.                               *)
OnboardingStepImpatient(n) ==
  IF wallet[n].owner = NoTenant THEN "NodeNotInitialized"
  ELSE IF ~node[n].macaroonId THEN "NoAdminMacInNodeDoc"
  ELSE IF ~node[n].registered THEN "NoReadOnlyMac"
  ELSE IF On(n, {"active"}) = {} THEN "NoInboundChannelOpened"
  ELSE "ImDoingGood"

(* heyhowareya, where the front end sends the user next.  getChannelsList   *)
(* asks for active channels only.                                           *)
OnboardingStep(n) ==
  IF wallet[n].owner = NoTenant THEN "NodeNotInitialized"
  ELSE IF ~node[n].macaroonId THEN "NoAdminMacInNodeDoc"
  ELSE IF ~node[n].registered THEN "NoReadOnlyMac"
  ELSE IF node[n].incoming \in On(n, {"pending"}) THEN "InboundChannelOpening"
  ELSE IF On(n, {"active"}) = {} THEN "NoInboundChannelOpened"
  ELSE "ImDoingGood"

Goes(t, step, n) == request' = [request EXCEPT ![t] = [step |-> step, node |-> n]]
Done(t) == request' = [request EXCEPT ![t] = Idle]

(* No other tenant claims or resets a node, unless that may happen.         *)
Alone(t) ==
  "race" \in Faults
    \/ \A u \in Tenant \ {t} : request[u].step \notin {"find", "assign", "wipe"}

-----------------------------------------------------------------------------
(* Provisioning.                                                            *)

(* A loop that goes on while i <= maxPoolSize - poolNodeCount.              *)
CountPoolInclusive ==
  /\ left = 0 /\ requested = 0
  /\ Cardinality(Counted) < MaxPool
  /\ left' = MaxPool - Cardinality(Counted) + 1
  /\ UNCHANGED <<node, wallet, chan, service, ending, request, requested, returned>>

(* The provisioner has served the last hour's messages when the task runs.  *)
CountPool ==
  /\ left = 0 /\ requested = 0
  /\ Cardinality(Counted) < MaxPool
  /\ left' = MaxPool - Cardinality(Counted)
  /\ UNCHANGED <<node, wallet, chan, service, ending, request, requested, returned>>

(* A loop that asks before it looks at the number.                          *)
AskFirst ==
  /\ left >= 0
  /\ left' = left - 1
  /\ requested' \in {requested, requested + 1}
  /\ UNCHANGED <<node, wallet, chan, service, ending, request, returned>>

(* provisionSingleLightningNode: the message is sent, or the failure is     *)
(* counted and the loop goes on.                                            *)
Ask ==
  /\ left > 0
  /\ left' = left - 1
  /\ requested' \in {requested, requested + 1}
  /\ UNCHANGED <<node, wallet, chan, service, ending, request, returned>>

Provisioned(n) ==
  /\ requested > 0 /\ ~node[n].exists
  /\ requested' = requested - 1
  /\ node' = [node EXCEPT ![n] = FreshDoc]
  /\ UNCHANGED <<wallet, chan, service, ending, request, left, returned>>

-----------------------------------------------------------------------------
(* findOrClaimNodeForUser.                                                  *)

(* A claim that does not look for the tenant's node.                        *)
ClaimAgain(t) ==
  /\ request[t] = Idle /\ Alone(t)
  /\ service[t] # "none"
  /\ Goes(t, "find", NoNode)
  /\ UNCHANGED <<node, wallet, chan, service, ending, left, requested, returned>>

(* The offering is looked up, then the tenant's node: with one, that is the *)
(* answer.                                                                  *)
Claim(t) ==
  /\ request[t] = Idle /\ Alone(t)
  /\ service[t] # "none"
  /\ Live(t) = {}
  /\ Goes(t, "find", NoNode)
  /\ UNCHANGED <<node, wallet, chan, service, ending, left, requested, returned>>

FindUnclaimed(t) ==
  /\ request[t].step = "find"
  /\ \/ \E n \in Unclaimed : Goes(t, "assign", n)
     \/ Unclaimed = {} /\ Done(t)
  /\ UNCHANGED <<node, wallet, chan, service, ending, left, requested, returned>>

(* The update looks for the nodeId only.                                    *)
Assign(t) ==
  LET n == request[t].node IN
  /\ request[t].step = "assign"
  /\ node' = [node EXCEPT ![n].tenant = t, ![n].tier = TRUE]
  /\ Done(t)
  /\ UNCHANGED <<wallet, chan, service, ending, left, requested, returned>>

-----------------------------------------------------------------------------
(* The setup wizard of the front end.                                       *)

(* A macaroon found in the vault spares the user the wallet.               *)
OpenSetup(t) ==
  /\ request[t] = Idle
  /\ \E n \in Live(t) :
       \/ OnboardingStep(n) = "NodeNotInitialized" /\ Goes(t, "init", n)
       \/ OnboardingStep(n) = "NoReadOnlyMac" /\ Goes(t, "register", n)
  /\ UNCHANGED <<node, wallet, chan, service, ending, left, requested, returned>>

(* initwallet, sent to the node itself: LND refuses a second wallet.        *)
InitWallet(t) ==
  LET n == request[t].node IN
  /\ request[t].step = "init"
  /\ IF wallet[n].owner = NoTenant
     THEN /\ wallet' = [wallet EXCEPT ![n].owner = t]
          /\ Goes(t, "macaroon", n)
     ELSE Done(t) /\ UNCHANGED wallet
  /\ UNCHANGED <<node, chan, service, ending, left, requested, returned>>

(* storeMacaroon: the node is looked up by its tenant, and a missing one is *)
(* an error that ends the wizard.                                           *)
StoreMacaroon(t) ==
  /\ request[t].step = "macaroon"
  /\ \/ \E m \in Live(t) :
          /\ node' = [node EXCEPT ![m].macaroonId = TRUE]
          /\ Goes(t, "register", request[t].node)
     \/ Live(t) = {} /\ Done(t) /\ UNCHANGED node
  /\ UNCHANGED <<wallet, chan, service, ending, left, requested, returned>>

(* PUT :nodeId with the public key and the read-only macaroon.              *)
Register(t) ==
  LET n == request[t].node IN
  /\ request[t].step = "register"
  /\ node' = IF node[n].decomissioned THEN node
             ELSE [node EXCEPT ![n].registered = TRUE]
  /\ Done(t)
  /\ UNCHANGED <<wallet, chan, service, ending, left, requested, returned>>

(* The browser is closed: the next visit begins where the node stands.      *)
LeaveSetup(t) ==
  /\ request[t].step \in {"init", "macaroon", "register"}
  /\ Done(t)
  /\ UNCHANGED <<node, wallet, chan, service, ending, left, requested, returned>>

-----------------------------------------------------------------------------
(* requestChannelOpen, asked for by the page of the node whenever it has no *)
(* inbound channel and the service is not being canceled.                   *)
OpenChannel(t) ==
  /\ request[t] = Idle
  /\ service[t] # "pending"
  /\ \E n \in Live(t), c \in Channel :
       /\ OnboardingStep(n) = "NoInboundChannelOpened"
       /\ node[n].tier
       /\ chan[c].status = "unused"
       /\ chan' = [chan EXCEPT ![c] = [node |-> n, status |-> "pending"]]
       /\ Goes(t, "record", n)
  /\ UNCHANGED <<node, wallet, service, ending, left, requested, returned>>

(* The first pending channel of the tenant's node is recorded, whichever it *)
(* is; with none, or without an answer, nothing is.                         *)
RecordChannel(t) ==
  /\ request[t].step = "record"
  /\ \/ \E m \in Live(t) : \E c \in On(m, {"pending"}) :
          node' = [node EXCEPT ![m].incoming = c]
     \/ /\ "silent" \in Faults \/ \A m \in Live(t) : On(m, {"pending"}) = {}
        /\ UNCHANGED node
  /\ Done(t)
  /\ UNCHANGED <<wallet, chan, service, ending, left, requested, returned>>

(* The chain confirms a channel, its peer goes offline and comes back, and  *)
(* closing it pays the wallet.                                              *)
ChannelMoves(c) ==
  \E from, to \in ChannelStatus :
    /\ <<from, to>> \in {<<"pending", "active">>, <<"inactive", "active">>, <<"active", "closed">>}
         \cup (IF "inactive" \in Faults THEN {<<"active", "inactive">>} ELSE {})
    /\ chan[c].status = from
    /\ chan' = [chan EXCEPT ![c].status = to]
    /\ wallet' = IF to = "closed" THEN [wallet EXCEPT ![chan[c].node].funded = TRUE] ELSE wallet
    /\ UNCHANGED <<node, service, ending, request, left, requested, returned>>

(* The owner sends the wallet's balance elsewhere.                          *)
Withdraw(n) ==
  /\ wallet[n].funded
  /\ wallet' = [wallet EXCEPT ![n].funded = FALSE]
  /\ UNCHANGED <<node, chan, service, ending, request, left, requested, returned>>

-----------------------------------------------------------------------------
(* A reset that leaves the tier.                                            *)
ClearedButTier(doc) ==
  [doc EXCEPT !.tenant = NoTenant, !.macaroonId = FALSE, !.registered = FALSE,
              !.incoming = NoChannel]

(* resetNode: the document is cleared, which returns the node to the pool,  *)
(* before the node is wiped.                                                *)
Cleared(doc) ==
  [doc EXCEPT !.tenant = NoTenant, !.tier = FALSE, !.macaroonId = FALSE,
              !.registered = FALSE, !.incoming = NoChannel]

Reset(t) ==
  /\ request[t] = Idle /\ Alone(t)
  /\ returned < MaxResets
  /\ \E n \in Node :
       /\ node[n].exists /\ node[n].tenant = t
       /\ node' = [node EXCEPT ![n] = Cleared(@)]
       /\ Goes(t, "wipe", n)
  /\ returned' = returned + 1
  /\ UNCHANGED <<wallet, chan, service, ending, left, requested>>

(* The call that wipes the node may fail.                                   *)
Wipe(t) ==
  LET n == request[t].node IN
  /\ request[t].step = "wipe"
  /\ \/ /\ wallet' = [wallet EXCEPT ![n] = NoWallet]
        /\ chan' = [c \in Channel |-> IF chan[c].node = n THEN [chan[c] EXCEPT !.status = "closed"]
                                      ELSE chan[c]]
     \/ UNCHANGED <<wallet, chan>>
  /\ Done(t)
  /\ UNCHANGED <<node, service, ending, left, requested, returned>>

(* decomission: an admin marks the document, whoever holds the node.        *)
Decomission(n) ==
  /\ node[n].exists
  /\ node' = [node EXCEPT ![n].decomissioned = TRUE]
  /\ UNCHANGED <<wallet, chan, service, ending, request, left, requested, returned>>

-----------------------------------------------------------------------------
(* The offering: subscribed, canceled, and ended by the task once the node  *)
(* is empty.                                                                *)
Subscribe(t) ==
  /\ service[t] = "none"
  /\ service' = [service EXCEPT ![t] = "active"]
  /\ UNCHANGED <<node, wallet, chan, ending, request, left, requested, returned>>

(* disableNetworkServiceOffering at the cancelation, and                    *)
(* terminateNetworkServiceOffering at its end, do this once.                *)
CancelService(t) ==
  /\ request[t] = Idle
  /\ service[t] = "active"
  /\ service' = [service EXCEPT ![t] = "pending"]
  /\ Goes(t, "schedule", NoNode)
  /\ UNCHANGED <<node, wallet, chan, ending, left, requested, returned>>

(* handleBipCancelationRequestHelper: a ticket, whatever becomes of it,     *)
(* then the hourly task, unless the request fails before it is created.     *)
ScheduleTermination(t) ==
  /\ request[t].step = "schedule"
  /\ Done(t)
  /\ ending' \in {ending, [ending EXCEPT ![t] = "queued"]}
  /\ UNCHANGED <<node, wallet, chan, service, left, requested, returned>>

(* isBipNodeReadyToCancel counts the active channels in channelsList, a     *)
(* field LND's REST answer does not have (it has channels): never any.      *)
ActiveChannelsSeen(n) == {}

(* The balance must be read, and be dust.                                   *)
ReadyToCancel(t) ==
  \E n \in Live(t) :
    ActiveChannelsSeen(n) = {} /\ wallet[n].owner # NoTenant /\ ~wallet[n].funded

CheckTermination(t) ==
  /\ ending[t] = "queued"
  /\ ReadyToCancel(t)
  /\ ending' = [ending EXCEPT ![t] = "ready"]
  /\ UNCHANGED <<node, wallet, chan, service, request, left, requested, returned>>

(* processBipNodeTermination: the user network goes, and a ticket asks for  *)
(* the node to be decommissioned.                                           *)
Terminate(t) ==
  /\ ending[t] = "ready"
  /\ ending' = [ending EXCEPT ![t] = "none"]
  /\ service' = [service EXCEPT ![t] = "none"]
  /\ UNCHANGED <<node, wallet, chan, request, left, requested, returned>>

-----------------------------------------------------------------------------
Session(t) ==
  \/ Claim(t) \/ FindUnclaimed(t) \/ Assign(t)
  \/ OpenSetup(t) \/ InitWallet(t) \/ StoreMacaroon(t) \/ Register(t) \/ LeaveSetup(t)
  \/ OpenChannel(t) \/ RecordChannel(t)
  \/ Reset(t) \/ Wipe(t)
  \/ Subscribe(t) \/ CancelService(t) \/ ScheduleTermination(t)

Next ==
  \/ CountPool \/ Ask
  \/ \E n \in Node : Provisioned(n) \/ Withdraw(n) \/ Decomission(n)
  \/ \E c \in Channel : ChannelMoves(c)
  \/ \E t \in Tenant : Session(t) \/ CheckTermination(t) \/ Terminate(t)

Spec == Init /\ [][Next]_vars

-----------------------------------------------------------------------------
(* The type invariant.                                                      *)
TypeOK ==
  /\ node \in [Node -> Doc]
  /\ wallet \in [Node -> Wallet]
  /\ chan \in [Channel -> Chan]
  /\ service \in [Tenant -> {"none", "active", "pending"}]
  /\ ending \in [Tenant -> {"none", "queued", "ready"}]
  /\ request \in [Tenant -> Request]
  /\ left \in Nat /\ requested \in Nat /\ returned \in Nat

(* A tenant has one node that is not decommissioned: every query by its     *)
(* tenantId means the same node.                                            *)
OneNodePerTenant == \A t \in Tenant : Cardinality(Live(t)) <= 1

(* "Finds user's lightning node if user has node OR claims a fresh          *)
(* lightning node": a node goes from one tenant to another through the pool *)
(* only.                                                                    *)
ClaimIsExclusive ==
  [][\A n \in Node : node[n].tenant # NoTenant =>
       node'[n].tenant \in {node[n].tenant, NoTenant}]_vars

(* The macaroons core keeps for a tenant open a wallet of that tenant,      *)
(* whatever resets, wipes that failed and claims came before.               *)
WalletIsOwn ==
  \A t \in Tenant : \A n \in Live(t) :
    node[n].macaroonId \/ node[n].registered => wallet[n].owner = t

(* What the provisioning task counts as the pool, a claim can take, but for *)
(* decommissioned nodes: the fields a reset clears are those a claim looks  *)
(* at, and no wizard left behind writes to a node in the pool.              *)
CountedIsClaimable == \A n \in Counted : n \in Unclaimed \/ node[n].decomissioned

(* The task refills the pool and does not overfill it: nodes in the pool,   *)
(* asked for and about to be asked for are the maximum, but for the nodes   *)
(* that resets returned.                                                    *)
PoolBounded == Cardinality(Counted) + requested + left <= MaxPool + returned

(* BENs fund one inbound channel per node, however often its page is shown. *)
OneInbound ==
  \A n \in Node : Cardinality(On(n, {"pending", "active", "inactive"})) <= 1

(* "Confirm Node's Channels are closed and Wallet is empty": a service is   *)
(* given up only when its node has no active channel left.                  *)
ClosedBeforeTermination ==
  [][\A t \in Tenant : ending[t] = "queued" /\ ending'[t] = "ready" =>
       \A n \in Live(t) : On(n, {"active"}) = {}]_vars
=============================================================================
