--------------------------- MODULE NodePool_proofs ---------------------------
(***************************************************************************)
(* Theorems about NodePool, for any sets of tenants, nodes and channels    *)
(* and any bounds.  That claims are exclusive rests on claims and resets   *)
(* of different tenants not overlapping: nothing in the code sees to it.   *)
(***************************************************************************)
EXTENDS NodePool, FiniteSetTheorems, TLAPS

USE NodePoolAssumption

(* A node without a tenant has nothing of an earlier one.                   *)
Clean(doc) == ~doc.tier /\ ~doc.macaroonId /\ ~doc.registered /\ doc.incoming = NoChannel

PoolClean == \A n \in Node : node[n].tenant = NoTenant => Clean(node[n])
NewIsFree == \A n \in Node : ~node[n].exists => node[n].tenant = NoTenant

(* One tenant at a time claims or resets.                                   *)
Changing == {"find", "assign", "wipe"}
Exclusive ==
  \A t, u \in Tenant : request[t].step \in Changing /\ request[u].step \in Changing => t = u

(* What a request still knows of the node it works on.                      *)
RequestOK ==
  \A t \in Tenant :
    LET r == request[t] IN
    /\ r.step \in {"find", "assign"} => Live(t) = {}
    /\ r.step \in {"assign", "wipe"} => r.node \in Node /\ node[r.node].tenant = NoTenant
    /\ r.step = "assign" => node[r.node].exists
    /\ r.step \in {"init", "macaroon", "register"} =>
         /\ r.node \in Node /\ node[r.node].exists /\ node[r.node].tenant = t
         /\ Live(t) \subseteq {r.node}
    /\ r.step \in {"macaroon", "register"} => wallet[r.node].owner = t

OneLive == \A t \in Tenant : \A n, m \in Live(t) : n = m

PoolInv == TypeOK /\ PoolClean /\ NewIsFree /\ Exclusive /\ RequestOK /\ OneLive /\ WalletIsOwn

-----------------------------------------------------------------------------
LEMMA CountedIsNat == Cardinality(Counted) \in Nat
<1>1. Counted \subseteq Node  BY DEF Counted
<1> QED  BY <1>1, FS_Subset, FS_CardinalityType

(* What the steps write is a document.                                      *)
LEMMA FreshIsDoc == FreshDoc \in Doc /\ [FreshDoc EXCEPT !.exists = FALSE] \in Doc
BY DEF FreshDoc, Doc

LEMMA ClearedIsDoc ==
  ASSUME NEW d \in Doc
  PROVE  /\ Cleared(d) \in Doc
         /\ Cleared(d).tenant = NoTenant /\ Clean(Cleared(d))
         /\ Cleared(d).exists = d.exists /\ Cleared(d).decomissioned = d.decomissioned
<1> DEFINE e == [d EXCEPT !.tenant = NoTenant, !.tier = FALSE]
           f == [e EXCEPT !.macaroonId = FALSE, !.registered = FALSE]
<1>1. e \in Doc /\ e.tenant = NoTenant /\ ~e.tier
       /\ e.exists = d.exists /\ e.decomissioned = d.decomissioned
  BY DEF Doc
<1>2. Cleared(d) = [f EXCEPT !.incoming = NoChannel]
  BY DEF Doc, Cleared
<1> HIDE DEF e
<1>3. f \in Doc /\ f.tenant = NoTenant /\ ~f.tier /\ ~f.macaroonId /\ ~f.registered
       /\ f.exists = d.exists /\ f.decomissioned = d.decomissioned
  BY <1>1 DEF Doc
<1> HIDE DEF f
<1> QED  BY <1>2, <1>3 DEF Doc, Clean

LEMMA UpdatedIsDoc ==
  ASSUME NEW d \in Doc, NEW t \in Tenant
  PROVE  /\ [d EXCEPT !.tenant = t, !.tier = TRUE] \in Doc
         /\ [d EXCEPT !.macaroonId = TRUE] \in Doc
         /\ [d EXCEPT !.registered = TRUE] \in Doc
         /\ [d EXCEPT !.decomissioned = TRUE] \in Doc
BY DEF Doc
-----------------------------------------------------------------------------
(* A step that writes one field of one document.                            *)
LEMMA NodeUpdate ==
  ASSUME TypeOK, NEW n, NEW d, n \in Node => d \in Doc
  PROVE  [node EXCEPT ![n] = d] \in [Node -> Doc]
BY DEF TypeOK

LEMMA RequestTyped ==
  ASSUME TypeOK, NEW t \in Tenant, NEW s \in Steps, NEW n \in Node \cup {NoNode}
  PROVE  /\ Goes(t, s, n) => request' \in [Tenant -> Request]
         /\ Done(t) => request' \in [Tenant -> Request]
BY DEF TypeOK, Goes, Done, Request, Idle, Steps

LEMMA InitTyped == Init => TypeOK
<1> SUFFICES ASSUME Init PROVE TypeOK  OBVIOUS
<1>1. node \in [Node -> Doc]  BY FreshIsDoc DEF Init
<1>2. wallet \in [Node -> Wallet] /\ chan \in [Channel -> Chan]
  BY DEF Init, Wallet, NoWallet, Chan, ChannelStatus
<1>3. request \in [Tenant -> Request]  BY DEF Init, Idle, Request, Steps
<1> QED  BY <1>1, <1>2, <1>3 DEF Init, TypeOK

(* The types of the documents, session by session.                          *)
LEMMA SessionTyped ==
  ASSUME TypeOK, NEW t \in Tenant, Session(t)
  PROVE  TypeOK'
<1> USE DEF TypeOK
<1> DEFINE n == request[t].node
<1>0. request[t] \in Request /\ n \in Node \cup {NoNode}
  BY DEF Request
<1>1. CASE Claim(t)
  <2>1. request' \in [Tenant -> Request]  BY <1>1, RequestTyped DEF Claim, Steps
  <2> QED  BY <1>1, <2>1 DEF Claim
<1>2. CASE FindUnclaimed(t)
  <2>1. request' \in [Tenant -> Request]
    BY <1>2, RequestTyped DEF FindUnclaimed, Unclaimed, Steps
  <2> QED  BY <1>2, <2>1 DEF FindUnclaimed
<1>3. CASE Assign(t)
  <2>1. request' \in [Tenant -> Request]
    BY <1>0, <1>3, RequestTyped DEF Assign, Steps
  <2>2. n \in Node => [node[n] EXCEPT !.tenant = t, !.tier = TRUE] \in Doc
    <3>0. n \in Node => node[n] \in Doc  OBVIOUS
    <3> QED  BY <3>0 DEF Doc
  <2>3. node' \in [Node -> Doc]
    BY <1>3, <2>2, NodeUpdate DEF Assign
  <2> QED  BY <1>3, <2>1, <2>3 DEF Assign
<1>4. CASE OpenSetup(t)
  <2>1. request' \in [Tenant -> Request]
    BY <1>4, RequestTyped DEF OpenSetup, Live, Steps
  <2> QED  BY <1>4, <2>1 DEF OpenSetup
<1>5. CASE InitWallet(t)
  <2>1. request' \in [Tenant -> Request]
    BY <1>0, <1>5, RequestTyped DEF InitWallet, Steps
  <2>2. wallet' \in [Node -> Wallet]
    BY <1>5 DEF InitWallet, Wallet
  <2> QED  BY <1>5, <2>1, <2>2 DEF InitWallet
<1>6. CASE StoreMacaroon(t)
  <2>1. request' \in [Tenant -> Request]
    BY <1>0, <1>6, RequestTyped DEF StoreMacaroon, Steps
  <2>2. node' \in [Node -> Doc]
    <3>1. CASE UNCHANGED node  BY <3>1
    <3>2. ASSUME NEW m \in Live(t), node' = [node EXCEPT ![m].macaroonId = TRUE]
          PROVE  node' \in [Node -> Doc]
      <4>1. [node[m] EXCEPT !.macaroonId = TRUE] \in Doc  BY UpdatedIsDoc DEF Live
      <4> QED  BY <3>2, <4>1, NodeUpdate
    <3> QED  BY <1>6, <3>1, <3>2 DEF StoreMacaroon
  <2> QED  BY <1>6, <2>1, <2>2 DEF StoreMacaroon
<1>7. CASE Register(t)
  <2>1. request' \in [Tenant -> Request]
    BY <1>0, <1>7, RequestTyped DEF Register, Steps
  <2>2. node' \in [Node -> Doc]
    <3>0. n \in Node => node[n] \in Doc  OBVIOUS
    <3>1. n \in Node => [node[n] EXCEPT !.registered = TRUE] \in Doc
      BY <3>0 DEF Doc
    <3> QED  BY <1>7, <3>1, NodeUpdate DEF Register
  <2> QED  BY <1>7, <2>1, <2>2 DEF Register
<1>8. CASE LeaveSetup(t)
  <2>1. request' \in [Tenant -> Request]
    BY <1>0, <1>8, RequestTyped DEF LeaveSetup, Steps
  <2> QED  BY <1>8, <2>1 DEF LeaveSetup
<1>9. CASE OpenChannel(t)
  <2>1. request' \in [Tenant -> Request]
    BY <1>9, RequestTyped DEF OpenChannel, Live, Steps
  <2>2. chan' \in [Channel -> Chan]
    BY <1>9 DEF OpenChannel, Live, Chan, ChannelStatus
  <2> QED  BY <1>9, <2>1, <2>2 DEF OpenChannel
<1>10. CASE RecordChannel(t)
  <2>1. request' \in [Tenant -> Request]
    BY <1>0, <1>10, RequestTyped DEF RecordChannel, Steps
  <2>2. node' \in [Node -> Doc]
    <3>1. CASE UNCHANGED node  BY <3>1
    <3>2. ASSUME NEW m \in Live(t), NEW c \in On(m, {"pending"}),
                 node' = [node EXCEPT ![m].incoming = c]
          PROVE  node' \in [Node -> Doc]
      BY <3>2 DEF Live, On, Doc
    <3> QED  BY <1>10, <3>1, <3>2 DEF RecordChannel
  <2> QED  BY <1>10, <2>1, <2>2 DEF RecordChannel
<1>11. CASE Reset(t)
  <2>1. request' \in [Tenant -> Request]
    BY <1>11, RequestTyped DEF Reset, Steps
  <2>2. node' \in [Node -> Doc]
    <3>1. PICK m \in Node : node' = [node EXCEPT ![m] = Cleared(@)]
      BY <1>11 DEF Reset
    <3>2. Cleared(node[m]) \in Doc  BY ClearedIsDoc
    <3> QED  BY <3>1, <3>2
  <2>3. returned' \in Nat  BY <1>11 DEF Reset
  <2> QED  BY <1>11, <2>1, <2>2, <2>3 DEF Reset
<1>12. CASE Wipe(t)
  <2>1. request' \in [Tenant -> Request]
    BY <1>0, <1>12, RequestTyped DEF Wipe, Steps
  <2>2. wallet' \in [Node -> Wallet]
    <3>1. NoWallet \in Wallet  BY DEF Wallet, NoWallet
    <3> QED  BY <1>12, <3>1 DEF Wipe
  <2>3. chan' \in [Channel -> Chan]
    <3>1. \A c \in Channel : [chan[c] EXCEPT !.status = "closed"] \in Chan
      BY DEF Chan, ChannelStatus
    <3> QED  BY <1>12, <3>1 DEF Wipe
  <2> QED  BY <1>12, <2>1, <2>2, <2>3 DEF Wipe
<1>13. CASE Subscribe(t)  BY <1>13 DEF Subscribe
<1>14. CASE CancelService(t)
  <2>1. request' \in [Tenant -> Request]
    BY <1>14, RequestTyped DEF CancelService, Steps
  <2> QED  BY <1>14, <2>1 DEF CancelService
<1>15. CASE ScheduleTermination(t)
  <2>1. request' \in [Tenant -> Request]
    BY <1>0, <1>15, RequestTyped DEF ScheduleTermination, Steps
  <2> QED  BY <1>15, <2>1 DEF ScheduleTermination
<1> QED
  BY <1>1, <1>2, <1>3, <1>4, <1>5, <1>6, <1>7, <1>8, <1>9, <1>10, <1>11, <1>12,
     <1>13, <1>14, <1>15 DEF Session

LEMMA StepTyped == TypeOK /\ [Next]_vars => TypeOK'
<1> USE DEF TypeOK
<1> SUFFICES ASSUME TypeOK, [Next]_vars PROVE TypeOK'  OBVIOUS
<1>1. CASE CountPool
  <2>1. left' \in Nat  BY <1>1, CountedIsNat DEF CountPool
  <2> QED  BY <1>1, <2>1 DEF CountPool
<1>2. CASE Ask
  <2>1. left' \in Nat /\ requested' \in Nat  BY <1>2 DEF Ask
  <2> QED  BY <1>2, <2>1 DEF Ask
<1>3. ASSUME NEW n \in Node, Provisioned(n) PROVE TypeOK'
  <2>1. requested' \in Nat  BY <1>3 DEF Provisioned
  <2>2. node' \in [Node -> Doc]  BY <1>3, FreshIsDoc DEF Provisioned
  <2> QED  BY <1>3, <2>1, <2>2 DEF Provisioned
<1>4. ASSUME NEW n \in Node, Withdraw(n) PROVE TypeOK'
  <2>1. wallet' \in [Node -> Wallet]
    <3>1. \A w \in Wallet : [w EXCEPT !.funded = FALSE] \in Wallet  BY DEF Wallet
    <3> QED  BY <1>4, <3>1 DEF Withdraw
  <2> QED  BY <1>4, <2>1 DEF Withdraw
<1>5. ASSUME NEW n \in Node, Decomission(n) PROVE TypeOK'
  <2>1. node' \in [Node -> Doc]  
    <3>0. node[n] \in Doc  OBVIOUS
    <3>1. [node[n] EXCEPT !.decomissioned = TRUE] \in Doc  BY <3>0 DEF Doc
    <3> QED  BY <1>5, <3>1, NodeUpdate DEF Decomission
  <2> QED  BY <1>5, <2>1 DEF Decomission
<1>6. ASSUME NEW c \in Channel, ChannelMoves(c) PROVE TypeOK'
  <2>1. chan' \in [Channel -> Chan]
    <3>1. PICK to \in ChannelStatus : chan' = [chan EXCEPT ![c].status = to]
      BY <1>6 DEF ChannelMoves
    <3>2. [chan[c] EXCEPT !.status = to] \in Chan  BY DEF Chan
    <3> QED  BY <3>1, <3>2
  <2>2. wallet' \in [Node -> Wallet]
    <3>1. \A w \in Wallet : [w EXCEPT !.funded = TRUE] \in Wallet  BY DEF Wallet
    <3>2. wallet' = wallet \/ wallet' = [wallet EXCEPT ![chan[c].node].funded = TRUE]
      BY <1>6 DEF ChannelMoves
    <3> QED  BY <3>1, <3>2
  <2> QED  BY <1>6, <2>1, <2>2 DEF ChannelMoves
<1>7. ASSUME NEW t \in Tenant, CheckTermination(t) PROVE TypeOK'
  BY <1>7 DEF CheckTermination
<1>8. ASSUME NEW t \in Tenant, Terminate(t) PROVE TypeOK'
  BY <1>8 DEF Terminate
<1>9. CASE UNCHANGED vars  BY <1>9 DEF vars
<1> QED
  BY <1>1, <1>2, <1>3, <1>4, <1>5, <1>6, <1>7, <1>8, <1>9, SessionTyped DEF Next

(* Whatever the interleaving and the faults, the documents, wallets and     *)
(* channels keep their shape, and the counters of the pool do not go below  *)
(* zero.                                                                    *)
THEOREM TypeCorrect == Spec => []TypeOK
BY InitTyped, StepTyped, PTL DEF Spec

-----------------------------------------------------------------------------
(* The pool is bounded, claims that race included.                          *)

(* A step that puts no node into the pool does not make it larger.          *)
LEMMA PoolShrinks ==
  ASSUME Counted' \subseteq Counted
  PROVE  Cardinality(Counted)' \in Nat /\ Cardinality(Counted)' <= Cardinality(Counted)
<1>1. IsFiniteSet(Counted)  BY FS_Subset DEF Counted
<1>2. IsFiniteSet(Counted') /\ Cardinality(Counted') <= Cardinality(Counted)
  BY <1>1, FS_Subset
<1> QED  BY <1>2, FS_CardinalityType

LEMMA PoolGrows ==
  ASSUME NEW n, Counted' \subseteq Counted \cup {n}
  PROVE  Cardinality(Counted)' \in Nat /\ Cardinality(Counted)' <= Cardinality(Counted) + 1
<1>1. IsFiniteSet(Counted)  BY FS_Subset DEF Counted
<1>2. /\ IsFiniteSet(Counted \cup {n})
      /\ Cardinality(Counted \cup {n}) <= Cardinality(Counted) + 1
  <2>1. /\ IsFiniteSet(Counted \cup {n})
        /\ \/ Cardinality(Counted \cup {n}) = Cardinality(Counted)
           \/ Cardinality(Counted \cup {n}) = Cardinality(Counted) + 1
    BY <1>1, FS_AddElement, Zenon
  <2> QED  BY <2>1, CountedIsNat
<1>3. /\ IsFiniteSet(Counted')
      /\ Cardinality(Counted') <= Cardinality(Counted \cup {n})
  BY <1>2, FS_Subset
<1>4. Cardinality(Counted') \in Nat /\ Cardinality(Counted \cup {n}) \in Nat
  BY <1>2, <1>3, FS_CardinalityType
<1> QED  BY <1>2, <1>3, <1>4, CountedIsNat

LEMMA StepBounded == TypeOK /\ PoolBounded /\ [Next]_vars => PoolBounded'
<1> SUFFICES ASSUME TypeOK, PoolBounded, [Next]_vars PROVE PoolBounded'  OBVIOUS
<1> USE DEF PoolBounded
<1>0. /\ Cardinality(Counted) \in Nat /\ MaxPool \in Nat
      /\ left \in Nat /\ requested \in Nat /\ returned \in Nat
  BY CountedIsNat DEF TypeOK
<1>a. ASSUME Counted' \subseteq Counted, UNCHANGED <<requested, left, returned>>
      PROVE  PoolBounded'
  BY <1>0, <1>a, PoolShrinks
<1>b. ASSUME node' = node PROVE Cardinality(Counted)' = Cardinality(Counted)
  BY <1>b DEF Counted
<1>1. CASE CountPool  BY <1>0, <1>1, <1>b DEF CountPool
<1>2. CASE Ask  BY <1>0, <1>2, <1>b DEF Ask
<1>3. ASSUME NEW n \in Node, Provisioned(n) PROVE PoolBounded'
  <2>1. Counted' \subseteq Counted \cup {n}  BY <1>3 DEF Provisioned, Counted, TypeOK
  <2> QED  BY <1>0, <1>3, <2>1, PoolGrows DEF Provisioned
<1>4. ASSUME NEW n \in Node, Withdraw(n) PROVE PoolBounded'
  BY <1>0, <1>4, <1>b DEF Withdraw
<1>5. ASSUME NEW n \in Node, Decomission(n) PROVE PoolBounded'
  <2>1. Counted' \subseteq Counted  BY <1>5 DEF Decomission, Counted, TypeOK, Doc
  <2> QED  BY <1>5, <1>a, <2>1 DEF Decomission
<1>6. ASSUME NEW c \in Channel, ChannelMoves(c) PROVE PoolBounded'
  BY <1>0, <1>6, <1>b DEF ChannelMoves
<1>7. ASSUME NEW t \in Tenant, CheckTermination(t) PROVE PoolBounded'
  BY <1>0, <1>7, <1>b DEF CheckTermination
<1>8. ASSUME NEW t \in Tenant, Terminate(t) PROVE PoolBounded'
  BY <1>0, <1>8, <1>b DEF Terminate
<1>9. ASSUME NEW t \in Tenant, Session(t) PROVE PoolBounded'
  <2>1. CASE UNCHANGED <<node, requested, left, returned>>
    BY <1>0, <1>b, <2>1
  <2>2. CASE Assign(t)
    <3>1. Counted' \subseteq Counted
      BY <2>2, NodePoolAssumption DEF Assign, Counted, TypeOK, Doc
    <3> QED  BY <2>2, <1>a, <3>1 DEF Assign
  <2>3. CASE StoreMacaroon(t)
    <3>1. Counted' \subseteq Counted
      BY <2>3 DEF StoreMacaroon, Counted, TypeOK, Doc, Live
    <3> QED  BY <2>3, <1>a, <3>1 DEF StoreMacaroon
  <2>4. CASE Register(t)
    <3>1. Counted' \subseteq Counted
      BY <2>4 DEF Register, Counted, TypeOK, Doc
    <3> QED  BY <2>4, <1>a, <3>1 DEF Register
  <2>5. CASE RecordChannel(t)
    <3>1. Counted' \subseteq Counted
      BY <2>5 DEF RecordChannel, Counted, TypeOK, Doc, Live
    <3> QED  BY <2>5, <1>a, <3>1 DEF RecordChannel
  <2>6. CASE Reset(t)
    <3>1. PICK n \in Node : node' = [node EXCEPT ![n] = Cleared(@)]
      BY <2>6 DEF Reset
    <3>2. Counted' \subseteq Counted \cup {n}
      BY <3>1 DEF Counted, TypeOK
    <3> QED  BY <1>0, <2>6, <3>2, PoolGrows DEF Reset
  <2>7. \/ UNCHANGED <<node, requested, left, returned>>
        \/ Assign(t) \/ StoreMacaroon(t) \/ Register(t) \/ RecordChannel(t) \/ Reset(t)
    BY <1>9 DEF Session, Claim, FindUnclaimed, OpenSetup, InitWallet, LeaveSetup,
                OpenChannel, Wipe, Subscribe, CancelService, ScheduleTermination
  <2> QED  BY <2>1, <2>2, <2>3, <2>4, <2>5, <2>6, <2>7
<1>10. CASE UNCHANGED vars  BY <1>0, <1>10, <1>b DEF vars
<1> QED
  BY <1>1, <1>2, <1>3, <1>4, <1>5, <1>6, <1>7, <1>8, <1>9, <1>10 DEF Next

(* The hourly task never has more nodes provisioned than the pool holds,    *)
(* but for those that resets return, even where claims race.                *)
THEOREM PoolStaysBounded == Spec => []PoolBounded
<1>1. Init => PoolBounded
  <2> SUFFICES ASSUME Init PROVE PoolBounded  OBVIOUS
  <2>1. Counted = {}  BY DEF Init, Counted, FreshDoc
  <2>2. left = 0 /\ requested = 0 /\ returned = 0  BY DEF Init
  <2> QED  BY <2>1, <2>2, FS_EmptySet, NodePoolAssumption DEF PoolBounded
<1> QED  BY <1>1, TypeCorrect, StepBounded, PTL DEF Spec

-----------------------------------------------------------------------------
(* A tenant and its node, where claims do not race.                         *)

LEMMA InitPool == Init => PoolInv
<1> SUFFICES ASSUME Init PROVE PoolInv  OBVIOUS
<1>1. TypeOK  BY InitTyped
<1>2. \A n \in Node : /\ ~node[n].exists /\ node[n].tenant = NoTenant /\ Clean(node[n])
                      /\ ~node[n].macaroonId /\ ~node[n].registered
  BY DEF Init, FreshDoc, Clean
<1>3. \A t \in Tenant : Live(t) = {} /\ request[t].step = "idle"
  BY <1>2 DEF Live, Init, Idle
<1> QED
  BY <1>1, <1>2, <1>3 DEF PoolInv, PoolClean, NewIsFree, Exclusive, Changing, RequestOK,
     OneLive, WalletIsOwn

(* Steps that leave the documents, the requests and the owners of wallets.  *)
LEMMA PoolKept ==
  ASSUME PoolInv, TypeOK', node' = node, request' = request,
         \A n \in Node : wallet'[n].owner = wallet[n].owner
  PROVE  PoolInv'
<1>1. \A t \in Tenant : Live(t)' = Live(t)  BY DEF Live
<1> QED
  BY <1>1 DEF PoolInv, PoolClean, NewIsFree, Exclusive, Changing, RequestOK, OneLive,
     WalletIsOwn, Live

(* Steps of one tenant's request that leave the documents.                  *)
LEMMA RequestStep ==
  ASSUME PoolInv, TypeOK', node' = node, wallet' = wallet,
         NEW t \in Tenant,
         \A u \in Tenant \ {t} : request'[u] = request[u],
         LET r == request'[t] IN
         /\ r.step \in Changing => \A u \in Tenant \ {t} : request[u].step \notin Changing
         /\ r.step \in {"find", "assign"} => Live(t) = {}
         /\ r.step \in {"assign", "wipe"} => r.node \in Node /\ node[r.node].tenant = NoTenant
         /\ r.step = "assign" => node[r.node].exists
         /\ r.step \in {"init", "macaroon", "register"} =>
              /\ r.node \in Node /\ node[r.node].exists /\ node[r.node].tenant = t
              /\ Live(t) \subseteq {r.node}
         /\ r.step \in {"macaroon", "register"} => wallet[r.node].owner = t
  PROVE  PoolInv'
<1>1. \A u \in Tenant : Live(u)' = Live(u)  BY DEF Live
<1>2. PoolClean' /\ NewIsFree' /\ OneLive' /\ WalletIsOwn'
  BY <1>1 DEF PoolInv, PoolClean, NewIsFree, OneLive, WalletIsOwn
<1>3. Exclusive'  BY DEF PoolInv, Exclusive
<1>4. RequestOK'
  <2> SUFFICES ASSUME NEW u \in Tenant
               PROVE  LET r == request'[u] IN
    /\ r.step \in {"find", "assign"} => Live(u)' = {}
    /\ r.step \in {"assign", "wipe"} => r.node \in Node /\ node'[r.node].tenant = NoTenant
    /\ r.step = "assign" => node'[r.node].exists
    /\ r.step \in {"init", "macaroon", "register"} =>
         /\ r.node \in Node /\ node'[r.node].exists /\ node'[r.node].tenant = u
         /\ Live(u)' \subseteq {r.node}
    /\ r.step \in {"macaroon", "register"} => wallet'[r.node].owner = u
    BY DEF RequestOK
  <2> QED  BY <1>1 DEF PoolInv, RequestOK
<1> QED  BY <1>2, <1>3, <1>4 DEF PoolInv

(* Steps that write to one document, and leave whose node it is.            *)
LEMMA FieldStep ==
  ASSUME PoolInv, TypeOK', wallet' = wallet, NEW n \in Node,
         \A m \in Node \ {n} : node'[m] = node[m],
         node'[n].exists = node[n].exists, node'[n].tenant = node[n].tenant,
         node[n].decomissioned => node'[n].decomissioned,
         node[n].tenant = NoTenant => Clean(node'[n]),
         (node[n].tenant # NoTenant /\ ~node[n].decomissioned)
           => \/ wallet[n].owner = node[n].tenant
              \/ /\ node'[n].macaroonId => node[n].macaroonId
                 /\ node'[n].registered => node[n].registered,
         \A u \in Tenant : request'[u] = request[u] \/ request'[u] = Idle
                             \/ /\ request[u].step = "macaroon"
                                /\ request'[u] = [step |-> "register", node |-> request[u].node]
  PROVE  PoolInv'
<1> USE DEF PoolInv
<1>1. \A u \in Tenant : Live(u)' \subseteq Live(u)  BY DEF Live
<1>2. PoolClean'
  <2> SUFFICES ASSUME NEW m \in Node, node'[m].tenant = NoTenant PROVE Clean(node'[m])
    BY DEF PoolClean, Clean
  <2> QED  BY DEF PoolClean
<1>3. NewIsFree'  BY DEF NewIsFree
<1>4. OneLive'  BY <1>1 DEF OneLive
<1>5. WalletIsOwn'
  <2> SUFFICES ASSUME NEW u \in Tenant, NEW m \in Live(u)',
                      node'[m].macaroonId \/ node'[m].registered
               PROVE  wallet[m].owner = u
    BY DEF WalletIsOwn
  <2>1. m \in Live(u) /\ m \in Node /\ u # NoTenant
    BY <1>1, NodePoolAssumption DEF Live
  <2>2. node[m].tenant = u /\ ~node[m].decomissioned  BY <2>1 DEF Live
  <2> QED  BY <2>1, <2>2 DEF WalletIsOwn
<1>6. Exclusive'
  <2>1. \A u \in Tenant : request'[u].step \in Changing => request[u].step \in Changing
    <3> SUFFICES ASSUME NEW u \in Tenant, request'[u].step \in Changing
                 PROVE  request[u].step \in Changing
      OBVIOUS
    <3>1. request'[u] # Idle  BY DEF Idle, Changing
    <3>2. request'[u] # [step |-> "register", node |-> request[u].node]  BY DEF Changing
    <3> QED  BY <3>1, <3>2
  <2> QED  BY <2>1 DEF Exclusive
<1>7. RequestOK'
  <2> SUFFICES ASSUME NEW u \in Tenant
               PROVE  LET r == request'[u] IN
    /\ r.step \in {"find", "assign"} => Live(u)' = {}
    /\ r.step \in {"assign", "wipe"} => r.node \in Node /\ node'[r.node].tenant = NoTenant
    /\ r.step = "assign" => node'[r.node].exists
    /\ r.step \in {"init", "macaroon", "register"} =>
         /\ r.node \in Node /\ node'[r.node].exists /\ node'[r.node].tenant = u
         /\ Live(u)' \subseteq {r.node}
    /\ r.step \in {"macaroon", "register"} => wallet'[r.node].owner = u
    BY DEF RequestOK
  <2>0. \A m \in Node : node'[m].exists = node[m].exists /\ node'[m].tenant = node[m].tenant
    OBVIOUS
  <2>1. CASE request'[u] = request[u]  BY <1>1, <2>0, <2>1 DEF RequestOK
  <2>2. CASE request'[u] = Idle  BY <2>2 DEF Idle
  <2>3. CASE /\ request[u].step = "macaroon"
             /\ request'[u] = [step |-> "register", node |-> request[u].node]
    <3>1. request'[u].step = "register" /\ request'[u].node = request[u].node
      BY <2>3
    <3> QED  BY <1>1, <2>0, <2>3, <3>1 DEF RequestOK
  <2> QED  BY <2>1, <2>2, <2>3
<1> QED  BY <1>2, <1>3, <1>4, <1>5, <1>6, <1>7

(* A new node is nobody's.                                                  *)
LEMMA ProvisionedPool ==
  ASSUME PoolInv, TypeOK', NEW n \in Node, Provisioned(n)
  PROVE  PoolInv'
<1>0. /\ ~node[n].exists /\ node[n].tenant = NoTenant
      /\ node' = [node EXCEPT ![n] = FreshDoc]
      /\ wallet' = wallet /\ request' = request
  BY DEF Provisioned, PoolInv, NewIsFree
<1>1. /\ node'[n] = FreshDoc
      /\ \A m \in Node \ {n} : node'[m] = node[m]
  BY <1>0 DEF PoolInv, TypeOK
<1>2. FreshDoc.exists /\ FreshDoc.tenant = NoTenant /\ Clean(FreshDoc)
  BY DEF FreshDoc, Clean
<1>3. \A u \in Tenant : Live(u)' = Live(u)
  BY <1>0, <1>1, <1>2, NodePoolAssumption DEF Live
<1>4. \A m \in Node : /\ node[m].exists => node'[m] = node[m]
                      /\ node'[m].tenant = node[m].tenant
  BY <1>0, <1>1, <1>2
<1>5. PoolClean'  BY <1>1, <1>2 DEF PoolInv, PoolClean, Clean
<1>6. NewIsFree'  BY <1>1, <1>2 DEF PoolInv, NewIsFree
<1>7. Exclusive' /\ OneLive'  BY <1>0, <1>3 DEF PoolInv, Exclusive, OneLive
<1>8. WalletIsOwn'
  BY <1>0, <1>3, <1>4 DEF PoolInv, WalletIsOwn, Live
<1>9. RequestOK'  BY <1>0, <1>3, <1>4 DEF PoolInv, RequestOK
<1> QED  BY <1>5, <1>6, <1>7, <1>8, <1>9 DEF PoolInv

(* A claim takes a node of the pool, for a tenant that has none.            *)
LEMMA AssignPool ==
  ASSUME PoolInv, TypeOK', NEW t \in Tenant, Assign(t)
  PROVE  PoolInv'
<1> USE DEF PoolInv
<1> DEFINE n == request[t].node
<1>0. /\ request[t].step = "assign" /\ wallet' = wallet
      /\ node' = [node EXCEPT ![n].tenant = t, ![n].tier = TRUE]
      /\ request' = [request EXCEPT ![t] = Idle]
  BY DEF Assign, Done
<1>1. /\ n \in Node /\ node[n].exists /\ node[n].tenant = NoTenant /\ Live(t) = {}
      /\ ~node[n].macaroonId /\ ~node[n].registered
  BY <1>0 DEF RequestOK, PoolClean, Clean
<1> HIDE DEF n
<1>2. /\ \A m \in Node \ {n} : node'[m] = node[m]
      /\ node'[n].exists = node[n].exists /\ node'[n].tenant = t
      /\ ~node'[n].macaroonId /\ ~node'[n].registered
  <2>0. node[n] \in Doc  BY <1>1 DEF TypeOK
  <2>1. /\ node'[n] = [node[n] EXCEPT !.tenant = t, !.tier = TRUE]
        /\ \A m \in Node \ {n} : node'[m] = node[m]
    BY <1>0, <1>1 DEF TypeOK
  <2>2. \A d \in Doc : LET e == [d EXCEPT !.tenant = t, !.tier = TRUE] IN
          /\ e.exists = d.exists /\ e.tenant = t
          /\ e.macaroonId = d.macaroonId /\ e.registered = d.registered
    BY DEF Doc
  <2> QED  BY <1>1, <2>0, <2>1, <2>2
<1>3. /\ request'[t] = Idle
      /\ \A u \in Tenant \ {t} : request'[u] = request[u] /\ request[u].step \notin Changing
  BY <1>0 DEF TypeOK, Exclusive, Changing
<1>4. Live(t)' \subseteq {n} /\ \A u \in Tenant \ {t} : Live(u)' = Live(u)
  BY <1>1, <1>2, NodePoolAssumption DEF Live
<1>5. PoolClean'
  <2> SUFFICES ASSUME NEW m \in Node, node'[m].tenant = NoTenant PROVE Clean(node'[m])
    BY DEF PoolClean, Clean
  <2> QED  BY <1>2, NodePoolAssumption DEF PoolClean
<1>6. NewIsFree'  BY <1>1, <1>2 DEF NewIsFree
<1>7. Exclusive'  BY <1>3 DEF Exclusive, Changing, Idle
<1>8. OneLive'  BY <1>4 DEF OneLive
<1>9. WalletIsOwn'
  <2> SUFFICES ASSUME NEW u \in Tenant, NEW m \in Live(u)',
                      node'[m].macaroonId \/ node'[m].registered
               PROVE  wallet[m].owner = u
    BY <1>0 DEF WalletIsOwn
  <2>1. m \in Node /\ m # n  BY <1>2 DEF Live
  <2>2. m \in Live(u)  BY <1>4, <2>1
  <2> QED  BY <1>2, <2>1, <2>2 DEF WalletIsOwn
<1>10. RequestOK'
  <2> SUFFICES ASSUME NEW u \in Tenant
               PROVE  LET r == request'[u] IN
    /\ r.step \in {"find", "assign"} => Live(u)' = {}
    /\ r.step \in {"assign", "wipe"} => r.node \in Node /\ node'[r.node].tenant = NoTenant
    /\ r.step = "assign" => node'[r.node].exists
    /\ r.step \in {"init", "macaroon", "register"} =>
         /\ r.node \in Node /\ node'[r.node].exists /\ node'[r.node].tenant = u
         /\ Live(u)' \subseteq {r.node}
    /\ r.step \in {"macaroon", "register"} => wallet'[r.node].owner = u
    BY DEF RequestOK
  <2>1. CASE u = t  BY <1>3, <2>1 DEF Idle
  <2>2. CASE u # t
    <3>1. request'[u] = request[u] /\ request[u].step \notin Changing  BY <1>3, <2>2
    <3>2. request[u].step \in {"init", "macaroon", "register"} =>
            request[u].node \in Node /\ request[u].node # n
      BY <1>1, NodePoolAssumption DEF RequestOK
    <3>3. Live(u)' = Live(u)  BY <1>4, <2>2
    <3>4. request[u].step \in {"init", "macaroon", "register"} =>
            node'[request[u].node] = node[request[u].node]
      BY <1>2, <3>2
    <3> QED  BY <1>0, <3>1, <3>2, <3>3, <3>4 DEF RequestOK, Changing
  <2> QED  BY <2>1, <2>2
<1> QED  BY <1>5, <1>6, <1>7, <1>8, <1>9, <1>10

(* A reset clears the document and returns the node.                        *)
LEMMA ResetPool ==
  ASSUME PoolInv, TypeOK', "race" \notin Faults, NEW t \in Tenant, Reset(t)
  PROVE  PoolInv'
<1> USE DEF PoolInv
<1>0. PICK n \in Node : /\ node[n].exists /\ node[n].tenant = t
                        /\ node' = [node EXCEPT ![n] = Cleared(@)]
                        /\ request' = [request EXCEPT ![t] = [step |-> "wipe", node |-> n]]
  BY DEF Reset, Goes
<1>1. wallet' = wallet /\ \A u \in Tenant \ {t} : request[u].step \notin Changing
  BY DEF Reset, Alone, Changing
<1>2. /\ \A m \in Node \ {n} : node'[m] = node[m]
      /\ node'[n].exists /\ node'[n].tenant = NoTenant /\ Clean(node'[n])
  BY <1>0, ClearedIsDoc DEF TypeOK
<1>3. /\ request'[t] = [step |-> "wipe", node |-> n]
      /\ \A u \in Tenant \ {t} : request'[u] = request[u]
  BY <1>0 DEF TypeOK
<1>4. Live(t)' \subseteq Live(t) /\ \A u \in Tenant \ {t} : Live(u)' = Live(u)
  BY <1>0, <1>2, NodePoolAssumption DEF Live
<1>5. PoolClean'
  <2> SUFFICES ASSUME NEW m \in Node, node'[m].tenant = NoTenant PROVE Clean(node'[m])
    BY DEF PoolClean, Clean
  <2> QED  BY <1>2 DEF PoolClean
<1>6. NewIsFree'  BY <1>2 DEF NewIsFree
<1>7. Exclusive'  BY <1>1, <1>3 DEF Exclusive
<1>8. OneLive'  BY <1>4 DEF OneLive
<1>9. WalletIsOwn'
  <2> SUFFICES ASSUME NEW u \in Tenant, NEW m \in Live(u)',
                      node'[m].macaroonId \/ node'[m].registered
               PROVE  wallet[m].owner = u
    BY <1>1 DEF WalletIsOwn
  <2>1. m \in Node /\ m # n  BY <1>2, NodePoolAssumption DEF Live
  <2>2. m \in Live(u)  BY <1>4, <2>1
  <2> QED  BY <1>2, <2>1, <2>2 DEF WalletIsOwn
<1>10. RequestOK'
  <2> SUFFICES ASSUME NEW u \in Tenant
               PROVE  LET r == request'[u] IN
    /\ r.step \in {"find", "assign"} => Live(u)' = {}
    /\ r.step \in {"assign", "wipe"} => r.node \in Node /\ node'[r.node].tenant = NoTenant
    /\ r.step = "assign" => node'[r.node].exists
    /\ r.step \in {"init", "macaroon", "register"} =>
         /\ r.node \in Node /\ node'[r.node].exists /\ node'[r.node].tenant = u
         /\ Live(u)' \subseteq {r.node}
    /\ r.step \in {"macaroon", "register"} => wallet'[r.node].owner = u
    BY DEF RequestOK
  <2>1. CASE u = t
    <3>1. request'[u].step = "wipe" /\ request'[u].node = n  BY <1>3, <2>1
    <3> QED  BY <1>2, <3>1
  <2>2. CASE u # t
    <3>1. request'[u] = request[u] /\ request[u].step \notin Changing
      BY <1>1, <1>3, <2>2
    <3>2. request[u].step \in {"init", "macaroon", "register"} =>
            request[u].node \in Node /\ request[u].node # n
      BY <1>0, <2>2 DEF RequestOK
    <3> QED  BY <1>1, <1>2, <1>4, <2>2, <3>1, <3>2 DEF RequestOK, Changing
  <2> QED  BY <2>1, <2>2
<1> QED  BY <1>5, <1>6, <1>7, <1>8, <1>9, <1>10

(* The wallet is initialised by the tenant that holds the node.             *)
LEMMA InitWalletPool ==
  ASSUME PoolInv, TypeOK', NEW t \in Tenant, InitWallet(t)
  PROVE  PoolInv'
<1> USE DEF PoolInv
<1> DEFINE n == request[t].node
<1>0. /\ n \in Node /\ node[n].exists /\ node[n].tenant = t /\ Live(t) \subseteq {n}
      /\ node' = node
  BY DEF InitWallet, RequestOK
<1>1. CASE wallet[n].owner # NoTenant
  <2>1. wallet' = wallet /\ request' = [request EXCEPT ![t] = Idle]
    BY <1>1 DEF InitWallet, Done
  <2>2. request'[t].step = "idle" /\ \A u \in Tenant \ {t} : request'[u] = request[u]
    BY <2>1 DEF TypeOK, Idle
  <2> QED  BY <1>0, <2>1, <2>2, RequestStep DEF Changing
<1>2. CASE wallet[n].owner = NoTenant
  <2>1. /\ wallet' = [wallet EXCEPT ![n].owner = t]
        /\ request' = [request EXCEPT ![t] = [step |-> "macaroon", node |-> n]]
    BY <1>2 DEF InitWallet, Goes
  <2>2. /\ request'[t].step = "macaroon" /\ request'[t].node = n
        /\ \A u \in Tenant \ {t} : request'[u] = request[u]
    BY <2>1 DEF TypeOK
  <2>3. /\ wallet'[n].owner = t
        /\ \A m \in Node \ {n} : wallet'[m] = wallet[m]
    BY <1>0, <2>1 DEF TypeOK, Wallet
  <2>4. \A u \in Tenant : Live(u)' = Live(u)  BY <1>0 DEF Live
  <2>5. PoolClean' /\ NewIsFree' /\ OneLive'
    BY <1>0, <2>4 DEF PoolClean, NewIsFree, OneLive
  <2>6. Exclusive'  BY <2>2 DEF Exclusive, Changing
  <2>7. WalletIsOwn'
    <3> SUFFICES ASSUME NEW u \in Tenant, NEW m \in Live(u),
                        node[m].macaroonId \/ node[m].registered
                 PROVE  wallet'[m].owner = u
      BY <1>0, <2>4 DEF WalletIsOwn
    <3>1. m \in Node /\ node[m].tenant = u /\ wallet[m].owner = u
      BY DEF Live, WalletIsOwn
    <3> QED  BY <1>0, <2>3, <3>1
  <2>8. RequestOK'
    <3> SUFFICES ASSUME NEW u \in Tenant
                 PROVE  LET r == request'[u] IN
      /\ r.step \in {"find", "assign"} => Live(u)' = {}
      /\ r.step \in {"assign", "wipe"} => r.node \in Node /\ node'[r.node].tenant = NoTenant
      /\ r.step = "assign" => node'[r.node].exists
      /\ r.step \in {"init", "macaroon", "register"} =>
           /\ r.node \in Node /\ node'[r.node].exists /\ node'[r.node].tenant = u
           /\ Live(u)' \subseteq {r.node}
      /\ r.step \in {"macaroon", "register"} => wallet'[r.node].owner = u
      BY DEF RequestOK
    <3>1. CASE u = t  BY <1>0, <2>2, <2>3, <2>4, <3>1
    <3>2. CASE u # t
      <4>1. request'[u] = request[u]  BY <2>2, <3>2
      <4>2. request[u].step \in {"macaroon", "register"} =>
              /\ request[u].node \in Node \ {n}
              /\ wallet'[request[u].node] = wallet[request[u].node]
        BY <1>0, <2>3, <3>2 DEF RequestOK
      <4> QED  BY <1>0, <2>4, <4>1, <4>2 DEF RequestOK
    <3> QED  BY <3>1, <3>2
  <2> QED  BY <2>5, <2>6, <2>7, <2>8
<1> QED  BY <1>1, <1>2

(* What a reset wipes is a node that is still in the pool.                  *)
LEMMA WipePool ==
  ASSUME PoolInv, TypeOK', NEW t \in Tenant, Wipe(t)
  PROVE  PoolInv'
<1> USE DEF PoolInv
<1> DEFINE n == request[t].node
<1>0. /\ n \in Node /\ node[n].tenant = NoTenant /\ node' = node
      /\ request' = [request EXCEPT ![t] = Idle]
      /\ wallet' = wallet \/ wallet' = [wallet EXCEPT ![n] = NoWallet]
  BY DEF Wipe, RequestOK, Done
<1>1. request'[t].step = "idle" /\ \A u \in Tenant \ {t} : request'[u] = request[u]
  BY <1>0 DEF TypeOK, Idle
<1>2. \A m \in Node \ {n} : wallet'[m] = wallet[m]
  BY <1>0 DEF TypeOK
<1>3. \A u \in Tenant : Live(u)' = Live(u)  BY <1>0 DEF Live
<1>4. PoolClean' /\ NewIsFree' /\ OneLive'
  BY <1>0, <1>3 DEF PoolClean, NewIsFree, OneLive
<1>5. Exclusive'  BY <1>1 DEF Exclusive, Changing
<1>6. WalletIsOwn'
  <2> SUFFICES ASSUME NEW u \in Tenant, NEW m \in Live(u),
                      node[m].macaroonId \/ node[m].registered
               PROVE  wallet'[m].owner = u
    BY <1>0, <1>3 DEF WalletIsOwn
  <2>1. m \in Node \ {n} /\ wallet[m].owner = u
    BY <1>0, NodePoolAssumption DEF Live, WalletIsOwn
  <2> QED  BY <1>2, <2>1
<1>7. RequestOK'
  <2> SUFFICES ASSUME NEW u \in Tenant
               PROVE  LET r == request'[u] IN
    /\ r.step \in {"find", "assign"} => Live(u)' = {}
    /\ r.step \in {"assign", "wipe"} => r.node \in Node /\ node'[r.node].tenant = NoTenant
    /\ r.step = "assign" => node'[r.node].exists
    /\ r.step \in {"init", "macaroon", "register"} =>
         /\ r.node \in Node /\ node'[r.node].exists /\ node'[r.node].tenant = u
         /\ Live(u)' \subseteq {r.node}
    /\ r.step \in {"macaroon", "register"} => wallet'[r.node].owner = u
    BY DEF RequestOK
  <2>1. CASE u = t  BY <1>1, <2>1
  <2>2. CASE u # t
    <3>1. request'[u] = request[u]  BY <1>1, <2>2
    <3>2. request[u].step \in {"macaroon", "register"} =>
            wallet'[request[u].node] = wallet[request[u].node]
      BY <1>0, <1>2, NodePoolAssumption DEF RequestOK
    <3> QED  BY <1>0, <1>3, <3>1, <3>2 DEF RequestOK
  <2> QED  BY <2>1, <2>2
<1> QED  BY <1>4, <1>5, <1>6, <1>7

LEMMA SessionPool ==
  ASSUME PoolInv, TypeOK', "race" \notin Faults, NEW t \in Tenant, Session(t)
  PROVE  PoolInv'
<1> USE DEF PoolInv
<1>i. \A n \in Live(t) : /\ n \in Node /\ node[n].exists /\ node[n].tenant = t
                         /\ ~node[n].decomissioned /\ t # NoTenant
                         /\ Live(t) \subseteq {n}
  BY NodePoolAssumption DEF Live, OneLive
<1>d. ASSUME Done(t), node' = node, wallet' = wallet PROVE PoolInv'
  <2>1. request'[t].step = "idle" /\ \A u \in Tenant \ {t} : request'[u] = request[u]
    BY <1>d DEF Done, TypeOK, Idle
  <2> QED  BY <1>d, <2>1, RequestStep DEF Changing
<1>g. ASSUME NEW s \in Steps, NEW n \in Node \cup {NoNode}, Goes(t, s, n)
      PROVE  /\ request'[t].step = s /\ request'[t].node = n
             /\ \A u \in Tenant \ {t} : request'[u] = request[u]
  BY <1>g DEF Goes, TypeOK
<1>1. CASE Claim(t)
  <2>1. /\ request'[t].step = "find"
        /\ \A u \in Tenant \ {t} : request'[u] = request[u]
    BY <1>1, <1>g DEF Claim, Steps
  <2>2. Live(t) = {} /\ \A u \in Tenant \ {t} : request[u].step \notin Changing
    BY <1>1 DEF Claim, Alone, Changing
  <2> QED  BY <1>1, <2>1, <2>2, RequestStep DEF Claim
<1>2. CASE FindUnclaimed(t)
  <2>1. CASE Done(t)  BY <1>2, <1>d, <2>1 DEF FindUnclaimed
  <2>2. ASSUME NEW n \in Unclaimed, Goes(t, "assign", n) PROVE PoolInv'
    <3>1. n \in Node /\ node[n].exists /\ node[n].tenant = NoTenant
      BY DEF Unclaimed
    <3>2. /\ request'[t].step = "assign" /\ request'[t].node = n
          /\ \A u \in Tenant \ {t} : request'[u] = request[u]
      BY <1>g, <2>2, <3>1 DEF Steps
    <3>3. Live(t) = {} /\ \A u \in Tenant \ {t} : request[u].step \notin Changing
      BY <1>2 DEF FindUnclaimed, RequestOK, Exclusive, Changing
    <3> QED  BY <1>2, <3>1, <3>2, <3>3, RequestStep DEF FindUnclaimed
  <2> QED  BY <1>2, <2>1, <2>2 DEF FindUnclaimed
<1>3. CASE Assign(t)  BY <1>3, AssignPool
<1>4. CASE OpenSetup(t)
  <2>1. PICK n \in Live(t) :
          \/ OnboardingStep(n) = "NodeNotInitialized" /\ Goes(t, "init", n)
          \/ OnboardingStep(n) = "NoReadOnlyMac" /\ Goes(t, "register", n)
    BY <1>4 DEF OpenSetup
  <2>2. node' = node /\ wallet' = wallet  BY <1>4 DEF OpenSetup
  <2>3. CASE Goes(t, "init", n)
    <3>1. /\ request'[t].step = "init" /\ request'[t].node = n
          /\ \A u \in Tenant \ {t} : request'[u] = request[u]
      BY <1>g, <1>i, <2>3 DEF Steps
    <3> QED  BY <1>i, <2>2, <3>1, RequestStep DEF Changing
  <2>4. CASE OnboardingStep(n) = "NoReadOnlyMac" /\ Goes(t, "register", n)
    <3>1. /\ request'[t].step = "register" /\ request'[t].node = n
          /\ \A u \in Tenant \ {t} : request'[u] = request[u]
      BY <1>g, <1>i, <2>4 DEF Steps
    <3>2. node[n].macaroonId  BY <2>4 DEF OnboardingStep
    <3>3. wallet[n].owner = t  BY <3>2 DEF WalletIsOwn
    <3> QED  BY <1>i, <2>2, <3>1, <3>3, RequestStep DEF Changing
  <2> QED  BY <2>1, <2>3, <2>4
<1>5. CASE InitWallet(t)  BY <1>5, InitWalletPool
<1>6. CASE StoreMacaroon(t)
  <2> DEFINE n == request[t].node
  <2>0. /\ n \in Node /\ node[n].tenant = t /\ wallet[n].owner = t /\ Live(t) \subseteq {n}
        /\ wallet' = wallet /\ request[t].step = "macaroon"
    BY <1>6 DEF StoreMacaroon, RequestOK
  <2>1. CASE Done(t) /\ node' = node  BY <1>d, <2>0, <2>1
  <2>2. CASE /\ node' = [node EXCEPT ![n].macaroonId = TRUE]
             /\ Goes(t, "register", n) /\ n \in Live(t)
    <3>1. \A u \in Tenant : request'[u] = request[u]
                              \/ /\ request[u].step = "macaroon"
                                 /\ request'[u] = [step |-> "register", node |-> request[u].node]
      BY <2>0, <2>2 DEF Goes, TypeOK
    <3>2. /\ \A m \in Node \ {n} : node'[m] = node[m]
          /\ node'[n].exists = node[n].exists /\ node'[n].tenant = node[n].tenant
          /\ node'[n].decomissioned = node[n].decomissioned
      BY <2>0, <2>2 DEF TypeOK, Doc
    <3>3. node[n].tenant # NoTenant  BY <1>i, <2>2
    <3> QED  BY <2>0, <3>1, <3>2, <3>3, FieldStep
  <2> QED  BY <1>6, <2>0, <2>1, <2>2 DEF StoreMacaroon
<1>7. CASE Register(t)
  <2> DEFINE n == request[t].node
  <2>0. /\ n \in Node /\ node[n].tenant = t /\ wallet[n].owner = t
        /\ wallet' = wallet /\ Done(t) /\ t # NoTenant
    BY <1>7, NodePoolAssumption DEF Register, RequestOK
  <2>1. CASE node' = node  BY <1>d, <2>0, <2>1
  <2>2. CASE node' = [node EXCEPT ![n].registered = TRUE]
    <3>1. \A u \in Tenant : request'[u] = request[u] \/ request'[u] = Idle
      BY <2>0 DEF Done, TypeOK
    <3>2. /\ \A m \in Node \ {n} : node'[m] = node[m]
          /\ node'[n].exists = node[n].exists /\ node'[n].tenant = node[n].tenant
          /\ node'[n].decomissioned = node[n].decomissioned
      BY <2>0, <2>2 DEF TypeOK, Doc
    <3> QED  BY <2>0, <3>1, <3>2, FieldStep
  <2> QED  BY <1>7, <2>1, <2>2 DEF Register
<1>8. CASE LeaveSetup(t)  BY <1>8, <1>d DEF LeaveSetup
<1>9. CASE OpenChannel(t)
  <2>1. PICK n \in Live(t) : Goes(t, "record", n)  BY <1>9 DEF OpenChannel
  <2>2. /\ request'[t].step = "record"
        /\ \A u \in Tenant \ {t} : request'[u] = request[u]
    BY <1>g, <1>i, <2>1 DEF Steps
  <2> QED  BY <1>9, <2>2, RequestStep DEF OpenChannel, Changing
<1>10. CASE RecordChannel(t)
  <2>0. wallet' = wallet /\ Done(t)  BY <1>10 DEF RecordChannel
  <2>1. CASE node' = node  BY <1>d, <2>0, <2>1
  <2>2. ASSUME NEW n \in Live(t), NEW c \in On(n, {"pending"}),
               node' = [node EXCEPT ![n].incoming = c]
        PROVE  PoolInv'
    <3>1. \A u \in Tenant : request'[u] = request[u] \/ request'[u] = Idle
      BY <2>0 DEF Done, TypeOK
    <3>2. /\ \A m \in Node \ {n} : node'[m] = node[m]
          /\ node'[n].exists = node[n].exists /\ node'[n].tenant = node[n].tenant
          /\ node'[n].decomissioned = node[n].decomissioned
          /\ node'[n].macaroonId = node[n].macaroonId
          /\ node'[n].registered = node[n].registered
      BY <1>i, <2>2 DEF TypeOK, Doc
    <3> QED  BY <1>i, <2>0, <3>1, <3>2, FieldStep
  <2> QED  BY <1>10, <2>1, <2>2 DEF RecordChannel
<1>11. CASE Reset(t)  BY <1>11, ResetPool
<1>12. CASE Wipe(t)  BY <1>12, WipePool
<1>13. CASE Subscribe(t)  BY <1>13, PoolKept DEF Subscribe
<1>14. CASE CancelService(t)
  <2>1. /\ request'[t].step = "schedule"
        /\ \A u \in Tenant \ {t} : request'[u] = request[u]
    BY <1>14, <1>g DEF CancelService, Steps
  <2> QED  BY <1>14, <2>1, RequestStep DEF CancelService, Changing
<1>15. CASE ScheduleTermination(t)  BY <1>15, <1>d DEF ScheduleTermination
<1> QED
  BY <1>1, <1>2, <1>3, <1>4, <1>5, <1>6, <1>7, <1>8, <1>9, <1>10, <1>11, <1>12,
     <1>13, <1>14, <1>15 DEF Session

LEMMA StepPool ==
  ASSUME PoolInv, [Next]_vars, "race" \notin Faults
  PROVE  PoolInv'
<1>0. TypeOK'  BY StepTyped DEF PoolInv
<1>1. CASE CountPool  BY <1>0, <1>1, PoolKept DEF CountPool
<1>2. CASE Ask  BY <1>0, <1>2, PoolKept DEF Ask
<1>3. ASSUME NEW n \in Node, Provisioned(n) PROVE PoolInv'
  BY <1>0, <1>3, ProvisionedPool
<1>4. ASSUME NEW n \in Node, Withdraw(n) PROVE PoolInv'
  <2>1. \A m \in Node : wallet'[m].owner = wallet[m].owner
    BY <1>4 DEF Withdraw, PoolInv, TypeOK, Wallet
  <2> QED  BY <1>0, <1>4, <2>1, PoolKept DEF Withdraw
<1>5. ASSUME NEW n \in Node, Decomission(n) PROVE PoolInv'
  <2>1. /\ node' = [node EXCEPT ![n].decomissioned = TRUE]
        /\ wallet' = wallet /\ request' = request
    BY <1>5 DEF Decomission
  <2>2. /\ \A m \in Node \ {n} : node'[m] = node[m]
        /\ node'[n].exists = node[n].exists /\ node'[n].tenant = node[n].tenant
        /\ node'[n].decomissioned
        /\ node'[n].tier = node[n].tier /\ node'[n].incoming = node[n].incoming
        /\ node'[n].macaroonId = node[n].macaroonId
        /\ node'[n].registered = node[n].registered
    BY <2>1 DEF PoolInv, TypeOK, Doc
  <2>3. node[n].tenant = NoTenant => Clean(node'[n])
    BY <2>2 DEF PoolInv, PoolClean, Clean
  <2> QED  BY <1>0, <2>1, <2>2, <2>3, FieldStep
<1>6. ASSUME NEW c \in Channel, ChannelMoves(c) PROVE PoolInv'
  <2>1. \A m \in Node : wallet'[m].owner = wallet[m].owner
    BY <1>6 DEF ChannelMoves, PoolInv, TypeOK, Wallet
  <2> QED  BY <1>0, <1>6, <2>1, PoolKept DEF ChannelMoves
<1>7. ASSUME NEW t \in Tenant, CheckTermination(t) PROVE PoolInv'
  BY <1>0, <1>7, PoolKept DEF CheckTermination
<1>8. ASSUME NEW t \in Tenant, Terminate(t) PROVE PoolInv'
  BY <1>0, <1>8, PoolKept DEF Terminate
<1>9. CASE UNCHANGED vars  BY <1>0, <1>9, PoolKept DEF vars
<1> QED
  BY <1>0, <1>1, <1>2, <1>3, <1>4, <1>5, <1>6, <1>7, <1>8, <1>9, SessionPool DEF Next

(* Without overlapping claims, everything a step relies on holds.           *)
LEMMA PoolInvariant ==
  ASSUME "race" \notin Faults
  PROVE  Spec => []PoolInv
BY InitPool, StepPool, PTL DEF Spec

(* A tenant never holds two nodes that are in service.                      *)
THEOREM OneNode ==
  ASSUME "race" \notin Faults
  PROVE  Spec => []OneNodePerTenant
<1>1. PoolInv => OneNodePerTenant
  <2> SUFFICES ASSUME PoolInv, NEW t \in Tenant PROVE Cardinality(Live(t)) <= 1
    BY DEF OneNodePerTenant
  <2>1. CASE Live(t) = {}  BY <2>1, FS_EmptySet
  <2>2. ASSUME NEW n \in Live(t) PROVE Cardinality(Live(t)) <= 1
    <3>1. Live(t) = {n}  BY DEF PoolInv, OneLive
    <3>2. Cardinality({n}) = 1  BY FS_Singleton, Zenon
    <3> QED  BY <3>1, <3>2
  <2>3. CASE Live(t) # {}  BY <2>2, <2>3
  <2> QED  BY <2>1, <2>3
<1> QED  BY <1>1, PoolInvariant, PTL

(* The macaroons kept for a tenant open the wallet that tenant initialised, *)
(* through any resets, failed wipes and abandoned setups.                   *)
THEOREM WalletsAreOwn ==
  ASSUME "race" \notin Faults
  PROVE  Spec => []WalletIsOwn
<1>1. PoolInv => WalletIsOwn  BY DEF PoolInv
<1> QED  BY <1>1, PoolInvariant, PTL

(* The nodes the hourly task counts are those a claim finds.                *)
THEOREM PoolIsClaimable ==
  ASSUME "race" \notin Faults
  PROVE  Spec => []CountedIsClaimable
<1>1. PoolInv => CountedIsClaimable
  BY DEF PoolInv, PoolClean, Clean, CountedIsClaimable, Counted, Unclaimed
<1> QED  BY <1>1, PoolInvariant, PTL

(* No step hands the node of one tenant to another.                         *)
THEOREM ClaimsAreExclusive ==
  ASSUME "race" \notin Faults
  PROVE  Spec => ClaimIsExclusive
<1> DEFINE Kept ==
      \A n \in Node : node[n].tenant # NoTenant => node'[n].tenant \in {node[n].tenant, NoTenant}
<1>1. PoolInv /\ PoolInv' /\ [Next]_vars => [Kept]_vars
  <2> SUFFICES ASSUME PoolInv, [Next]_vars, NEW n \in Node, node[n].tenant # NoTenant
               PROVE  node'[n].tenant \in {node[n].tenant, NoTenant}
    OBVIOUS
  <2> USE DEF PoolInv
  <2>1. CASE node' = node  BY <2>1
  <2>2. ASSUME NEW m \in Node, Provisioned(m)
        PROVE  node'[n].tenant \in {node[n].tenant, NoTenant}
    BY <2>2 DEF Provisioned, TypeOK, FreshDoc
  <2>3. ASSUME NEW m \in Node, Decomission(m)
        PROVE  node'[n].tenant = node[n].tenant
    BY <2>3 DEF Decomission, TypeOK, Doc
  <2>4. ASSUME NEW t \in Tenant, Session(t)
        PROVE  node'[n].tenant \in {node[n].tenant, NoTenant}
    <3>1. CASE Assign(t)
      <4>1. request[t].node # n  BY <3>1 DEF Assign, RequestOK
      <4> QED  BY <3>1, <4>1 DEF Assign, TypeOK
    <3>2. CASE StoreMacaroon(t)  BY <3>2 DEF StoreMacaroon, TypeOK, Doc
    <3>3. CASE Register(t)  BY <3>3 DEF Register, TypeOK, Doc
    <3>4. CASE RecordChannel(t)  BY <3>4 DEF RecordChannel, TypeOK, Doc
    <3>5. CASE Reset(t)
      <4>1. PICK m \in Node : node' = [node EXCEPT ![m] = Cleared(@)]
        BY <3>5 DEF Reset
      <4> QED  BY <4>1, ClearedIsDoc DEF TypeOK
    <3>6. \/ node' = node
          \/ Assign(t) \/ StoreMacaroon(t) \/ Register(t) \/ RecordChannel(t) \/ Reset(t)
      BY <2>4 DEF Session, Claim, FindUnclaimed, OpenSetup, InitWallet, LeaveSetup,
                  OpenChannel, Wipe, Subscribe, CancelService, ScheduleTermination
    <3> QED  BY <2>1, <3>1, <3>2, <3>3, <3>4, <3>5, <3>6
  <2>5. \/ node' = node
        \/ \E m \in Node : Provisioned(m) \/ Decomission(m)
        \/ \E t \in Tenant : Session(t)
    BY DEF Next, vars, CountPool, Ask, Withdraw, ChannelMoves, CheckTermination, Terminate
  <2> QED  BY <2>1, <2>2, <2>3, <2>4, <2>5
<1> QED  BY <1>1, PoolInvariant, PTL DEF Spec, ClaimIsExclusive

-----------------------------------------------------------------------------
(* The channels BENs open to a node, where claims do not race, no peer goes *)
(* offline and LND answers.                                                 *)

Open(n) == On(n, {"pending", "active", "inactive"})

OneOpen == \A n \in Node : \A c, d \in Open(n) : c = d
NeverInactive == \A c \in Channel : chan[c].status # "inactive"

(* A node gets a channel after its wallet, its macaroon and its public key. *)
WalletFirst == \A n \in Node : wallet[n].owner = NoTenant => Open(n) = {}
SetupFirst == \A n \in Node : node[n].macaroonId /\ ~node[n].registered => Open(n) = {}
NoneInSetup ==
  \A t \in Tenant : request[t].step \in {"macaroon", "register"} => Open(request[t].node) = {}

(* A channel that is opening is the one in the document, or will be before  *)
(* the tenant's next request.                                               *)
Ready(doc) == doc.macaroonId /\ doc.registered /\ ~doc.decomissioned
Recording(n) == \E t \in Tenant : node[n].tenant = t /\ request[t].step = "record"
PendingKnown ==
  \A n \in Node : Ready(node[n]) =>
    \A c \in On(n, {"pending"}) : node[n].incoming = c \/ Recording(n)

ChannelInv ==
  OneOpen /\ NeverInactive /\ WalletFirst /\ SetupFirst /\ NoneInSetup /\ PendingKnown

LEMMA InitChannels == Init => ChannelInv
<1> SUFFICES ASSUME Init PROVE ChannelInv  OBVIOUS
<1>1. \A c \in Channel : chan[c].status = "unused"  BY DEF Init
<1>2. \A n : Open(n) = {} /\ On(n, {"pending"}) = {}  BY <1>1 DEF Open, On
<1>3. NeverInactive  BY <1>1 DEF NeverInactive
<1> QED
  BY <1>2, <1>3 DEF ChannelInv, OneOpen, WalletFirst, SetupFirst, NoneInSetup, PendingKnown

(* Steps that leave the channels.                                           *)
LEMMA SameChannels ==
  ASSUME ChannelInv, chan' = chan,
         \A n \in Node : wallet'[n].owner = NoTenant => wallet[n].owner = NoTenant,
         \A n \in Node : node'[n].macaroonId /\ ~node'[n].registered =>
           Open(n) = {} \/ (node[n].macaroonId /\ ~node[n].registered),
         \A n \in Node : Ready(node'[n]) =>
           \A c \in On(n, {"pending"}) : node'[n].incoming = c \/ Recording(n)',
         \A t \in Tenant : request'[t].step \in {"macaroon", "register"} =>
           Open(request'[t].node) = {}
  PROVE  ChannelInv'
<1>1. \A n, S : On(n, S)' = On(n, S)  BY DEF On
<1>2. \A n : Open(n)' = Open(n)  BY <1>1 DEF Open
<1>3. OneOpen' /\ NeverInactive'  BY <1>2 DEF ChannelInv, OneOpen, NeverInactive
<1>4. WalletFirst'  BY <1>2 DEF ChannelInv, WalletFirst
<1>5. SetupFirst'  BY <1>2 DEF ChannelInv, SetupFirst
<1>6. NoneInSetup'  BY DEF NoneInSetup, Open, On
<1>7. PendingKnown'
  <2> SUFFICES ASSUME NEW n \in Node, Ready(node'[n]), NEW c \in On(n, {"pending"})'
               PROVE  node'[n].incoming = c \/ Recording(n)'
    BY DEF PendingKnown, Ready
  <2> QED  BY <1>1
<1> QED  BY <1>3, <1>4, <1>5, <1>6, <1>7 DEF ChannelInv

(* Steps of a request that leave the documents and the channels.            *)
LEMMA SameDocuments ==
  ASSUME ChannelInv, chan' = chan, node' = node,
         \A n \in Node : wallet'[n].owner = NoTenant => wallet[n].owner = NoTenant,
         NEW t \in Tenant, \A u \in Tenant \ {t} : request'[u] = request[u],
         request[t].step # "record",
         request'[t].step \in {"macaroon", "register"} => Open(request'[t].node) = {}
  PROVE  ChannelInv'
<1>1. \A n \in Node : Recording(n) => Recording(n)'  BY DEF Recording
<1>2. \A n \in Node : Ready(node'[n]) =>
        \A c \in On(n, {"pending"}) : node'[n].incoming = c \/ Recording(n)'
  BY <1>1 DEF ChannelInv, PendingKnown
<1>3. \A u \in Tenant : request'[u].step \in {"macaroon", "register"} =>
        Open(request'[u].node) = {}
  BY DEF ChannelInv, NoneInSetup
<1> QED  BY <1>2, <1>3, SameChannels

(* Steps that write to one document of a node, and end or go on with the    *)
(* request of its tenant.                                                   *)
LEMMA DocumentStep ==
  ASSUME ChannelInv, chan' = chan, wallet' = wallet,
         NEW n \in Node, \A m \in Node \ {n} : node'[m] = node[m],
         node'[n].macaroonId /\ ~node'[n].registered =>
           Open(n) = {} \/ (node[n].macaroonId /\ ~node[n].registered),
         Ready(node'[n]) =>
           \A c \in On(n, {"pending"}) : node'[n].incoming = c \/ Recording(n)',
         \A u \in Tenant : request[u].step = "record" => request'[u].step = "record",
         \A u \in Tenant : request'[u].step \in {"macaroon", "register"} =>
           Open(request'[u].node) = {}
  PROVE  ChannelInv'
<1>1. \A m \in Node \ {n} : Recording(m) => Recording(m)'  BY DEF Recording
<1>2. \A m \in Node : Ready(node'[m]) =>
        \A c \in On(m, {"pending"}) : node'[m].incoming = c \/ Recording(m)'
  BY <1>1 DEF ChannelInv, PendingKnown
<1> QED  BY <1>2, SameChannels

(* A second channel would need the first to be neither open nor known.      *)
LEMMA OpenChannelKeeps ==
  ASSUME PoolInv, ChannelInv, NEW t \in Tenant, OpenChannel(t)
  PROVE  ChannelInv'
<1> USE DEF PoolInv
<1>0. PICK n \in Live(t), c \in Channel :
        /\ OnboardingStep(n) = "NoInboundChannelOpened"
        /\ chan[c].status = "unused"
        /\ chan' = [chan EXCEPT ![c] = [node |-> n, status |-> "pending"]]
        /\ request' = [request EXCEPT ![t] = [step |-> "record", node |-> n]]
        /\ node' = node /\ wallet' = wallet /\ request[t] = Idle
  BY DEF OpenChannel, Goes
<1>1. n \in Node /\ node[n].tenant = t  BY DEF Live
<1>2. /\ wallet[n].owner # NoTenant /\ node[n].macaroonId /\ node[n].registered
      /\ On(n, {"active"}) = {} /\ node[n].incoming \notin On(n, {"pending"})
  <2> DEFINE w == wallet[n].owner = NoTenant
             m == node[n].macaroonId
             r == node[n].registered
             p == node[n].incoming \in On(n, {"pending"})
             a == On(n, {"active"}) = {}
  <2>1. (IF w THEN "NodeNotInitialized" ELSE IF ~m THEN "NoAdminMacInNodeDoc"
         ELSE IF ~r THEN "NoReadOnlyMac" ELSE IF p THEN "InboundChannelOpening"
         ELSE IF a THEN "NoInboundChannelOpened" ELSE "ImDoingGood") = "NoInboundChannelOpened"
    BY <1>0 DEF OnboardingStep
  <2> HIDE DEF w, m, r, p, a
  <2>2. ~w /\ m /\ r /\ ~p /\ a  BY <2>1
  <2> QED  BY <2>2 DEF w, m, r, p, a
<1>3. Open(n) = {}
  <2>1. Ready(node[n])  BY <1>2 DEF Ready, Live
  <2>2. ~Recording(n)  BY <1>0, <1>1 DEF Recording, Idle
  <2>3. On(n, {"pending"}) = {}
    BY <1>1, <1>2, <2>1, <2>2 DEF ChannelInv, PendingKnown
  <2> QED  BY <1>2, <2>3 DEF Open, On, ChannelInv, NeverInactive
<1>4. /\ chan'[c].node = n /\ chan'[c].status = "pending"
      /\ \A d \in Channel \ {c} : chan'[d] = chan[d]
  BY <1>0 DEF TypeOK
<1>5. Open(n)' = {c} /\ \A m \in Node \ {n} : Open(m)' \subseteq Open(m)
  BY <1>3, <1>4 DEF Open, On
<1>6. \A m \in Node \ {n} : On(m, {"pending"})' \subseteq On(m, {"pending"})
  BY <1>4 DEF On
<1>7. /\ request'[t].step = "record"
      /\ \A u \in Tenant \ {t} : request'[u] = request[u]
  BY <1>0 DEF TypeOK
<1>8. OneOpen'  BY <1>5 DEF ChannelInv, OneOpen
<1>9. NeverInactive'  BY <1>4 DEF ChannelInv, NeverInactive
<1>10. WalletFirst' /\ SetupFirst'
  BY <1>0, <1>2, <1>5 DEF ChannelInv, WalletFirst, SetupFirst
<1>11. NoneInSetup'
  <2> SUFFICES ASSUME NEW u \in Tenant, request'[u].step \in {"macaroon", "register"}
               PROVE  Open(request[u].node)' = {}
    BY DEF NoneInSetup
  <2>1. u # t /\ request'[u] = request[u]  BY <1>7
  <2>2. PICK m \in Node \ {n} : m = request[u].node /\ Open(m) = {}
    BY <1>1, <2>1 DEF RequestOK, ChannelInv, NoneInSetup
  <2>3. Open(m)' = {}  BY <1>5, <2>2
  <2> QED  BY <2>1, <2>2, <2>3 DEF Open, On
<1>12. PendingKnown'
  <2> SUFFICES ASSUME NEW m \in Node, Ready(node'[m]), NEW d \in On(m, {"pending"})'
               PROVE  node'[m].incoming = d \/ Recording(m)'
    BY DEF PendingKnown, Ready
  <2>1. CASE m = n
    <3>1. node'[n].tenant = t  BY <1>0, <1>1
    <3> QED  BY <1>7, <2>1, <3>1 DEF Recording
  <2>2. CASE m # n
    <3>1. node[m].incoming = d \/ Recording(m)
      BY <1>0, <1>6, <2>2 DEF ChannelInv, PendingKnown
    <3>2. Recording(m) => Recording(m)'
      BY <1>0, <1>7 DEF Recording, Idle
    <3> QED  BY <1>0, <3>1, <3>2
  <2> QED  BY <2>1, <2>2
<1> QED  BY <1>8, <1>9, <1>10, <1>11, <1>12 DEF ChannelInv

(* The one pending channel of the tenant's node is the one that is stored.  *)
LEMMA RecordChannelKeeps ==
  ASSUME PoolInv, ChannelInv, "silent" \notin Faults, NEW t \in Tenant, RecordChannel(t)
  PROVE  ChannelInv'
<1> USE DEF PoolInv
<1>0. /\ chan' = chan /\ wallet' = wallet
      /\ request' = [request EXCEPT ![t] = Idle]
  BY DEF RecordChannel, Done
<1>1. request'[t].step = "idle" /\ \A u \in Tenant \ {t} : request'[u] = request[u]
  BY <1>0 DEF TypeOK, Idle
<1>2. \A u \in Tenant : request'[u].step \in {"macaroon", "register"} =>
        Open(request'[u].node) = {}
  BY <1>1 DEF ChannelInv, NoneInSetup
<1>3. \A m \in Node : node[m].tenant # t /\ node'[m] = node[m] /\ Recording(m) => Recording(m)'
  BY <1>1 DEF Recording
<1>4. \A m \in Node : Ready(node[m]) /\ node[m].tenant = t => m \in Live(t)
  BY NodePoolAssumption DEF Ready, Live, NewIsFree
<1>5. CASE node' = node /\ \A m \in Live(t) : On(m, {"pending"}) = {}
  <2>1. \A m \in Node : Ready(node'[m]) =>
          \A c \in On(m, {"pending"}) : node'[m].incoming = c \/ Recording(m)'
    BY <1>3, <1>4, <1>5 DEF ChannelInv, PendingKnown
  <2> QED  BY <1>0, <1>2, <1>5, <2>1, SameChannels
<1>6. ASSUME NEW n \in Live(t), NEW c \in On(n, {"pending"}),
             node' = [node EXCEPT ![n].incoming = c]
      PROVE  ChannelInv'
  <2>1. n \in Node /\ node[n].tenant = t  BY DEF Live
  <2>2. /\ node'[n].incoming = c
        /\ node'[n].macaroonId = node[n].macaroonId /\ node'[n].registered = node[n].registered
        /\ \A m \in Node \ {n} : node'[m] = node[m]
    BY <1>6, <2>1 DEF TypeOK, Doc
  <2>3. \A d \in On(n, {"pending"}) : d = c
    BY <2>1 DEF ChannelInv, OneOpen, Open, On
  <2>4. \A m \in Node \ {n} : Ready(node[m]) => node[m].tenant # t
    BY <1>4 DEF OneLive
  <2>5. \A m \in Node : Ready(node'[m]) =>
          \A d \in On(m, {"pending"}) : node'[m].incoming = d \/ Recording(m)'
    BY <1>3, <2>2, <2>3, <2>4 DEF ChannelInv, PendingKnown
  <2> QED  BY <1>0, <1>2, <2>2, <2>5, SameChannels
<1> QED  BY <1>5, <1>6 DEF RecordChannel

(* Wiping a node closes its channels with its wallet.                       *)
LEMMA WipeKeeps ==
  ASSUME PoolInv, ChannelInv, NEW t \in Tenant, Wipe(t)
  PROVE  ChannelInv'
<1> USE DEF PoolInv
<1>n. PICK n \in Node : n = request[t].node  BY DEF Wipe, RequestOK
<1>0. /\ node' = node /\ request[t].step = "wipe"
      /\ request' = [request EXCEPT ![t] = Idle]
  BY DEF Wipe, Done
<1>1. request'[t].step = "idle" /\ \A u \in Tenant \ {t} : request'[u] = request[u]
  BY <1>0 DEF TypeOK, Idle
<1>2. CASE UNCHANGED <<wallet, chan>>  BY <1>0, <1>1, <1>2, SameDocuments
<1>3. CASE /\ wallet' = [wallet EXCEPT ![n] = NoWallet]
           /\ chan' = [c \in Channel |-> IF chan[c].node = n
                                           THEN [chan[c] EXCEPT !.status = "closed"]
                                           ELSE chan[c]]
  <2>1. \A c \in Channel : chan'[c] = chan[c] \/ chan'[c].status = "closed"
    BY <1>3 DEF TypeOK, Chan
  <2>2. \A c \in Channel : chan[c].node = n => chan'[c].status = "closed"
    BY <1>3 DEF TypeOK, Chan
  <2>3. /\ \A m \in Node : Open(m)' \subseteq Open(m)
        /\ \A m \in Node : On(m, {"pending"})' \subseteq On(m, {"pending"})
    BY <2>1 DEF Open, On
  <2>4. Open(n)' = {}  BY <2>1, <2>2 DEF Open, On
  <2>5. \A m \in Node \ {n} : wallet'[m] = wallet[m]  BY <1>3 DEF TypeOK
  <2>6. OneOpen'  BY <2>3 DEF ChannelInv, OneOpen
  <2>7. NeverInactive'  BY <2>1 DEF ChannelInv, NeverInactive
  <2>8. WalletFirst'  BY <2>3, <2>4, <2>5 DEF ChannelInv, WalletFirst
  <2>9. SetupFirst'  BY <1>0, <2>3 DEF ChannelInv, SetupFirst
  <2>10. NoneInSetup'
    <3> SUFFICES ASSUME NEW u \in Tenant, request'[u].step \in {"macaroon", "register"}
                 PROVE  Open(request[u].node)' = {}
      BY DEF NoneInSetup
    <3>1. request'[u] = request[u]  BY <1>1
    <3>2. PICK m \in Node : m = request[u].node /\ Open(m) = {}
      BY <3>1 DEF RequestOK, ChannelInv, NoneInSetup
    <3>3. Open(m)' = {}  BY <2>3, <3>2
    <3> QED  BY <3>1, <3>2, <3>3 DEF Open, On
  <2>11. PendingKnown'
    <3>1. \A m \in Node : Recording(m) => Recording(m)'  BY <1>0, <1>1 DEF Recording
    <3> SUFFICES ASSUME NEW m \in Node, Ready(node'[m]), NEW c \in On(m, {"pending"})'
                 PROVE  node'[m].incoming = c \/ Recording(m)'
      BY DEF PendingKnown, Ready
    <3> QED  BY <1>0, <2>3, <3>1 DEF ChannelInv, PendingKnown
  <2> QED  BY <2>6, <2>7, <2>8, <2>9, <2>10, <2>11 DEF ChannelInv
<1> QED  BY <1>n, <1>2, <1>3 DEF Wipe

(* No channel is opened by moving: a pending one becomes active, an active  *)
(* one closes.                                                              *)
LEMMA ChannelMovesKeeps ==
  ASSUME PoolInv, ChannelInv, "inactive" \notin Faults, NEW c \in Channel, ChannelMoves(c)
  PROVE  ChannelInv'
<1> USE DEF PoolInv
<1>0. PICK from, to \in ChannelStatus :
        /\ <<from, to>> \in {<<"pending", "active">>, <<"inactive", "active">>, <<"active", "closed">>}
        /\ chan[c].status = from
        /\ chan' = [chan EXCEPT ![c].status = to]
        /\ node' = node /\ request' = request
  BY DEF ChannelMoves
<1>1. /\ chan'[c].node = chan[c].node /\ chan'[c].status = to
      /\ \A d \in Channel \ {c} : chan'[d] = chan[d]
  BY <1>0 DEF TypeOK, Chan
<1>2. /\ from \in {"pending", "active", "inactive"} /\ to \in {"active", "closed"}
  BY <1>0
<1>3. \A n \in Node : wallet'[n].owner = wallet[n].owner
  BY DEF ChannelMoves, TypeOK, Wallet
<1>4. /\ \A n : Open(n)' \subseteq Open(n)
      /\ \A n : On(n, {"pending"})' \subseteq On(n, {"pending"})
  BY <1>0, <1>1, <1>2 DEF Open, On
<1>5. NeverInactive'  BY <1>1, <1>2 DEF ChannelInv, NeverInactive
<1>6. OneOpen'  BY <1>4 DEF ChannelInv, OneOpen
<1>7. WalletFirst' /\ SetupFirst'  BY <1>0, <1>3, <1>4 DEF ChannelInv, WalletFirst, SetupFirst
<1>8. NoneInSetup'
  <2> SUFFICES ASSUME NEW t \in Tenant, request'[t].step \in {"macaroon", "register"}
               PROVE  Open(request[t].node)' = {}
    BY DEF NoneInSetup
  <2>1. request'[t] = request[t] /\ Open(request[t].node) = {}
    BY <1>0 DEF ChannelInv, NoneInSetup
  <2>2. PICK n : n = request[t].node  OBVIOUS
  <2>3. Open(n)' = {}  BY <1>4, <2>1, <2>2
  <2> QED  BY <2>1, <2>2, <2>3 DEF Open, On
<1>9. PendingKnown'
  <2>1. \A n : Recording(n)' = Recording(n)  BY <1>0 DEF Recording
  <2> SUFFICES ASSUME NEW n \in Node, Ready(node'[n]), NEW d \in On(n, {"pending"})'
               PROVE  node'[n].incoming = d \/ Recording(n)'
    BY DEF PendingKnown, Ready
  <2> QED  BY <1>0, <1>4, <2>1 DEF ChannelInv, PendingKnown
<1> QED  BY <1>5, <1>6, <1>7, <1>8, <1>9 DEF ChannelInv

LEMMA SessionChannels ==
  ASSUME PoolInv, ChannelInv, "silent" \notin Faults, NEW t \in Tenant, Session(t)
  PROVE  ChannelInv'
<1> USE DEF PoolInv
<1>d. ASSUME NEW w, request' = [request EXCEPT ![t] = w]
      PROVE  request'[t] = w /\ \A u \in Tenant \ {t} : request'[u] = request[u]
  BY <1>d DEF TypeOK
<1>e. ASSUME Done(t)
      PROVE  request'[t].step = "idle" /\ \A u \in Tenant \ {t} : request'[u] = request[u]
  BY <1>d, <1>e DEF Done, Idle
<1>n. ASSUME \A u \in Tenant \ {t} : request'[u] = request[u],
             request'[t].step \notin {"macaroon", "register"}
      PROVE  \A u \in Tenant : request'[u].step \in {"macaroon", "register"} =>
               Open(request'[u].node) = {}
  BY <1>n DEF ChannelInv, NoneInSetup
<1>1. CASE Claim(t)
  <2>1. request'[t].step = "find" /\ \A u \in Tenant \ {t} : request'[u] = request[u]
    BY <1>1, <1>d DEF Claim, Goes
  <2> QED  BY <1>1, <2>1, SameDocuments DEF Claim, Idle
<1>2. CASE FindUnclaimed(t)
  <2>1. /\ request'[t].step \in {"idle", "assign"}
        /\ \A u \in Tenant \ {t} : request'[u] = request[u]
    BY <1>2, <1>d, <1>e DEF FindUnclaimed, Goes
  <2> QED  BY <1>2, <2>1, SameDocuments DEF FindUnclaimed
<1>3. CASE Assign(t)
  <2>0. PICK n \in Node : n = request[t].node  BY <1>3 DEF Assign, RequestOK
  <2>1. /\ node' = [node EXCEPT ![n].tenant = t, ![n].tier = TRUE]
        /\ ~node[n].macaroonId /\ request[t].step = "assign" /\ Done(t)
    BY <1>3, <2>0 DEF Assign, RequestOK, PoolClean, Clean
  <2>2. /\ \A m \in Node \ {n} : node'[m] = node[m]
        /\ ~node'[n].macaroonId
    <3>0. node[n] \in Doc  BY DEF TypeOK
    <3>1. /\ node'[n] = [node[n] EXCEPT !.tenant = t, !.tier = TRUE]
          /\ \A m \in Node \ {n} : node'[m] = node[m]
      BY <2>1 DEF TypeOK
    <3>2. [node[n] EXCEPT !.tenant = t, !.tier = TRUE].macaroonId = node[n].macaroonId
      BY <3>0 DEF Doc
    <3> QED  BY <2>1, <3>1, <3>2
  <2>3. request'[t].step = "idle" /\ \A u \in Tenant \ {t} : request'[u] = request[u]
    BY <1>e, <2>1
  <2>4. \A u \in Tenant : request'[u].step \in {"macaroon", "register"} =>
               Open(request'[u].node) = {}
    BY <1>n, <2>3
  <2>5. \A u \in Tenant : request[u].step = "record" => request'[u].step = "record"
    BY <2>1, <2>3
  <2> QED  BY <1>3, <2>2, <2>4, <2>5, DocumentStep DEF Assign, Ready
<1>4. CASE OpenSetup(t)
  <2>1. PICK n \in Live(t) :
          \/ OnboardingStep(n) = "NodeNotInitialized" /\ Goes(t, "init", n)
          \/ OnboardingStep(n) = "NoReadOnlyMac" /\ Goes(t, "register", n)
    BY <1>4 DEF OpenSetup
  <2>2. CASE Goes(t, "init", n)
    <3>1. request'[t].step = "init" /\ \A u \in Tenant \ {t} : request'[u] = request[u]
      BY <1>d, <2>2 DEF Goes
    <3> QED  BY <1>4, <3>1, SameDocuments DEF OpenSetup, Idle
  <2>3. CASE OnboardingStep(n) = "NoReadOnlyMac" /\ Goes(t, "register", n)
    <3>1. /\ request'[t] = [step |-> "register", node |-> n]
          /\ \A u \in Tenant \ {t} : request'[u] = request[u]
      BY <1>d, <2>3 DEF Goes
    <3>2. n \in Node /\ node[n].macaroonId /\ ~node[n].registered
      <4>1. n \in Node  BY DEF Live
      <4>2. OnboardingStep(n) = "NoReadOnlyMac"  BY <2>3
      <4>3. node[n].macaroonId  BY <4>2 DEF OnboardingStep
      <4>4. ~node[n].registered  BY <4>2 DEF OnboardingStep
      <4> QED  BY <4>1, <4>3, <4>4
    <3>3. Open(n) = {}  BY <3>2 DEF ChannelInv, SetupFirst
    <3> QED  BY <1>4, <3>1, <3>3, SameDocuments DEF OpenSetup, Idle
  <2> QED  BY <2>1, <2>2, <2>3
<1>5. CASE InitWallet(t)
  <2>0. PICK n \in Node : n = request[t].node  BY <1>5 DEF InitWallet, RequestOK
  <2>1. CASE wallet[n].owner = NoTenant
    <3>1. /\ wallet' = [wallet EXCEPT ![n].owner = t]
          /\ request' = [request EXCEPT ![t] = [step |-> "macaroon", node |-> n]]
      BY <1>5, <2>0, <2>1 DEF InitWallet, Goes
    <3>2. /\ request'[t] = [step |-> "macaroon", node |-> n]
          /\ \A u \in Tenant \ {t} : request'[u] = request[u]
      BY <1>d, <3>1
    <3>3. Open(n) = {}  BY <2>1 DEF ChannelInv, WalletFirst
    <3>4. \A m \in Node : wallet'[m].owner = NoTenant => wallet[m].owner = NoTenant
      BY <2>1, <3>1 DEF TypeOK, Wallet
    <3> QED  BY <1>5, <3>2, <3>3, <3>4, SameDocuments DEF InitWallet
  <2>2. CASE wallet[n].owner # NoTenant
    <3>1. wallet' = wallet /\ Done(t)  BY <1>5, <2>0, <2>2 DEF InitWallet
    <3> QED  BY <1>5, <1>e, <3>1, SameDocuments DEF InitWallet
  <2> QED  BY <2>1, <2>2
<1>6. CASE StoreMacaroon(t)
  <2>0. PICK n \in Node : n = request[t].node  BY <1>6 DEF StoreMacaroon, RequestOK
  <2>1. /\ Open(n) = {} /\ Live(t) \subseteq {n} /\ request[t].step = "macaroon"
    BY <1>6, <2>0 DEF StoreMacaroon, RequestOK, ChannelInv, NoneInSetup
  <2>2. CASE Done(t) /\ node' = node
    BY <1>6, <1>e, <2>1, <2>2, SameDocuments DEF StoreMacaroon
  <2>3. CASE node' = [node EXCEPT ![n].macaroonId = TRUE] /\ Goes(t, "register", n)
    <3>1. /\ request'[t] = [step |-> "register", node |-> n]
          /\ \A u \in Tenant \ {t} : request'[u] = request[u]
      BY <1>d, <2>3 DEF Goes
    <3>2. \A u \in Tenant : request'[u].step \in {"macaroon", "register"} =>
            Open(request'[u].node) = {}
      BY <2>1, <3>1 DEF ChannelInv, NoneInSetup
    <3>3. On(n, {"pending"}) = {}  BY <2>1 DEF Open, On
    <3>4. \A m \in Node \ {n} : node'[m] = node[m]  BY <2>3 DEF TypeOK
    <3>5. \A u \in Tenant : request[u].step = "record" => request'[u].step = "record"
      BY <2>1, <3>1
    <3> QED  BY <1>6, <2>1, <3>2, <3>3, <3>4, <3>5, DocumentStep DEF StoreMacaroon
  <2> QED  BY <1>6, <2>0, <2>1, <2>2, <2>3 DEF StoreMacaroon
<1>7. CASE Register(t)
  <2>0. PICK n \in Node : n = request[t].node  BY <1>7 DEF Register, RequestOK
  <2>1. /\ Open(n) = {} /\ request[t].step = "register" /\ Done(t)
    BY <1>7, <2>0 DEF Register, ChannelInv, NoneInSetup
  <2>2. request'[t].step = "idle" /\ \A u \in Tenant \ {t} : request'[u] = request[u]
    BY <1>e, <2>1
  <2>3. \A u \in Tenant : request'[u].step \in {"macaroon", "register"} =>
          Open(request'[u].node) = {}
    BY <1>n, <2>2
  <2>4. On(n, {"pending"}) = {}  BY <2>1 DEF Open, On
  <2>5. \A m \in Node \ {n} : node'[m] = node[m]  BY <1>7, <2>0 DEF Register, TypeOK
  <2>6. \A u \in Tenant : request[u].step = "record" => request'[u].step = "record"
    BY <2>1, <2>2
  <2> QED  BY <1>7, <2>1, <2>3, <2>4, <2>5, <2>6, DocumentStep DEF Register
<1>8. CASE LeaveSetup(t)  BY <1>8, <1>e, SameDocuments DEF LeaveSetup
<1>9. CASE OpenChannel(t)  BY <1>9, OpenChannelKeeps
<1>10. CASE RecordChannel(t)  BY <1>10, RecordChannelKeeps
<1>11. CASE Reset(t)
  <2>0. PICK n \in Node : /\ node' = [node EXCEPT ![n] = Cleared(@)]
                          /\ request' = [request EXCEPT ![t] = [step |-> "wipe", node |-> n]]
    BY <1>11 DEF Reset, Goes
  <2>1. /\ \A m \in Node \ {n} : node'[m] = node[m]
        /\ ~node'[n].macaroonId
    BY <2>0, ClearedIsDoc DEF TypeOK, Clean
  <2>2. request'[t].step = "wipe" /\ \A u \in Tenant \ {t} : request'[u] = request[u]
    BY <1>d, <2>0
  <2>3. \A u \in Tenant : request'[u].step \in {"macaroon", "register"} =>
          Open(request'[u].node) = {}
    BY <1>n, <2>2
  <2>4. \A u \in Tenant : request[u].step = "record" => request'[u].step = "record"
    BY <1>11, <2>2 DEF Reset, Idle
  <2> QED  BY <1>11, <2>1, <2>3, <2>4, DocumentStep DEF Reset, Ready
<1>12. CASE Wipe(t)  BY <1>12, WipeKeeps
<1>13. CASE UNCHANGED <<node, wallet, chan, request>>
  <2>1. \A n \in Node : Recording(n)' = Recording(n)  BY <1>13 DEF Recording
  <2>2. /\ \A n \in Node : Ready(node'[n]) =>
             \A c \in On(n, {"pending"}) : node'[n].incoming = c \/ Recording(n)'
        /\ \A u \in Tenant : request'[u].step \in {"macaroon", "register"} =>
             Open(request'[u].node) = {}
    BY <1>13, <2>1 DEF ChannelInv, PendingKnown, NoneInSetup
  <2> QED  BY <1>13, <2>2, SameChannels
<1>14. CASE CancelService(t)
  <2>1. request'[t].step = "schedule" /\ \A u \in Tenant \ {t} : request'[u] = request[u]
    BY <1>14, <1>d DEF CancelService, Goes
  <2> QED  BY <1>14, <2>1, SameDocuments DEF CancelService, Idle
<1>15. CASE ScheduleTermination(t)
  BY <1>15, <1>e, SameDocuments DEF ScheduleTermination
<1> QED
  BY <1>1, <1>2, <1>3, <1>4, <1>5, <1>6, <1>7, <1>8, <1>9, <1>10, <1>11, <1>12,
     <1>13, <1>14, <1>15 DEF Session, Subscribe

LEMMA StepChannels ==
  ASSUME PoolInv, ChannelInv, [Next]_vars, Faults = {}
  PROVE  ChannelInv'
<1> USE DEF PoolInv
<1>1. ASSUME chan' = chan, node' = node, request' = request,
             \A n \in Node : wallet'[n].owner = wallet[n].owner
      PROVE  ChannelInv'
  <2>1. \A n \in Node : Recording(n)' = Recording(n)  BY <1>1 DEF Recording
  <2>2. /\ \A n \in Node : Ready(node'[n]) =>
             \A c \in On(n, {"pending"}) : node'[n].incoming = c \/ Recording(n)'
        /\ \A u \in Tenant : request'[u].step \in {"macaroon", "register"} =>
             Open(request'[u].node) = {}
    BY <1>1, <2>1 DEF ChannelInv, PendingKnown, NoneInSetup
  <2> QED  BY <1>1, <2>2, SameChannels
<1>2. ASSUME NEW n \in Node, wallet' = wallet, chan' = chan, request' = request,
             \A m \in Node \ {n} : node'[m] = node[m],
             node'[n].macaroonId => node'[n].decomissioned,
             node'[n].macaroonId /\ ~node'[n].registered => node[n].macaroonId /\ ~node[n].registered
      PROVE  ChannelInv'
  <2>1. \A u \in Tenant : request'[u].step \in {"macaroon", "register"} =>
          Open(request'[u].node) = {}
    BY <1>2 DEF ChannelInv, NoneInSetup
  <2> QED  BY <1>2, <2>1, DocumentStep DEF Ready
<1>3. ASSUME NEW n \in Node, Provisioned(n) PROVE ChannelInv'
  <2>1. /\ \A m \in Node \ {n} : node'[m] = node[m]
        /\ ~node'[n].macaroonId
    BY <1>3 DEF Provisioned, TypeOK, FreshDoc
  <2> QED  BY <1>2, <1>3, <2>1 DEF Provisioned
<1>4. ASSUME NEW n \in Node, Withdraw(n) PROVE ChannelInv'
  <2>1. \A m \in Node : wallet'[m].owner = wallet[m].owner
    BY <1>4 DEF Withdraw, TypeOK, Wallet
  <2> QED  BY <1>1, <1>4, <2>1 DEF Withdraw
<1>5. ASSUME NEW n \in Node, Decomission(n) PROVE ChannelInv'
  <2>1. /\ \A m \in Node \ {n} : node'[m] = node[m]
        /\ node'[n].decomissioned
        /\ node'[n].macaroonId = node[n].macaroonId
        /\ node'[n].registered = node[n].registered
    BY <1>5 DEF Decomission, TypeOK, Doc
  <2> QED  BY <1>2, <1>5, <2>1 DEF Decomission
<1>6. ASSUME NEW c \in Channel, ChannelMoves(c) PROVE ChannelInv'
  BY <1>6, ChannelMovesKeeps
<1>7. ASSUME NEW t \in Tenant, Session(t) PROVE ChannelInv'
  BY <1>7, SessionChannels
<1>8. CASE UNCHANGED <<node, wallet, chan, request>>  BY <1>1, <1>8
<1>9. \/ UNCHANGED <<node, wallet, chan, request>>
      \/ \E n \in Node : Provisioned(n) \/ Withdraw(n) \/ Decomission(n)
      \/ \E c \in Channel : ChannelMoves(c)
      \/ \E t \in Tenant : Session(t)
  BY DEF Next, vars, CountPool, Ask, CheckTermination, Terminate
<1> QED  BY <1>3, <1>4, <1>5, <1>6, <1>7, <1>8, <1>9

(* BENs fund one inbound channel of a node, however its pages, its setup    *)
(* and its resets interleave: the channel is stored before the tenant's     *)
(* next request, and no node has one before its setup is over.              *)
THEOREM OneChannel ==
  ASSUME Faults = {}
  PROVE  Spec => []OneInbound
<1>1. "race" \notin Faults  OBVIOUS
<1>2. ChannelInv => OneInbound
  <2> SUFFICES ASSUME ChannelInv, NEW n \in Node PROVE Cardinality(Open(n)) <= 1
    BY DEF OneInbound, Open
  <2>1. CASE Open(n) = {}  BY <2>1, FS_EmptySet
  <2>2. ASSUME NEW c \in Open(n) PROVE Cardinality(Open(n)) <= 1
    <3>1. Open(n) = {c}  BY DEF ChannelInv, OneOpen
    <3>2. Cardinality({c}) = 1  BY FS_Singleton, Zenon
    <3> QED  BY <3>1, <3>2
  <2> QED  BY <2>1, <2>2
<1>3. PoolInv /\ ChannelInv /\ [Next]_vars => ChannelInv'  BY StepChannels
<1>4. Spec => []PoolInv  BY <1>1, PoolInvariant
<1> QED  BY <1>2, <1>3, <1>4, InitChannels, PTL DEF Spec
=============================================================================
