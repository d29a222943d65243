---------------------------- MODULE PaymentBook ----------------------------
(***************************************************************************)
(* What a tenant's invoices promise: a payment that arrived is entered in  *)
(* the book, and in one place only.  A later payment of the same invoice   *)
(* may take the place of an earlier one, which is then entered again       *)
(* elsewhere.                                                              *)
(***************************************************************************)
CONSTANT Payment

VARIABLES
  received,   (* the payments that arrived                                  *)
  entered     (* entered[p]: the number of invoices that record p           *)

vars == <<received, entered>>

Init == received = {} /\ entered = [p \in Payment |-> 0]

Receive(p) ==
  /\ p \notin received
  /\ received' = received \cup {p}
  /\ UNCHANGED entered

Enter(p) ==
  /\ p \in received /\ entered[p] = 0
  /\ entered' = [entered EXCEPT ![p] = 1]
  /\ UNCHANGED received

Replace(p, q) ==
  /\ p # q /\ q \in received
  /\ entered[p] = 1 /\ entered[q] = 0
  /\ entered' = [entered EXCEPT ![p] = 0, ![q] = 1]
  /\ UNCHANGED received

Next == \E p \in Payment : Receive(p) \/ Enter(p) \/ \E q \in Payment : Replace(p, q)

Fairness == \A p \in Payment : WF_vars(Enter(p))

Spec == Init /\ [][Next]_vars /\ Fairness
=============================================================================
