------------------------------ MODULE TaskLog ------------------------------
(***************************************************************************)
(* What the task queue promises to whoever reads its documents: a task is  *)
(* created once, may be deleted once, and its audit trail is a log to      *)
(* which outcomes are only ever appended.  No outcome that was recorded is *)
(* lost or rewritten, however many runners work on the task.               *)
(***************************************************************************)
EXTENDS Naturals, Sequences

CONSTANTS
  Task,       (* the identifiers of tasks                  *)
  Outcome     (* what an entry of the audit trail may hold *)

VARIABLES
  phase,      (* phase[t]: "absent", then "live", then "gone" *)
  log         (* log[t]: the outcomes recorded so far         *)

vars == <<phase, log>>

Init ==
  /\ phase = [t \in Task |-> "absent"]
  /\ log = [t \in Task |-> <<>>]

Create(t) ==
  /\ phase[t] = "absent"
  /\ phase' = [phase EXCEPT ![t] = "live"]
  /\ UNCHANGED log

(* new is old with one outcome more *)
Extends(new, old) ==
  /\ Len(new) = Len(old) + 1
  /\ \A i \in 1 .. Len(old) : new[i] = old[i]
  /\ new[Len(new)] \in Outcome

Record(t) ==
  /\ phase[t] = "live"
  /\ Extends(log'[t], log[t])
  /\ log' = [log EXCEPT ![t] = log'[t]]
  /\ UNCHANGED phase

Delete(t) ==
  /\ phase[t] = "live"
  /\ phase' = [phase EXCEPT ![t] = "gone"]
  /\ UNCHANGED log

Next ==
  \E t \in Task :
    \/ Create(t)
    \/ Delete(t)
    \/ Record(t)

Spec == Init /\ [][Next]_vars
=============================================================================
