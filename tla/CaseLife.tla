------------------------------ MODULE CaseLife ------------------------------
(***************************************************************************)
(* The life of one case, as the broker's users are promised it (the state  *)
(* machine that opens casebroker/db.py): which states follow which, what a *)
(* lease costs, and that a result is the last thing to happen.  CaseQueue  *)
(* is shown to give every case this life.                                  *)
(***************************************************************************)
EXTENDS Integers

CONSTANTS LeaseIds, NoLease, Results, NoResult, MaxAttempts

VARIABLES state, lease, attempts, result

vars == <<state, lease, attempts, result>>

Init ==
  /\ state = "absent" /\ lease = NoLease /\ attempts = 0 /\ result = NoResult

Open == state \in {"pending", "leased"}

(* Of an attempt the case was charged for, the broker may give back one.   *)
Kept == attempts' \in {attempts, attempts - 1} /\ attempts' >= 0

Admit ==
  /\ state = "absent" /\ state' = "pending"
  /\ UNCHANGED <<lease, attempts, result>>

(* A new lease costs an attempt, and there are only MaxAttempts.           *)
Grant ==
  /\ Open /\ state' = "leased"
  /\ lease' \in LeaseIds \ {lease}
  /\ attempts' = attempts + 1 /\ attempts' <= MaxAttempts
  /\ UNCHANGED result

(* The holder starts again under a new lease, at no cost.                  *)
Resume ==
  /\ state = "leased" /\ lease' \in LeaseIds \ {lease}
  /\ UNCHANGED <<state, attempts, result>>

(* Given back by its holder, or taken from it.                             *)
HandBack ==
  /\ state = "leased" /\ state' = "pending"
  /\ lease' = NoLease /\ Kept
  /\ UNCHANGED result

Finish ==
  /\ state = "leased" /\ state' = "done"
  /\ lease' = NoLease /\ result' \in Results
  /\ UNCHANGED attempts

GiveUp ==
  /\ Open /\ state' = "quarantined"
  /\ lease' = NoLease /\ Kept
  /\ UNCHANGED result

Next == Admit \/ Grant \/ Resume \/ HandBack \/ Finish \/ GiveUp

Spec == Init /\ [][Next]_vars
=============================================================================
