---------------------------- MODULE CampaignLife ----------------------------
(***************************************************************************)
(* The life of one case in a campaign somebody runs: the life CaseLife     *)
(* promises, and what an operator may do besides.  Taking a case off its   *)
(* node is a hand-back or a giving-up like any other; only a pardon and a  *)
(* deletion are new.  PgQueue is compared with it.                         *)
(***************************************************************************)
EXTENDS CaseLife

(* reopen: a parked case starts over with its budget whole, and so does a  *)
(* pending one that was charged.                                           *)
Pardon ==
  /\ state \in {"pending", "quarantined"} /\ state' = "pending"
  /\ attempts' = 0
  /\ UNCHANGED <<lease, result>>

(* purge: the row is gone, whatever it was.                                *)
Delete ==
  /\ state # "absent"
  /\ state' = "absent" /\ lease' = NoLease /\ attempts' = 0 /\ result' = NoResult

CampaignNext == Next \/ Pardon \/ Delete

CampaignSpec == Init /\ [][CampaignNext]_vars
=============================================================================
