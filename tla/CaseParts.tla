----------------------------- MODULE CaseParts -----------------------------
(***************************************************************************)
(* What the database knows of a case's content (casebroker/db.py): the     *)
(* parts its nodes shipped, which of them the broker holds, the receipts   *)
(* of its archive, its residual curves and its pedestrian fields.          *)
(*                                                                         *)
(* A content is its sha256.  Every call is one step on its own tables, as  *)
(* it is on SQLite; PartCustody has the calls that are made in between.    *)
(* A node is the holder of a case while its lease id is the row's; a call  *)
(* under any other lease is answered "gone" and changes nothing.  A        *)
(* completion need not name its archive's hash, and a receipt may be an    *)
(* operator's word: neither is compared with what the broker holds.        *)
(***************************************************************************)
EXTENDS Integers, FiniteSets

CONSTANTS
  Cases, Nodes, NoNode,
  Dirs,              \* the wind directions of a case: its parts beside the mesh
  Shas, NoSha,       \* contents, by hash
  VersionsOf         \* VersionsOf[c][p]: what a node may make as part p of c

Parts  == {"mesh"} \cup Dirs
Blobs  == Parts \cup {"archive"}
Meshes == UNION {VersionsOf[c]["mesh"] : c \in Cases}

ASSUME PartsAssumption ==
  /\ NoNode \notin Nodes /\ NoSha \notin Shas
  /\ Dirs \cap {"mesh", "archive"} = {}
  /\ IsFiniteSet(Dirs)
  /\ VersionsOf \in [Cases -> [Blobs -> SUBSET Shas]]

VARIABLES
  life,     \* the case row: state, lease_worker, result_sha256
  part,     \* case_parts: the hash reported of each part, and its mesh's
  blob,     \* case_blobs: the hash of each part the broker holds
  receipt,  \* case_artifacts: the archive's hash at each location, and whose word
  curve,    \* case_residuals: where each direction's series is from
  field,    \* case_fields: what sent each direction's field
  counted,  \* the telemetry says how many directions the case has
  told      \* (history) directions told of since the work last began afresh

partVars == <<life, part, blob, receipt, curve, field, counted, told>>

Locations == {"master", "broker"}

NoPart    == [sha |-> NoSha, mesh |-> NoSha]
NoReceipt == [sha |-> NoSha, from |-> "none"]
NoCurves  == [d \in Dirs |-> "none"]
Unseen    == [state |-> "pending", holder |-> NoNode, result |-> NoSha]

(* No case has content yet, though some may be done already.               *)
PartsInit ==
  /\ part    = [c \in Cases |-> [p \in Parts |-> NoPart]]
  /\ blob    = [c \in Cases |-> [p \in Blobs |-> NoSha]]
  /\ receipt = [c \in Cases |-> [at \in Locations |-> NoReceipt]]
  /\ curve   = [c \in Cases |-> NoCurves]
  /\ field   = [c \in Cases |-> [d \in Dirs |-> "none"]]
  /\ counted = [c \in Cases |-> FALSE]
  /\ told    = [c \in Cases |-> {}]

-----------------------------------------------------------------------------
(* The queries the calls share.                                            *)

Holds(n, c) == life[c].state = "leased" /\ life[c].holder = n

OnRecord(c, p) == part[c][p].sha # NoSha

MeshAtBroker(c) == OnRecord(c, "mesh") /\ blob[c]["mesh"] = part[c]["mesh"].sha

(* What the broker expects a part to be; NoSha is a refusal (404 or 409).  *)
Expected(c, p) ==
  IF p = "archive"
    THEN IF life[c].state = "done" THEN life[c].result ELSE NoSha
    ELSE part[c][p].sha

ReferencedBlobs == {blob[c][p] : c \in Cases, p \in Blobs} \ {NoSha}

(* Wrong: the receipt is written once the archive itself has arrived.      *)
HeldInFullArchive(c, b) ==
  /\ life[c].state = "done"
  /\ b["archive"] = life[c].result
  /\ b["archive"] # NoSha

(* The broker holds, in b, the archive and every part c has on record.     *)
HeldInFull(c, b) ==
  /\ life[c].state = "done"
  /\ b["archive"] = life[c].result
  /\ b["archive"] # NoSha
  /\ \A p \in Parts : OnRecord(c, p) => b[p] = part[c][p].sha

Wanted(c) == {p \in Blobs : Expected(c, p) # NoSha /\ blob[c][p] # Expected(c, p)}

(* case_custody: all of c is in the broker's own store and database.       *)
CompleteAtBroker(c) ==
  /\ HeldInFull(c, blob[c])
  /\ counted[c] => \A d \in Dirs : field[c][d] # "none"

(* custody: nothing of a done case is missing where results are kept; any  *)
(* receipt will do.                                                        *)
Stored(c) ==
  /\ life[c].state = "done"
  /\ \E at \in Locations : receipt[c][at] # NoReceipt
  /\ \A p \in Parts : OnRecord(c, p) => blob[c][p] = part[c][p].sha
  /\ counted[c] => \A d \in Dirs : field[c][d] # "none"

-----------------------------------------------------------------------------
(* The queue, as far as a case's parts depend on it.                       *)

(* What a node says it can do with a case that has a mesh on record.  One  *)
(* that says nothing is from before parts, and is handed anything.         *)
Sayings == {"from broker", "no", "nothing"}

MayContinue(c, says) ==
  (OnRecord(c, "mesh") /\ says # "nothing") => says = "from broker" /\ MeshAtBroker(c)

Leased(n, c) ==
  life' = [life EXCEPT ![c] = [state |-> "leased", holder |-> n, result |-> NoSha]]

(* Wrong: a claim forgets no curve.                                        *)
ClaimKeeping(n, c, says) ==
  /\ life[c].state = "pending" /\ MayContinue(c, says)
  /\ Leased(n, c)
  /\ counted' = [counted EXCEPT ![c] = FALSE]
  /\ told' = [told EXCEPT ![c] = {}]
  /\ UNCHANGED <<part, blob, receipt, curve, field>>

(* A fresh claim: it forgets the telemetry, and the curves of directions   *)
(* that are not on record.                                                 *)
Claim(n, c, says) ==
  /\ life[c].state = "pending" /\ MayContinue(c, says)
  /\ Leased(n, c)
  /\ counted' = [counted EXCEPT ![c] = FALSE]
  /\ curve' = [curve EXCEPT ![c] =
                 [d \in Dirs |-> IF OnRecord(c, d) THEN curve[c][d] ELSE "none"]]
  /\ told' = [told EXCEPT ![c] = {}]
  /\ UNCHANGED <<part, blob, receipt, field>>

(* A claim of a case the node names itself, its own or one that is free:   *)
(* it forgets nothing, and is asked nothing of the mesh.                   *)
Resume(n, c) ==
  /\ life[c].state = "pending" \/ Holds(n, c)
  /\ Leased(n, c)
  /\ UNCHANGED <<part, blob, receipt, curve, field, counted, told>>

(* The lease is given back, reclaimed or cancelled: what the node shipped  *)
(* stays.                                                                  *)
Unlease(c) ==
  /\ life[c].state = "leased"
  /\ life' = [life EXCEPT ![c] = Unseen]
  /\ UNCHANGED <<part, blob, receipt, curve, field, counted, told>>

(* The hash is the node's to name, or to leave out.                        *)
Finish(n, c, s) ==
  /\ Holds(n, c) /\ s \in VersionsOf[c]["archive"] \cup {NoSha}
  /\ life' = [life EXCEPT ![c] = [state |-> "done", holder |-> NoNode, result |-> s]]
  /\ UNCHANGED <<part, blob, receipt, curve, field, counted, told>>

-----------------------------------------------------------------------------
(* What a node reports while it works.                                     *)

OnlyArchive(b) == [p \in Blobs |-> IF p = "archive" THEN b[p] ELSE NoSha]

(* The mesh.  One that differs from the mesh on record drops every part,   *)
(* every held part but the archive, and every curve of the old one.        *)
ReportMesh(n, c, m) ==
  /\ Holds(n, c)
  /\ LET new == OnRecord(c, "mesh") /\ part[c]["mesh"].sha # m
         old == IF new THEN [p \in Parts |-> NoPart] ELSE part[c]
     IN /\ part' = [part EXCEPT ![c] = [old EXCEPT !["mesh"] = [sha |-> m, mesh |-> m]]]
        /\ blob' = IF new THEN [blob EXCEPT ![c] = OnlyArchive(blob[c])] ELSE blob
        /\ curve' = IF new THEN [curve EXCEPT ![c] = NoCurves] ELSE curve
        /\ told' = IF new THEN [told EXCEPT ![c] = {}] ELSE told
  /\ UNCHANGED <<life, receipt, field, counted>>

(* A direction, solved on mesh m: refused for another mesh than the one on *)
(* record, taken when none is.                                             *)
ReportDirection(n, c, d, s, m) ==
  /\ Holds(n, c)
  /\ OnRecord(c, "mesh") => part[c]["mesh"].sha = m
  /\ part' = [part EXCEPT ![c][d] = [sha |-> s, mesh |-> m]]
  /\ UNCHANGED <<life, blob, receipt, curve, field, counted, told>>

(* An operator makes the next node mesh the case afresh.                   *)
ResetParts(c) ==
  /\ part' = [part EXCEPT ![c] = [p \in Parts |-> NoPart]]
  /\ blob' = [blob EXCEPT ![c] = OnlyArchive(blob[c])]
  /\ curve' = [curve EXCEPT ![c] = NoCurves]
  /\ told' = [told EXCEPT ![c] = {}]
  /\ UNCHANGED <<life, receipt, field, counted>>

(* Telemetry of kind residuals is the node's own series, and replaces any; *)
(* a solve report adds to a series only where there is none of the node's. *)
PostCurve(n, c, d, source) ==
  /\ Holds(n, c)
  /\ source = "reports" => curve[c][d] # "trace"
  /\ curve' = [curve EXCEPT ![c][d] = source]
  /\ told' = [told EXCEPT ![c] = told[c] \cup {d}]
  /\ UNCHANGED <<life, part, blob, receipt, field, counted>>

(* Telemetry of kind mesh or solve: the number of directions is known.     *)
PostCount(n, c) ==
  /\ Holds(n, c)
  /\ counted' = [counted EXCEPT ![c] = TRUE]
  /\ UNCHANGED <<life, part, blob, receipt, curve, field, told>>

(* The field of a direction, under the lease: replaces the one before.     *)
PutField(n, c, d) ==
  /\ Holds(n, c)
  /\ field' = [field EXCEPT ![c][d] = "solve"]
  /\ UNCHANGED <<life, part, blob, receipt, curve, counted, told>>

(* The same from the archive of a done case, where there is none.          *)
BackfillField(c, d) ==
  /\ life[c].state = "done" /\ field[c][d] = "none"
  /\ field' = [field EXCEPT ![c][d] = "archive"]
  /\ UNCHANGED <<life, part, blob, receipt, curve, counted, told>>

-----------------------------------------------------------------------------
(* Receipts and what the broker holds.                                     *)

(* Wrong: a scan is not compared with the completion.                      *)
RecordReceiptAny(c, at, s) ==
  /\ life[c].state = "done"
  /\ receipt' = [receipt EXCEPT ![c][at] = [sha |-> s, from |-> "hand"]]
  /\ UNCHANGED <<life, part, blob, curve, field, counted, told>>

(* An operator's scan of a copy, at the broker too: the hash must be the   *)
(* completion's, if it named one.                                          *)
RecordReceipt(c, at, s) ==
  /\ life[c].state = "done" /\ life[c].result \in {s, NoSha}
  /\ receipt' = [receipt EXCEPT ![c][at] = [sha |-> s, from |-> "hand"]]
  /\ UNCHANGED <<life, part, blob, curve, field, counted, told>>

Receipted(c, b) ==
  IF HeldInFull(c, b)
    THEN [receipt EXCEPT ![c]["broker"] = [sha |-> b["archive"], from |-> "store"]]
    ELSE receipt

(* The part store holds s: recorded if it is still what c's part should    *)
(* be, with the archive's receipt when that was the last of the case.      *)
RecordBlob(c, p, s) ==
  IF Expected(c, p) = s
    THEN LET now == [blob[c] EXCEPT ![p] = s]
         IN /\ blob' = [blob EXCEPT ![c] = now]
            /\ receipt' = Receipted(c, now)
            /\ UNCHANGED <<life, part, curve, field, counted, told>>
    ELSE UNCHANGED partVars

(* A node asks what is wanted: the broker first writes a receipt it owes.  *)
HealReceipt(c) ==
  /\ blob[c]["archive"] # NoSha /\ receipt[c]["broker"] = NoReceipt
  /\ receipt' = Receipted(c, blob[c])
  /\ UNCHANGED <<life, part, blob, curve, field, counted, told>>

(* An operator lets go of one held part, and of the receipt with it.       *)
DropBlob(c, p) ==
  /\ blob[c][p] # NoSha
  /\ blob' = [blob EXCEPT ![c][p] = NoSha]
  /\ receipt' = [receipt EXCEPT ![c]["broker"] = NoReceipt]
  /\ UNCHANGED <<life, part, curve, field, counted, told>>
=============================================================================
