---------------------------- MODULE PartCustody ----------------------------
(***************************************************************************)
(* A case's content on its way from a node's disk to the broker: the       *)
(* database (CaseParts) and the part store (PartStore) under the routes of *)
(* casebroker/app.py that use both.  Each route is as many steps as it     *)
(* makes calls that another request can come between: an upload is         *)
(* recorded after its file was seen, a file is deleted after the database  *)
(* was asked who needs it, a node deletes its copy after an answer.        *)
(***************************************************************************)
EXTENDS CaseParts

CONSTANTS
  Size, ReleaseFiles,  \* chunks in a content; contents the releases table names
  Kept,                \* CASEBROKER_PARTS_KEEP: the kinds of part the broker takes
  Finished,            \* cases done, and nothing of them uploaded, at the start
  MaxFaults            \* bound: sweeps, deletions, resets, lost answers, restarts

(* delete_part_blob asks the rows of cases alone whether a file may go: a  *)
(* build's file is taken not to be some case's part as well.               *)
ASSUME CustodyAssumption ==
  /\ Size \in Nat \ {0} /\ MaxFaults \in Nat
  /\ ReleaseFiles \subseteq Shas /\ Finished \subseteq Cases
  /\ \A c \in Cases, p \in Blobs : VersionsOf[c][p] \cap ReleaseFiles = {}

Copies == [case : Cases, part : Blobs, sha : Shas]

VARIABLES
  objects, young, incoming, verifying,  \* the part store
  landing,   \* files seen in the store, about to be recorded as a part
  removal,   \* an operator's deletion between its two calls
  sweep,     \* a sweep between its query and its unlinks
  using,     \* using[n][c]: the mesh of c in n's scratch, kept when it loses c
  disk,      \* disk[n]: the archives n keeps
  upload,    \* upload[n]: what n is sending, and from where it will go on
  prune,     \* prune[n]: copies n was told it may delete
  late,      \* (history) late[n]: contents let go of since n was told
  outraced,  \* (history) files removed by a check that a new row overtook
  faults

INSTANCE PartStore WITH Contents <- Shas, Labels <- [case : Cases, part : Blobs]

storeVars == <<objects, young, incoming, verifying>>
requests == <<landing, removal, sweep>>
nodeVars == <<using, disk, upload, prune, late>>
vars == <<partVars, storeVars, requests, nodeVars, outraced, faults>>

Kind(p) == IF p \in Dirs THEN "direction" ELSE p

NoUpload == [of |-> "nothing"]
NoWork   == [on |-> FALSE]

Refers(s) == s \in ReleaseFiles \/ \E c \in Cases, p \in Blobs : blob[c][p] = s

AllReferenced == {s \in Shas : Refers(s)}

(* Wrong: the sweep asks for the cases' files and forgets the releases'.   *)
KeptByCases == ReferencedBlobs

KeptShas == ReferencedBlobs \cup ReleaseFiles

Init ==
  /\ PartsInit
  /\ \E made \in [Finished -> Shas], n \in Nodes :
       /\ \A c \in Finished : made[c] \in VersionsOf[c]["archive"]
       /\ life = [c \in Cases |-> IF c \in Finished
                    THEN [state |-> "done", holder |-> NoNode, result |-> made[c]] ELSE Unseen]
       /\ disk = [m \in Nodes |-> IF m = n
                    THEN {[case |-> c, part |-> "archive", sha |-> made[c]] : c \in Finished} ELSE {}]
  /\ StoreInit(ReleaseFiles)
  /\ landing = {} /\ removal = NoWork /\ sweep = NoWork
  /\ using = [n \in Nodes |-> [c \in Cases |-> NoSha]]
  /\ upload = [n \in Nodes |-> NoUpload]
  /\ prune = [n \in Nodes |-> {}] /\ late = [n \in Nodes |-> {}]
  /\ outraced = {} /\ faults = 0

-----------------------------------------------------------------------------
(* A node works on a case.                                                 *)

Ships(n, c, p, s) == disk' = [disk EXCEPT ![n] = disk[n] \cup {[case |-> c, part |-> p, sha |-> s]}]

(* A fresh claim: it continues on the mesh the broker holds, or will mesh  *)
(* the case itself.                                                        *)
Take(n, c, says) ==
  /\ \A b \in Cases : ~Holds(n, b)
  /\ Claim(n, c, says)
  /\ using' = [using EXCEPT ![n][c] = IF says = "from broker" THEN part[c]["mesh"].sha ELSE NoSha]
  /\ UNCHANGED <<storeVars, requests, disk, upload, prune, late, outraced, faults>>

(* A node back with a case it had: it goes on with what is in its scratch. *)
TakeBack(n, c) ==
  /\ \A b \in Cases : Holds(n, b) => b = c
  /\ Resume(n, c)
  /\ UNCHANGED <<storeVars, requests, nodeVars, outraced, faults>>

(* The node stops, or is taken for dead: every later report of a zombie is *)
(* refused.  What it did is in its scratch should it resume, or is lost.   *)
LoseCase(c) ==
  /\ Unlease(c)
  /\ \/ UNCHANGED using
     \/ using' = [n \in Nodes |-> IF Holds(n, c) THEN [using[n] EXCEPT ![c] = NoSha] ELSE using[n]]
  /\ UNCHANGED <<storeVars, requests, disk, upload, prune, late, outraced, faults>>

(* It meshes the case, again if it did before; the report may not come, or *)
(* is one that nodes from before parts do not make.                        *)
Mesh(n, c) ==
  /\ Holds(n, c)
  /\ \E m \in VersionsOf[c]["mesh"] :
       /\ using' = [using EXCEPT ![n][c] = m]
       /\ ReportMesh(n, c, m) \/ UNCHANGED partVars
       /\ Ships(n, c, "mesh", m)
  /\ UNCHANGED <<storeVars, requests, upload, prune, late, outraced, faults>>

Direction(n, c, d) ==
  /\ Holds(n, c) /\ using[n][c] # NoSha
  /\ \E s \in VersionsOf[c][d] :
       /\ ReportDirection(n, c, d, s, using[n][c])
       /\ Ships(n, c, d, s)
  /\ UNCHANGED <<storeVars, requests, using, upload, prune, late, outraced, faults>>

Telemetry(n, c) ==
  /\ \/ PostCount(n, c)
     \/ \E d \in Dirs, source \in {"reports", "trace"} : PostCurve(n, c, d, source)
  /\ UNCHANGED <<storeVars, requests, nodeVars, outraced, faults>>

Field(n, c, d) ==
  /\ using[n][c] # NoSha /\ PutField(n, c, d)
  /\ UNCHANGED <<storeVars, requests, nodeVars, outraced, faults>>

(* Done is done: what any node's scratch has of it matters no more.        *)
Completes(n, c) ==
  /\ using[n][c] # NoSha
  /\ \E s \in VersionsOf[c]["archive"], names \in BOOLEAN :
       /\ Finish(n, c, IF names THEN s ELSE NoSha)
       /\ Ships(n, c, "archive", s)
  /\ using' = [m \in Nodes |-> [using[m] EXCEPT ![c] = NoSha]]
  /\ UNCHANGED <<storeVars, requests, upload, prune, late, outraced, faults>>

(* A field read back from the archive on the node's own disk.              *)
Backfill(n, c, d) ==
  /\ \E copy \in disk[n] : copy.case = c /\ copy.part = d
  /\ BackfillField(c, d)
  /\ UNCHANGED <<storeVars, requests, nodeVars, outraced, faults>>

-----------------------------------------------------------------------------
(* Uploads: POST and PUT /v1/cases/{case}/parts/{part}/upload.             *)

Landing(c, p, s) == [case |-> c, part |-> p, sha |-> s]

SendFrom(n, copy, offset) ==
  upload' = [upload EXCEPT ![n] = [of |-> copy, offset |-> offset]]

Stops(n) == upload' = [upload EXCEPT ![n] = NoUpload]

(* Where does the upload of copy stand?  A file that is there already is   *)
(* recorded by a later call of this request.                               *)
Ask(n, copy) ==
  /\ copy \in disk[n] /\ upload[n] = NoUpload
  /\ copy.part \in Wanted(copy.case) /\ Expected(copy.case, copy.part) = copy.sha
  /\ \/ /\ copy.sha \in objects
        /\ landing' = landing \cup {copy}
        /\ UNCHANGED <<storeVars, upload>>
     \/ /\ copy.sha \notin objects /\ ~Verifying(copy.sha) /\ Kind(copy.part) \in Kept
        /\ IF incoming[copy.sha].chunks = Size
             THEN /\ StartVerify(copy.sha, [case |-> copy.case, part |-> copy.part])
                  /\ UNCHANGED upload
             ELSE /\ SendFrom(n, copy, incoming[copy.sha].chunks)
                  /\ UNCHANGED verifying
        /\ UNCHANGED <<objects, young, incoming, landing>>
  /\ UNCHANGED <<partVars, removal, sweep, using, disk, prune, late, outraced, faults>>

(* One chunk.  It goes to the content the broker expects of that part now, *)
(* which need not be the content the node is sending.                      *)
Chunk(n, heard) ==
  /\ upload[n] # NoUpload
  /\ LET copy   == upload[n].of
         target == Expected(copy.case, copy.part)
         offset == upload[n].offset
     IN /\ target # NoSha /\ Takes(target, offset)
        /\ Grows(target, target = copy.sha)
        /\ IF offset + 1 = Size
             THEN StartVerify(target, [case |-> copy.case, part |-> copy.part])
             ELSE UNCHANGED verifying
        /\ IF heard
             THEN /\ IF offset + 1 = Size THEN Stops(n) ELSE SendFrom(n, copy, offset + 1)
                  /\ UNCHANGED faults
             ELSE faults < MaxFaults /\ faults' = faults + 1 /\ UNCHANGED upload
  /\ UNCHANGED <<partVars, objects, requests, using, disk, prune, late, outraced>>

(* A chunk refused: the node goes on from the offset it is told, or stops  *)
(* and asks again.                                                         *)
ChunkRefused(n) ==
  /\ upload[n] # NoUpload
  /\ LET copy   == upload[n].of
         target == Expected(copy.case, copy.part)
     IN IF target # NoSha /\ target \notin objects /\ ~Verifying(target)
          THEN /\ upload[n].offset # incoming[target].chunks
               /\ IF incoming[target].chunks = Size
                    THEN Stops(n) ELSE SendFrom(n, copy, incoming[target].chunks)
          ELSE Stops(n)
  /\ UNCHANGED <<partVars, storeVars, requests, using, disk, prune, late, outraced, faults>>

(* The verification thread ends; a stored content is to be recorded.       *)
Verified(v) ==
  /\ \/ /\ VerifyStored(v)
        /\ landing' = landing \cup {Landing(v.label.case, v.label.part, v.sha)}
     \/ VerifyFailed(v) /\ UNCHANGED landing
  /\ UNCHANGED <<partVars, removal, sweep, nodeVars, outraced, faults>>

(* record_blob, for a file that was there when this request looked.        *)
Record(l) ==
  /\ l \in landing
  /\ landing' = landing \ {l}
  /\ RecordBlob(l.case, l.part, l.sha)
  /\ outraced' = IF l.sha \in objects THEN outraced ELSE outraced \cup {l.sha}
  /\ UNCHANGED <<storeVars, removal, sweep, nodeVars, faults>>

(* POST /v1/parts/wanted, when a node goes through its done folder.        *)
AskWanted(c) ==
  /\ HealReceipt(c)
  /\ UNCHANGED <<storeVars, requests, nodeVars, outraced, faults>>

-----------------------------------------------------------------------------
(* Pruning: POST /v1/custody/cases, and later the node deletes.            *)

Deletable(n, c) == {copy \in disk[n] : copy.case = c /\ blob[c][copy.part] = copy.sha}

(* Wrong: it answers by custody, to which any receipt is an archive.       *)
AskCustodyLoosely(n, c) ==
  /\ prune[n] = {} /\ Stored(c)
  /\ prune' = [prune EXCEPT ![n] = Deletable(n, c)]
  /\ UNCHANGED <<partVars, storeVars, requests, using, disk, upload, late, outraced, faults>>

AskCustody(n, c) ==
  /\ prune[n] = {} /\ CompleteAtBroker(c)
  /\ prune' = [prune EXCEPT ![n] = Deletable(n, c)]
  /\ UNCHANGED <<partVars, storeVars, requests, using, disk, upload, late, outraced, faults>>

Prune(n) ==
  /\ prune[n] # {}
  /\ disk' = [disk EXCEPT ![n] = disk[n] \ prune[n]]
  /\ prune' = [prune EXCEPT ![n] = {}]
  /\ late' = [late EXCEPT ![n] = {}]
  /\ UNCHANGED <<partVars, storeVars, requests, using, upload, outraced, faults>>

-----------------------------------------------------------------------------
(* Operators.                                                              *)

Fault == faults < MaxFaults /\ faults' = faults + 1

(* An operator lets go of contents that nodes may be about to delete.      *)
LetsGo(gone) ==
  /\ late' = [n \in Nodes |-> IF prune[n] = {} THEN {} ELSE late[n] \cup gone]
  /\ UNCHANGED <<using, disk, upload, prune>>

Reset(c) ==
  /\ Fault /\ (\E p \in Parts : OnRecord(c, p)) /\ ResetParts(c)
  /\ LetsGo({blob[c][p] : p \in Parts} \ {NoSha})
  /\ UNCHANGED <<storeVars, requests, outraced>>

Scanned(c) ==
  /\ \E at \in Locations, s \in Shas : RecordReceipt(c, at, s)
  /\ UNCHANGED <<storeVars, requests, nodeVars, outraced, faults>>

(* still_referenced: what the other rows of case_blobs refer to.           *)
HeldBeside(c, p) ==
  {s \in Shas : \E d \in Cases, q \in Blobs : <<d, q>> # <<c, p>> /\ blob[d][q] = s}

(* DELETE .../blob: drop_blob, then the file if no other row refers to it. *)
DeleteRow(c, p) ==
  /\ Fault /\ removal = NoWork
  /\ DropBlob(c, p) /\ LetsGo({blob[c][p]})
  /\ removal' = IF blob[c][p] \in HeldBeside(c, p) THEN NoWork
                ELSE [on |-> TRUE, sha |-> blob[c][p], saw |-> HeldBeside(c, p) \cup ReleaseFiles]
  /\ UNCHANGED <<storeVars, landing, sweep, outraced>>

(* A removal of a file that a row refers to by now, but did not when the   *)
(* remover asked.                                                          *)
Overtaken(s, saw) == IF Refers(s) /\ s \notin saw THEN outraced \cup {s} ELSE outraced

DeleteFile ==
  /\ removal.on
  /\ Unlink(removal.sha)
  /\ outraced' = Overtaken(removal.sha, removal.saw)
  /\ removal' = NoWork
  /\ UNCHANGED <<partVars, landing, sweep, nodeVars, faults>>

(* POST /v1/parts/sweep: what is referred to is read first ...             *)
SweepReads ==
  /\ Fault /\ ~sweep.on
  /\ sweep' = [on |-> TRUE, keep |-> KeptShas, saw |-> AllReferenced]
  /\ UNCHANGED <<partVars, storeVars, landing, removal, nodeVars, outraced>>

(* ... then each settled file that is not is deleted, each stale upload    *)
SweepUnlinks(s) ==
  /\ sweep.on
  /\ \/ /\ s \in objects \ (sweep.keep \cup young)
        /\ Unlink(s)
        /\ outraced' = Overtaken(s, sweep.saw)
     \/ /\ incoming[s].chunks > 0 /\ s \notin young
        /\ UnlinkIncoming(s) /\ UNCHANGED outraced
  /\ UNCHANGED <<partVars, requests, nodeVars, faults>>

SweepEnds ==
  /\ sweep.on /\ sweep' = NoWork
  /\ UNCHANGED <<partVars, storeVars, landing, removal, nodeVars, outraced, faults>>

(* An hour is longer than any request and any verification.                *)
Ages(s) ==
  /\ ~Verifying(s) /\ ~sweep.on /\ \A l \in landing : l.sha # s
  /\ Settle(s)
  /\ UNCHANGED <<partVars, requests, nodeVars, outraced, faults>>

(* The broker restarts: its threads and its requests are gone.             *)
Restart ==
  /\ Fault /\ StoreRestart
  /\ landing' = {} /\ removal' = NoWork /\ sweep' = NoWork
  /\ UNCHANGED <<partVars, nodeVars, outraced>>

-----------------------------------------------------------------------------
Next ==
  \/ \E n \in Nodes, c \in Cases :
       \/ \E says \in Sayings : Take(n, c, says)
       \/ TakeBack(n, c) \/ Mesh(n, c) \/ Telemetry(n, c) \/ Completes(n, c)
       \/ AskCustody(n, c)
       \/ \E d \in Dirs : Direction(n, c, d) \/ Field(n, c, d) \/ Backfill(n, c, d)
  \/ \E n \in Nodes :
       \/ \E copy \in disk[n] : Ask(n, copy)
       \/ Chunk(n, TRUE) \/ Chunk(n, FALSE) \/ ChunkRefused(n) \/ Prune(n)
  \/ \E c \in Cases :
       LoseCase(c) \/ AskWanted(c) \/ Reset(c) \/ Scanned(c)
  \/ \E c \in Cases, p \in Blobs : DeleteRow(c, p)
  \/ \E v \in verifying : Verified(v)
  \/ \E l \in landing : Record(l)
  \/ DeleteFile \/ SweepReads \/ SweepEnds \/ Restart
  \/ \E s \in Shas : SweepUnlinks(s) \/ Ages(s)

Spec == Init /\ [][Next]_vars

-----------------------------------------------------------------------------
(* The type of every variable of the database, the store and the nodes.    *)
TypeOK ==
  /\ life \in [Cases -> [state : {"pending", "leased", "done"},
                         holder : Nodes \cup {NoNode}, result : Shas \cup {NoSha}]]
  /\ part \in [Cases -> [Parts -> [sha : Shas \cup {NoSha}, mesh : Shas \cup {NoSha}]]]
  /\ blob \in [Cases -> [Blobs -> Shas \cup {NoSha}]]
  /\ receipt \in [Cases -> [Locations -> [sha : Shas \cup {NoSha}, from : {"none", "hand", "store"}]]]
  /\ curve \in [Cases -> [Dirs -> {"none", "reports", "trace"}]]
  /\ field \in [Cases -> [Dirs -> {"none", "solve", "archive"}]]
  /\ counted \in [Cases -> BOOLEAN]
  /\ told \in [Cases -> SUBSET Dirs]
  /\ StoreTypeOK
  /\ landing \in SUBSET Copies
  /\ removal \in {NoWork} \cup [on : {TRUE}, sha : Shas, saw : SUBSET Shas]
  /\ sweep \in {NoWork} \cup [on : {TRUE}, keep : SUBSET Shas, saw : SUBSET Shas]
  /\ using \in [Nodes -> [Cases -> Shas \cup {NoSha}]]
  /\ disk \in [Nodes -> SUBSET Copies]
  /\ upload \in [Nodes -> {NoUpload} \cup [of : Copies, offset : 0..Size]]
  /\ prune \in [Nodes -> SUBSET Copies]
  /\ late \in [Nodes -> SUBSET Shas]
  /\ outraced \in SUBSET Shas
  /\ faults \in 0..MaxFaults

(* What the broker says it holds is in the store: of every row of          *)
(* case_blobs, and of every release, the file is there, unless a row came  *)
(* to need it between a remover's question and its unlink.                 *)
HeldUnlessOutraced == \A s \in Shas : Refers(s) => s \in objects \cup outraced

(* A receipt at the broker that the broker itself wrote means that archive *)
(* and every part on record are held as they were reported.  One that an   *)
(* operator entered is the operator's word, and means no such thing.       *)
ReceiptMeansHeld ==
  \A c \in Cases : receipt[c]["broker"].from = "store" =>
    /\ life[c].state = "done" /\ blob[c]["archive"] = life[c].result
    /\ receipt[c]["broker"].sha = life[c].result
    /\ \A p \in Parts : OnRecord(c, p) => blob[c][p] = part[c][p].sha

(* What custody counts as stored is somewhere: the archive's file is in    *)
(* the store, or an operator hashed a copy to what the completion named,   *)
(* if it named anything; and so is the file of every part on record, but   *)
(* for a file removed by an overtaken check.                               *)
CustodyIsTrue ==
  \A c \in Cases : Stored(c) =>
    /\ \/ life[c].result \in objects \cup outraced
       \/ \E at \in Locations : /\ receipt[c][at].from = "hand"
                                /\ life[c].result \in {receipt[c][at].sha, NoSha}
    /\ \A p \in Parts : OnRecord(c, p) => part[c][p].sha \in objects \cup outraced

(* A residual curve belongs to a direction on record, or was sent in the   *)
(* work going on: since the case was last taken afresh, meshed anew or     *)
(* reset.  A node that resumes goes on with that work.                     *)
CurvesFollowParts ==
  \A c \in Cases, d \in Dirs :
    curve[c][d] # "none" => OnRecord(c, d) \/ d \in told[c]

(* A node deletes copies only of a case that is whole: its archive, every  *)
(* part it has on record and the copies themselves are in the store, but   *)
(* for what an operator let go of after the node was told, and for a file  *)
(* removed by an overtaken check.                                          *)
PruneOnlyWhenWhole ==
  [][\A n \in Nodes : \A copy \in disk[n] \ disk'[n] :
       LET c     == copy.case
           known == objects \cup outraced \cup late[n]
       IN /\ life[c].state = "done"
          /\ {copy.sha, life[c].result} \subseteq known
          /\ \A p \in Parts : OnRecord(c, p) => part[c][p].sha \in known]_vars

(* A case is never answered on two meshes: every direction on record was   *)
(* solved on the mesh on record.                                           *)
OneMesh ==
  \A c \in Cases, d \in Dirs :
    (OnRecord(c, d) /\ OnRecord(c, "mesh")) => part[c][d].mesh = part[c]["mesh"].sha
=============================================================================
