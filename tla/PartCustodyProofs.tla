------------------------- MODULE PartCustodyProofs -------------------------
(***************************************************************************)
(* Theorems of PartCustody: type correctness; that what the broker says it *)
(* holds is in the store; that receipts and custody are true; that a node  *)
(* prunes only cases that are whole; and that curves follow the parts.     *)
(*                                                                         *)
(* The inductive invariant adds to them that every hash on record is one   *)
(* of the case's own, that a receipt belongs to a done case, that neither  *)
(* remover is about to take a file that was needed when it asked, and that *)
(* a case a node was told is whole is still listed, but for what was let   *)
(* go of since.                                                            *)
(***************************************************************************)
EXTENDS PartCustody, TLAPS

MaybeSha == Shas \cup {NoSha}

LifeRow  == [state : {"pending", "leased", "done"}, holder : Nodes \cup {NoNode}, result : MaybeSha]
PartRow  == [sha : MaybeSha, mesh : MaybeSha]
ReceiptRow == [sha : MaybeSha, from : {"none", "hand", "store"}]
Source == {"none", "reports", "trace"}

(* The types of the database.                                              *)
DbTypes ==
  /\ life \in [Cases -> LifeRow]
  /\ part \in [Cases -> [Parts -> PartRow]]
  /\ blob \in [Cases -> [Blobs -> MaybeSha]]
  /\ receipt \in [Cases -> [Locations -> ReceiptRow]]
  /\ curve \in [Cases -> [Dirs -> Source]]
  /\ field \in [Cases -> [Dirs -> {"none", "solve", "archive"}]]
  /\ counted \in [Cases -> BOOLEAN]
  /\ told \in [Cases -> SUBSET Dirs]

-----------------------------------------------------------------------------
(* The database, call by call.                                             *)

LEMMA Names ==
  /\ "mesh" \in Parts /\ Parts \subseteq Blobs /\ "archive" \in Blobs /\ Dirs \subseteq Parts
  /\ "archive" \notin Parts /\ "mesh" \notin Dirs
  /\ Blobs = Parts \cup {"archive"}
BY PartsAssumption DEF PartsAssumption, Parts, Blobs

LEMMA Versions ==
  ASSUME NEW c \in Cases, NEW p \in Blobs
  PROVE  VersionsOf[c][p] \subseteq Shas
BY PartsAssumption DEF PartsAssumption

LEMMA NoShaApart == NoSha \notin Shas /\ NoNode \notin Nodes
BY PartsAssumption DEF PartsAssumption

LEMMA LeasedType ==
  ASSUME life \in [Cases -> LifeRow], NEW n \in Nodes, NEW c \in Cases, Leased(n, c)
  PROVE  life' \in [Cases -> LifeRow]
<1>1. [state |-> "leased", holder |-> n, result |-> NoSha] \in LifeRow
  BY DEF LifeRow, MaybeSha
<1> QED BY <1>1 DEF Leased

LEMMA ClaimTypes ==
  ASSUME DbTypes, NEW n \in Nodes, NEW c \in Cases, NEW says, Claim(n, c, says)
  PROVE  DbTypes'
<1>1. life' \in [Cases -> LifeRow]
  BY LeasedType DEF DbTypes, Claim
<1>2. [d \in Dirs |-> IF OnRecord(c, d) THEN curve[c][d] ELSE "none"] \in [Dirs -> Source]
  BY DEF DbTypes, Source
<1> QED BY <1>1, <1>2 DEF DbTypes, Claim

LEMMA ResumeTypes ==
  ASSUME DbTypes, NEW n \in Nodes, NEW c \in Cases, Resume(n, c) PROVE DbTypes'
<1>1. life' \in [Cases -> LifeRow]
  BY LeasedType DEF DbTypes, Resume
<1> QED BY <1>1 DEF DbTypes, Resume

LEMMA UnleaseTypes ==
  ASSUME DbTypes, NEW c \in Cases, Unlease(c) PROVE DbTypes'
<1>1. Unseen \in LifeRow BY DEF Unseen, LifeRow, MaybeSha
<1> QED BY <1>1 DEF DbTypes, Unlease

LEMMA FinishTypes ==
  ASSUME DbTypes, NEW n \in Nodes, NEW c \in Cases, NEW s, Finish(n, c, s) PROVE DbTypes'
<1>1. s \in MaybeSha BY Versions, Names DEF Finish, MaybeSha
<1>2. [state |-> "done", holder |-> NoNode, result |-> s] \in LifeRow
  BY <1>1 DEF LifeRow
<1> QED BY <1>2 DEF DbTypes, Finish

LEMMA OnlyArchiveType ==
  ASSUME NEW b \in [Blobs -> MaybeSha] PROVE OnlyArchive(b) \in [Blobs -> MaybeSha]
BY DEF OnlyArchive, MaybeSha

NoParts == [p \in Parts |-> NoPart]

LEMMA NoPartsType == NoParts \in [Parts -> PartRow]
BY DEF NoParts, NoPart, PartRow, MaybeSha

LEMMA NoCurvesType == NoCurves \in [Dirs -> Source]
BY DEF NoCurves, Source

(* The parts of c once m is its mesh.                                      *)
OldParts(c, m) ==
  IF OnRecord(c, "mesh") /\ part[c]["mesh"].sha # m THEN NoParts ELSE part[c]

WithMesh(c, m) == [OldParts(c, m) EXCEPT !["mesh"] = [sha |-> m, mesh |-> m]]

LEMMA ReportMeshTypes ==
  ASSUME DbTypes, NEW n \in Nodes, NEW c \in Cases, NEW m \in Shas, ReportMesh(n, c, m)
  PROVE  DbTypes'
<1>1. OldParts(c, m) \in [Parts -> PartRow]
  BY NoPartsType DEF OldParts, DbTypes
<1>2. [sha |-> m, mesh |-> m] \in PartRow
  BY DEF PartRow, MaybeSha
<1>3. WithMesh(c, m) \in [Parts -> PartRow]
  BY <1>1, <1>2, Names DEF WithMesh
<1>4. part' = [part EXCEPT ![c] = WithMesh(c, m)]
  BY DEF ReportMesh, WithMesh, OldParts, NoParts
<1>5. blob' \in [Cases -> [Blobs -> MaybeSha]]
  <2>1. OnlyArchive(blob[c]) \in [Blobs -> MaybeSha]
    BY OnlyArchiveType DEF DbTypes
  <2> QED BY <2>1 DEF ReportMesh, DbTypes
<1>6. curve' \in [Cases -> [Dirs -> Source]] /\ told' \in [Cases -> SUBSET Dirs]
  BY NoCurvesType DEF ReportMesh, DbTypes
<1>7. part' \in [Cases -> [Parts -> PartRow]]
  BY <1>3, <1>4 DEF DbTypes
<1> QED BY <1>5, <1>6, <1>7 DEF DbTypes, ReportMesh

LEMMA ReportDirectionTypes ==
  ASSUME DbTypes, NEW n \in Nodes, NEW c \in Cases, NEW d \in Dirs, NEW s \in Shas,
         NEW m \in MaybeSha, ReportDirection(n, c, d, s, m)
  PROVE  DbTypes'
<1>1. [sha |-> s, mesh |-> m] \in PartRow
  BY DEF PartRow, MaybeSha
<1>2. part' \in [Cases -> [Parts -> PartRow]]
  BY <1>1, Names DEF DbTypes, ReportDirection
<1> QED BY <1>2 DEF DbTypes, ReportDirection

LEMMA ResetPartsTypes ==
  ASSUME DbTypes, NEW c \in Cases, ResetParts(c) PROVE DbTypes'
<1>1. OnlyArchive(blob[c]) \in [Blobs -> MaybeSha]
  BY OnlyArchiveType DEF DbTypes
<1>2. part' = [part EXCEPT ![c] = NoParts]
  BY DEF ResetParts, NoParts
<1> QED BY <1>1, <1>2, NoPartsType, NoCurvesType DEF DbTypes, ResetParts

LEMMA PostCurveTypes ==
  ASSUME DbTypes, NEW n \in Nodes, NEW c \in Cases, NEW d \in Dirs,
         NEW source \in {"reports", "trace"}, PostCurve(n, c, d, source)
  PROVE  DbTypes'
<1>1. curve' \in [Cases -> [Dirs -> Source]]
  BY DEF DbTypes, PostCurve, Source
<1> QED BY <1>1 DEF DbTypes, PostCurve

LEMMA PostCountTypes ==
  ASSUME DbTypes, NEW n \in Nodes, NEW c \in Cases, PostCount(n, c) PROVE DbTypes'
BY DEF DbTypes, PostCount

LEMMA FieldTypes ==
  ASSUME DbTypes, NEW n \in Nodes, NEW c \in Cases, NEW d \in Dirs,
         PutField(n, c, d) \/ BackfillField(c, d)
  PROVE  DbTypes'
<1>1. CASE PutField(n, c, d)
  BY <1>1 DEF DbTypes, PutField
<1>2. CASE BackfillField(c, d)
  BY <1>2 DEF DbTypes, BackfillField
<1> QED BY <1>1, <1>2

LEMMA RecordReceiptTypes ==
  ASSUME DbTypes, NEW c \in Cases, NEW at \in Locations, NEW s \in Shas, RecordReceipt(c, at, s)
  PROVE  DbTypes'
<1>1. [sha |-> s, from |-> "hand"] \in ReceiptRow
  BY DEF ReceiptRow, MaybeSha
<1> QED BY <1>1 DEF DbTypes, RecordReceipt

LEMMA ReceiptedType ==
  ASSUME DbTypes, NEW c \in Cases, NEW b \in [Blobs -> MaybeSha]
  PROVE  Receipted(c, b) \in [Cases -> [Locations -> ReceiptRow]]
<1>1. [sha |-> b["archive"], from |-> "store"] \in ReceiptRow
  BY Names DEF ReceiptRow
<1> QED BY <1>1 DEF DbTypes, Receipted

LEMMA RecordBlobTypes ==
  ASSUME DbTypes, NEW c \in Cases, NEW p \in Blobs, NEW s \in Shas, RecordBlob(c, p, s)
  PROVE  DbTypes'
<1>1. CASE Expected(c, p) = s
  <2> DEFINE now == [blob[c] EXCEPT ![p] = s]
  <2>1. now \in [Blobs -> MaybeSha]
    BY DEF DbTypes, MaybeSha
  <2>2. Receipted(c, now) \in [Cases -> [Locations -> ReceiptRow]]
    BY <2>1, ReceiptedType
  <2>3. blob' = [blob EXCEPT ![c] = now] /\ receipt' = Receipted(c, now)
        /\ UNCHANGED <<life, part, curve, field, counted, told>>
    BY <1>1 DEF RecordBlob
  <2>4. blob' \in [Cases -> [Blobs -> MaybeSha]]
    <3> HIDE DEF now
    <3> QED BY <2>1, <2>3 DEF DbTypes
  <2>5. receipt' \in [Cases -> [Locations -> ReceiptRow]]
    BY <2>2, <2>3
  <2> QED BY <2>3, <2>4, <2>5 DEF DbTypes
<1>2. CASE Expected(c, p) # s
  BY <1>2 DEF RecordBlob, partVars, DbTypes
<1> QED BY <1>1, <1>2

LEMMA HealReceiptTypes ==
  ASSUME DbTypes, NEW c \in Cases, HealReceipt(c) PROVE DbTypes'
<1>1. receipt' \in [Cases -> [Locations -> ReceiptRow]]
  BY ReceiptedType DEF HealReceipt, DbTypes
<1> QED BY <1>1 DEF HealReceipt, DbTypes

LEMMA DropBlobTypes ==
  ASSUME DbTypes, NEW c \in Cases, NEW p \in Blobs, DropBlob(c, p) PROVE DbTypes'
<1>1. NoReceipt \in ReceiptRow
  BY DEF NoReceipt, ReceiptRow, MaybeSha
<1> QED BY <1>1 DEF DbTypes, DropBlob, MaybeSha

-----------------------------------------------------------------------------
(* Types.                                                                  *)

RemovalRow == [on : {TRUE}, sha : Shas, saw : SUBSET Shas]
SweepRow   == [on : {TRUE}, keep : SUBSET Shas, saw : SUBSET Shas]
UploadRow  == [of : Copies, offset : 0..Size]
VerifyRow  == [sha : Shas, label : [case : Cases, part : Blobs]]
Incoming   == [chunks : 0..Size, own : BOOLEAN]

StoreTypes ==
  /\ objects \in SUBSET Shas
  /\ incoming \in [Shas -> Incoming]
  /\ verifying \in SUBSET VerifyRow
  /\ \A s \in young : s \in Shas /\ (s \in objects \/ incoming[s].chunks > 0)

RequestTypes ==
  /\ landing \in SUBSET Copies
  /\ removal \in {NoWork} \cup RemovalRow
  /\ sweep \in {NoWork} \cup SweepRow

NodeTypes ==
  /\ using \in [Nodes -> [Cases -> MaybeSha]]
  /\ disk \in [Nodes -> SUBSET Copies]
  /\ upload \in [Nodes -> {NoUpload} \cup UploadRow]
  /\ prune \in [Nodes -> SUBSET Copies]
  /\ late \in [Nodes -> SUBSET Shas]

Types == DbTypes /\ StoreTypes /\ RequestTypes /\ NodeTypes
         /\ outraced \in SUBSET Shas /\ faults \in 0..MaxFaults

LEMMA TypesAreTypes == Types => TypeOK
<1> SUFFICES ASSUME Types PROVE TypeOK
  OBVIOUS
<1>1. StoreTypeOK
  BY DEF Types, StoreTypes, StoreTypeOK, VerifyRow, Incoming
<1> QED
  BY <1>1 DEF Types, DbTypes, RequestTypes, NodeTypes, TypeOK, LifeRow, PartRow, ReceiptRow, Source,
     MaybeSha,
     RemovalRow, SweepRow, UploadRow

LEMMA SizeFacts == Size \in Nat /\ Size >= 1 /\ MaxFaults \in Nat /\ ReleaseFiles \subseteq Shas
BY CustodyAssumption DEF CustodyAssumption

LEMMA FaultType ==
  ASSUME faults \in 0..MaxFaults, Fault PROVE faults' \in 0..MaxFaults
BY SizeFacts DEF Fault

LEMMA ShipsType ==
  ASSUME disk \in [Nodes -> SUBSET Copies], NEW n \in Nodes, NEW c \in Cases, NEW p \in Blobs,
         NEW s \in Shas, Ships(n, c, p, s)
  PROVE  disk' \in [Nodes -> SUBSET Copies]
<1>1. [case |-> c, part |-> p, sha |-> s] \in Copies
  BY DEF Copies
<1> QED BY <1>1 DEF Ships

LEMMA ExpectedType ==
  ASSUME DbTypes, NEW c \in Cases, NEW p \in Blobs
  PROVE  Expected(c, p) \in MaybeSha
<1>1. CASE p = "archive"
  BY <1>1 DEF DbTypes, Expected, LifeRow, MaybeSha
<1>2. CASE p # "archive"
  <2>1. p \in Parts BY <1>2, Names
  <2> QED BY <1>2, <2>1 DEF DbTypes, Expected, PartRow, MaybeSha
<1> QED BY <1>1, <1>2

LEMMA StartVerifyType ==
  ASSUME StoreTypes, NEW s \in Shas, NEW c \in Cases, NEW p \in Blobs,
         StartVerify(s, [case |-> c, part |-> p])
  PROVE  verifying' \in SUBSET VerifyRow
<1>1. [sha |-> s, label |-> [case |-> c, part |-> p]] \in VerifyRow
  BY DEF VerifyRow
<1> QED BY <1>1 DEF StoreTypes, StartVerify

LEMMA TakeTypes ==
  ASSUME Types, NEW n \in Nodes, NEW c \in Cases, NEW says, Take(n, c, says) PROVE Types'
<1>1. DbTypes'
  BY ClaimTypes DEF Types, Take
<1>2. (IF says = "from broker" THEN part[c]["mesh"].sha ELSE NoSha) \in MaybeSha
  <2>1. part[c]["mesh"] \in PartRow
    BY Names DEF Types, DbTypes
  <2>2. part[c]["mesh"].sha \in MaybeSha
    BY <2>1 DEF PartRow
  <2> QED BY <2>2 DEF MaybeSha
<1>3. using' \in [Nodes -> [Cases -> MaybeSha]]
  <2> DEFINE m == IF says = "from broker" THEN part[c]["mesh"].sha ELSE NoSha
             old == [using[n] EXCEPT ![c] = m]
  <2>1. using' = [using EXCEPT ![n] = old]
    BY DEF Take
  <2>2. old \in [Cases -> MaybeSha]
    BY <1>2 DEF Types, NodeTypes
  <2> HIDE DEF old
  <2> QED BY <2>1, <2>2 DEF Types, NodeTypes
<1>4. NodeTypes'
  BY <1>3 DEF Types, NodeTypes, Take
<1> QED BY <1>1, <1>4 DEF Types, Take, StoreTypes, RequestTypes, storeVars, requests

(* Reports that change the database only.                                  *)
LEMMA DatabaseOnly ==
  ASSUME Types, DbTypes', UNCHANGED <<storeVars, requests, nodeVars, outraced>>,
         faults' \in 0..MaxFaults
  PROVE  Types'
BY DEF Types, StoreTypes, RequestTypes, NodeTypes, storeVars, requests, nodeVars

LEMMA TakeBackTypes ==
  ASSUME Types, NEW n \in Nodes, NEW c \in Cases, TakeBack(n, c) PROVE Types'
<1>1. DbTypes'
  BY ResumeTypes DEF Types, TakeBack
<1> QED BY <1>1, DatabaseOnly DEF Types, TakeBack

LEMMA LoseCaseTypes ==
  ASSUME Types, NEW c \in Cases, LoseCase(c) PROVE Types'
<1>1. DbTypes'
  BY UnleaseTypes DEF Types, LoseCase
<1>2. using' \in [Nodes -> [Cases -> MaybeSha]]
  BY DEF Types, NodeTypes, LoseCase, MaybeSha
<1>3. NodeTypes'
  BY <1>2 DEF Types, NodeTypes, LoseCase
<1> QED BY <1>1, <1>3 DEF Types, LoseCase, StoreTypes, RequestTypes, storeVars, requests

LEMMA MeshTypes ==
  ASSUME Types, NEW n \in Nodes, NEW c \in Cases, Mesh(n, c) PROVE Types'
<1>1. PICK m \in VersionsOf[c]["mesh"] :
        /\ using' = [using EXCEPT ![n][c] = m] /\ Ships(n, c, "mesh", m)
        /\ ReportMesh(n, c, m) \/ UNCHANGED partVars
  BY DEF Mesh
<1>2. m \in Shas
  BY Versions, Names
<1>3. DbTypes'
  <2>1. CASE ReportMesh(n, c, m)
    BY <1>2, <2>1, ReportMeshTypes DEF Types
  <2>2. CASE UNCHANGED partVars
    BY <2>2 DEF Types, DbTypes, partVars
  <2> QED BY <1>1, <2>1, <2>2
<1>4. disk' \in [Nodes -> SUBSET Copies]
  BY <1>1, <1>2, ShipsType, Names DEF Types, NodeTypes
<1>5. NodeTypes'
  BY <1>1, <1>2, <1>4 DEF Types, NodeTypes, Mesh, MaybeSha
<1> QED BY <1>3, <1>5 DEF Types, Mesh, StoreTypes, RequestTypes, storeVars, requests

LEMMA DirectionTypes ==
  ASSUME Types, NEW n \in Nodes, NEW c \in Cases, NEW d \in Dirs, Direction(n, c, d) PROVE Types'
<1>1. PICK s \in VersionsOf[c][d] : ReportDirection(n, c, d, s, using[n][c]) /\ Ships(n, c, d, s)
  BY DEF Direction
<1>2. s \in Shas /\ d \in Blobs
  BY Versions, Names
<1>3. DbTypes'
  BY <1>1, <1>2, ReportDirectionTypes DEF Types, NodeTypes
<1>4. disk' \in [Nodes -> SUBSET Copies]
  BY <1>1, <1>2, ShipsType DEF Types, NodeTypes
<1>5. NodeTypes'
  BY <1>4 DEF Types, NodeTypes, Direction
<1> QED BY <1>3, <1>5 DEF Types, Direction, StoreTypes, RequestTypes, storeVars, requests

LEMMA CompletesTypes ==
  ASSUME Types, NEW n \in Nodes, NEW c \in Cases, Completes(n, c) PROVE Types'
<1>1. PICK s \in VersionsOf[c]["archive"], h \in MaybeSha :
        Finish(n, c, h) /\ Ships(n, c, "archive", s)
  BY Versions, Names DEF Completes, MaybeSha
<1>2. s \in Shas
  BY Versions, Names
<1>3. DbTypes'
  BY <1>1, FinishTypes DEF Types
<1>4. disk' \in [Nodes -> SUBSET Copies]
  BY <1>1, <1>2, ShipsType, Names DEF Types, NodeTypes
<1>5. using' \in [Nodes -> [Cases -> MaybeSha]]
  BY DEF Types, NodeTypes, Completes, MaybeSha
<1>6. NodeTypes'
  BY <1>4, <1>5 DEF Types, NodeTypes, Completes
<1> QED BY <1>3, <1>6 DEF Types, Completes, StoreTypes, RequestTypes, storeVars, requests

(* The store, call by call.                                                *)

LEMMA NothingType == Nothing \in Incoming /\ Nothing.chunks = 0
BY SizeFacts DEF Nothing, Incoming

LEMMA GrowsTypes ==
  ASSUME StoreTypes, NEW s \in Shas, NEW own \in BOOLEAN, NEW offset \in Nat, Takes(s, offset),
         Grows(s, own), verifying' \in SUBSET VerifyRow, UNCHANGED objects
  PROVE  StoreTypes'
<1> DEFINE now == [chunks |-> incoming[s].chunks + 1, own |-> incoming[s].own /\ own]
<1>1. incoming[s].chunks \in 0..(Size - 1)
  BY SizeFacts DEF StoreTypes, Takes, Incoming
<1>2. incoming[s].chunks + 1 \in 0..Size /\ incoming[s].chunks + 1 > 0
  BY <1>1, SizeFacts
<1>3. now \in Incoming /\ now.chunks > 0
  BY <1>2 DEF Incoming
<1>4. incoming' = [incoming EXCEPT ![s] = now] /\ young' = young \cup {s}
  BY DEF Grows
<1> HIDE DEF now
<1> QED BY <1>3, <1>4 DEF StoreTypes

LEMMA VerifiedTypes ==
  ASSUME StoreTypes, NEW v \in VerifyRow, VerifyStored(v) \/ VerifyFailed(v) PROVE StoreTypes'
<1>0. v.sha \in Shas BY DEF VerifyRow
<1>1. CASE VerifyStored(v)
  BY <1>0, <1>1, NothingType DEF StoreTypes, VerifyStored
<1>2. CASE VerifyFailed(v) /\ incoming[v.sha].chunks = Size
  BY <1>0, <1>2, NothingType DEF StoreTypes, VerifyFailed
<1>3. CASE VerifyFailed(v) /\ incoming[v.sha].chunks # Size
  BY <1>3 DEF StoreTypes, VerifyFailed
<1> QED BY <1>1, <1>2, <1>3

(* A file goes: what is left of an upload of the same content stays.       *)
LEMMA UnlinkTypes == ASSUME StoreTypes, NEW s, Unlink(s) PROVE StoreTypes'
BY DEF StoreTypes, Unlink

LEMMA UnlinkIncomingTypes ==
  ASSUME StoreTypes, NEW s \in Shas, s \notin young, UnlinkIncoming(s) PROVE StoreTypes'
BY NothingType DEF StoreTypes, UnlinkIncoming

LEMMA SettleTypes == ASSUME StoreTypes, NEW s \in Shas, Settle(s) PROVE StoreTypes'
BY DEF StoreTypes, Settle

LEMMA RestartTypes == ASSUME StoreTypes, StoreRestart PROVE StoreTypes'
BY DEF StoreTypes, StoreRestart

-----------------------------------------------------------------------------
LEMMA TelemetryTypes ==
  ASSUME Types, NEW n \in Nodes, NEW c \in Cases, Telemetry(n, c) PROVE Types'
<1>1. DbTypes'
  BY PostCountTypes, PostCurveTypes DEF Types, Telemetry
<1> QED BY <1>1, DatabaseOnly DEF Telemetry, Types

LEMMA FieldsTypes ==
  ASSUME Types, NEW n \in Nodes, NEW c \in Cases, NEW d \in Dirs, Field(n, c, d) \/ Backfill(n, c, d)
  PROVE  Types'
<1>1. DbTypes'
  BY FieldTypes DEF Types, Field, Backfill
<1>2. UNCHANGED <<storeVars, requests, nodeVars, outraced, faults>>
  BY DEF Field, Backfill
<1> QED BY <1>1, <1>2, DatabaseOnly DEF Types

LEMMA AskWantedTypes == ASSUME Types, NEW c \in Cases, AskWanted(c) PROVE Types'
<1>1. DbTypes'
  BY HealReceiptTypes DEF Types, AskWanted
<1> QED BY <1>1, DatabaseOnly DEF AskWanted, Types

LEMMA LetsGoTypes ==
  ASSUME NodeTypes, NEW gone \in SUBSET Shas, LetsGo(gone) PROVE NodeTypes'
BY DEF NodeTypes, LetsGo

LEMMA ResetTypes == ASSUME Types, NEW c \in Cases, Reset(c) PROVE Types'
<1>1. DbTypes'
  BY ResetPartsTypes DEF Types, Reset
<1>2. {blob[c][p] : p \in Parts} \ {NoSha} \in SUBSET Shas
  BY Names DEF Types, DbTypes, MaybeSha
<1>3. NodeTypes' /\ faults' \in 0..MaxFaults
  BY <1>2, LetsGoTypes, FaultType DEF Types, Reset
<1> QED BY <1>1, <1>3 DEF Reset, Types, StoreTypes, RequestTypes, storeVars, requests

LEMMA ScannedTypes == ASSUME Types, NEW c \in Cases, Scanned(c) PROVE Types'
<1>1. DbTypes'
  BY RecordReceiptTypes DEF Types, Scanned
<1> QED BY <1>1, DatabaseOnly DEF Scanned, Types

LEMMA CopyFields ==
  ASSUME NEW copy \in Copies
  PROVE  copy.case \in Cases /\ copy.part \in Blobs /\ copy.sha \in Shas
BY DEF Copies

LEMMA ChunksInt == ASSUME StoreTypes, NEW s \in Shas PROVE incoming[s].chunks \in 0..Size
BY DEF StoreTypes, Incoming

LEMMA SendFromType ==
  ASSUME upload \in [Nodes -> {NoUpload} \cup UploadRow], NEW n \in Nodes, NEW copy \in Copies,
         NEW offset \in 0..Size, SendFrom(n, copy, offset)
  PROVE  upload' \in [Nodes -> {NoUpload} \cup UploadRow]
<1>1. [of |-> copy, offset |-> offset] \in UploadRow
  BY DEF UploadRow
<1> QED BY <1>1 DEF SendFrom

LEMMA AskTypes ==
  ASSUME Types, NEW n \in Nodes, NEW copy \in disk[n], Ask(n, copy) PROVE Types'
<1>0. copy \in Copies
  BY DEF Types, NodeTypes
<1>1. copy.case \in Cases /\ copy.part \in Blobs /\ copy.sha \in Shas
  BY <1>0, CopyFields
<1>2. landing' \in SUBSET Copies
  BY <1>0 DEF Ask, Types, RequestTypes
<1>3. verifying' \in SUBSET VerifyRow
  <2>1. CASE StartVerify(copy.sha, [case |-> copy.case, part |-> copy.part])
    BY <1>1, <2>1, StartVerifyType DEF Types
  <2>2. CASE UNCHANGED verifying
    BY <2>2 DEF Types, StoreTypes
  <2> QED BY <2>1, <2>2 DEF Ask, storeVars
<1>4. upload' \in [Nodes -> {NoUpload} \cup UploadRow]
  <2>1. CASE SendFrom(n, copy, incoming[copy.sha].chunks)
    BY <1>0, <1>1, <2>1, SendFromType, ChunksInt DEF Types, NodeTypes
  <2>2. CASE UNCHANGED upload
    BY <2>2 DEF Types, NodeTypes
  <2> QED BY <2>1, <2>2 DEF Ask
<1>5. UNCHANGED <<partVars, objects, young, incoming, removal, sweep, using, disk, prune, late, outraced, faults>>
  BY DEF Ask, storeVars
<1>6. StoreTypes' /\ RequestTypes' /\ NodeTypes'
  BY <1>2, <1>3, <1>4, <1>5 DEF Types, StoreTypes, RequestTypes, NodeTypes
<1> QED BY <1>5, <1>6 DEF Types, DbTypes, partVars

LEMMA UploadFields ==
  ASSUME Types, NEW n \in Nodes, upload[n] # NoUpload
  PROVE  upload[n].of \in Copies /\ upload[n].offset \in 0..Size
BY DEF Types, NodeTypes, UploadRow

LEMMA StopsType ==
  ASSUME upload \in [Nodes -> {NoUpload} \cup UploadRow], NEW n \in Nodes, Stops(n)
  PROVE  upload' \in [Nodes -> {NoUpload} \cup UploadRow]
BY DEF Stops

LEMMA ChunkTypes ==
  ASSUME Types, NEW n \in Nodes, NEW heard \in BOOLEAN, Chunk(n, heard) PROVE Types'
<1> DEFINE copy   == upload[n].of
           target == Expected(copy.case, copy.part)
           offset == upload[n].offset
<1>0. copy \in Copies /\ offset \in 0..Size
  BY UploadFields DEF Chunk
<1>1. copy.case \in Cases /\ copy.part \in Blobs /\ copy.sha \in Shas
  BY <1>0, CopyFields
<1>2. target \in Shas
  BY <1>1, ExpectedType DEF Types, Chunk, MaybeSha
<1>3. /\ Takes(target, offset) /\ Grows(target, target = copy.sha)
      /\ IF offset + 1 = Size THEN StartVerify(target, [case |-> copy.case, part |-> copy.part])
         ELSE UNCHANGED verifying
      /\ IF heard THEN /\ IF offset + 1 = Size THEN Stops(n) ELSE SendFrom(n, copy, offset + 1)
                       /\ UNCHANGED faults
         ELSE faults < MaxFaults /\ faults' = faults + 1 /\ UNCHANGED upload
      /\ UNCHANGED <<partVars, objects, requests, using, disk, prune, late, outraced>>
  BY DEF Chunk
<1> HIDE DEF target
<1>4. verifying' \in SUBSET VerifyRow
  <2>1. CASE offset + 1 = Size
    BY <1>1, <1>2, <1>3, <2>1, StartVerifyType DEF Types
  <2>2. CASE offset + 1 # Size
    BY <1>3, <2>2 DEF Types, StoreTypes
  <2> QED BY <2>1, <2>2
<1>5. StoreTypes'
  <2> DEFINE own == target = copy.sha
  <2>1. own \in BOOLEAN
    OBVIOUS
  <2>2. StoreTypes /\ offset \in Nat
    BY <1>0, SizeFacts DEF Types
  <2>3. Takes(target, offset) /\ Grows(target, own) /\ objects' = objects
    BY <1>3
  <2> HIDE DEF own, offset
  <2> QED BY <1>2, <1>4, <2>1, <2>2, <2>3, GrowsTypes
<1>6. upload' \in [Nodes -> {NoUpload} \cup UploadRow]
  <2>1. CASE heard /\ offset + 1 = Size
    BY <1>3, <2>1, StopsType DEF Types, NodeTypes
  <2>2. CASE heard /\ offset + 1 # Size
    <3>1. offset + 1 \in 0..Size
      <4>1. offset < Size
        BY <1>3 DEF Takes
      <4> HIDE DEF offset
      <4> QED BY <1>0, <4>1, SizeFacts
    <3> QED BY <1>0, <1>3, <2>2, <3>1, SendFromType DEF Types, NodeTypes
  <2>3. CASE ~heard
    BY <1>3, <2>3 DEF Types, NodeTypes
  <2> QED BY <2>1, <2>2, <2>3
<1>7. faults' \in 0..MaxFaults
  BY <1>3, SizeFacts DEF Types
<1>8. RequestTypes' /\ NodeTypes' /\ DbTypes'
  BY <1>3, <1>6 DEF Types, RequestTypes, NodeTypes, DbTypes, partVars, requests
<1> QED BY <1>3, <1>5, <1>7, <1>8 DEF Types

LEMMA ChunkRefusedTypes ==
  ASSUME Types, NEW n \in Nodes, ChunkRefused(n) PROVE Types'
<1> DEFINE copy   == upload[n].of
           target == Expected(copy.case, copy.part)
<1>1. copy \in Copies /\ copy.case \in Cases /\ copy.part \in Blobs
  BY UploadFields, CopyFields DEF ChunkRefused
<1>2. target \in MaybeSha
  BY <1>1, ExpectedType DEF Types
<1>3. upload' \in [Nodes -> {NoUpload} \cup UploadRow]
  <2>1. CASE Stops(n)
    BY <2>1, StopsType DEF Types, NodeTypes
  <2>2. CASE target # NoSha /\ SendFrom(n, copy, incoming[target].chunks)
    <3>1. incoming[target].chunks \in 0..Size
      BY <1>2, <2>2, ChunksInt DEF Types, MaybeSha
    <3> QED BY <1>1, <2>2, <3>1, SendFromType DEF Types, NodeTypes
  <2> QED BY <2>1, <2>2 DEF ChunkRefused
<1>4. UNCHANGED <<partVars, storeVars, requests, using, disk, prune, late, outraced, faults>>
  BY DEF ChunkRefused
<1>5. NodeTypes'
  BY <1>3, <1>4 DEF Types, NodeTypes
<1> QED BY <1>4, <1>5 DEF Types, DbTypes, StoreTypes, RequestTypes, partVars, storeVars, requests

LEMMA VerifiedStepTypes ==
  ASSUME Types, NEW v \in verifying, Verified(v) PROVE Types'
<1>1. v \in VerifyRow
  BY DEF Types, StoreTypes
<1>2. StoreTypes'
  BY <1>1, VerifiedTypes DEF Types, Verified
<1>3. Landing(v.label.case, v.label.part, v.sha) \in Copies
  BY <1>1 DEF VerifyRow, Landing, Copies
<1>4. landing' \in SUBSET Copies
  BY <1>3 DEF Types, RequestTypes, Verified
<1>5. UNCHANGED <<partVars, removal, sweep, nodeVars, outraced, faults>>
  BY DEF Verified
<1>6. RequestTypes'
  BY <1>4, <1>5 DEF Types, RequestTypes
<1> QED BY <1>2, <1>5, <1>6 DEF Types, DbTypes, NodeTypes, partVars, nodeVars

LEMMA RecordTypes ==
  ASSUME Types, NEW l \in landing, Record(l) PROVE Types'
<1>1. l \in Copies
  BY DEF Types, RequestTypes
<1>2. l.case \in Cases /\ l.part \in Blobs /\ l.sha \in Shas
  BY <1>1, CopyFields
<1>3. DbTypes'
  BY <1>2, RecordBlobTypes DEF Types, Record
<1>4. RequestTypes' /\ outraced' \in SUBSET Shas
  BY <1>2 DEF Types, RequestTypes, Record
<1> QED BY <1>3, <1>4 DEF Types, Record, StoreTypes, NodeTypes, storeVars, nodeVars

LEMMA PruningTypes ==
  ASSUME Types, NEW n \in Nodes, Prune(n) \/ \E c \in Cases : AskCustody(n, c) PROVE Types'
<1>1. NodeTypes' /\ UNCHANGED <<partVars, storeVars, requests, outraced, faults>>
  <2>1. CASE Prune(n)
    <3>1. disk' \in [Nodes -> SUBSET Copies]
      <4> DEFINE left == disk[n] \ prune[n]
      <4>1. left \in SUBSET Copies BY DEF Types, NodeTypes
      <4>2. disk' = [disk EXCEPT ![n] = left] BY <2>1 DEF Prune
      <4> HIDE DEF left
      <4> QED BY <4>1, <4>2 DEF Types, NodeTypes
    <3>2. prune' \in [Nodes -> SUBSET Copies]
      BY <2>1 DEF Types, NodeTypes, Prune
    <3>3. late' \in [Nodes -> SUBSET Shas]
      BY <2>1 DEF Types, NodeTypes, Prune
    <3>4. UNCHANGED <<using, upload>> /\ UNCHANGED <<partVars, storeVars, requests, outraced, faults>>
      BY <2>1 DEF Prune
    <3>5. using' \in [Nodes -> [Cases -> MaybeSha]] /\ upload' \in [Nodes -> {NoUpload} \cup UploadRow]
      BY <3>4 DEF Types, NodeTypes
    <3>6. NodeTypes'
      BY <3>1, <3>2, <3>3, <3>5 DEF NodeTypes
    <3> QED BY <3>4, <3>6
  <2>2. CASE \E c \in Cases : AskCustody(n, c)
    <3>1. PICK c \in Cases : AskCustody(n, c)
      BY <2>2
    <3>2. Deletable(n, c) \in SUBSET Copies
      BY DEF Types, NodeTypes, Deletable
    <3>3. prune' \in [Nodes -> SUBSET Copies]
      BY <3>1, <3>2 DEF Types, NodeTypes, AskCustody
    <3>4. UNCHANGED <<using, disk, upload, late>>
          /\ UNCHANGED <<partVars, storeVars, requests, outraced, faults>>
      BY <3>1 DEF AskCustody
    <3> QED BY <3>3, <3>4 DEF Types, NodeTypes
  <2> QED BY <2>1, <2>2
<1> QED BY <1>1 DEF Types, DbTypes, StoreTypes, RequestTypes, partVars, storeVars, requests

LEMMA DeleteRowTypes ==
  ASSUME Types, NEW c \in Cases, NEW p \in Blobs, DeleteRow(c, p) PROVE Types'
<1>1. DbTypes'
  BY DropBlobTypes DEF Types, DeleteRow
<1>2. blob[c][p] \in Shas
  BY DEF Types, DbTypes, DeleteRow, DropBlob, MaybeSha
<1>3. HeldBeside(c, p) \cup ReleaseFiles \in SUBSET Shas
  BY SizeFacts DEF HeldBeside
<1>4. [on |-> TRUE, sha |-> blob[c][p], saw |-> HeldBeside(c, p) \cup ReleaseFiles] \in RemovalRow
  BY <1>2, <1>3 DEF RemovalRow
<1>5. RequestTypes'
  BY <1>4 DEF Types, RequestTypes, DeleteRow
<1>6. faults' \in 0..MaxFaults
  BY FaultType DEF Types, DeleteRow
<1>7. NodeTypes'
  BY <1>2, LetsGoTypes DEF Types, DeleteRow
<1> QED BY <1>1, <1>5, <1>6, <1>7 DEF Types, DeleteRow, StoreTypes, storeVars

LEMMA OvertakenType ==
  ASSUME outraced \in SUBSET Shas, NEW s \in Shas, NEW saw
  PROVE  Overtaken(s, saw) \in SUBSET Shas
BY DEF Overtaken

LEMMA NoWorkOff == ~NoWork.on
BY DEF NoWork

LEMMA DeleteFileTypes == ASSUME Types, DeleteFile PROVE Types'
<1>1. removal \in RemovalRow
  BY NoWorkOff DEF Types, RequestTypes, DeleteFile
<1>2. removal.sha \in Shas
  BY <1>1 DEF RemovalRow
<1>3. StoreTypes'
  BY UnlinkTypes DEF Types, DeleteFile
<1>4. outraced' \in SUBSET Shas
  BY <1>2, OvertakenType DEF Types, DeleteFile
<1>5. RequestTypes'
  BY DEF Types, RequestTypes, DeleteFile
<1> QED BY <1>3, <1>4, <1>5 DEF Types, DeleteFile, DbTypes, NodeTypes, partVars, nodeVars

LEMMA KeptTypes ==
  ASSUME DbTypes PROVE KeptShas \in SUBSET Shas /\ AllReferenced \in SUBSET Shas
<1>1. ReferencedBlobs \subseteq Shas
  BY DEF ReferencedBlobs, DbTypes, MaybeSha
<1> QED BY <1>1, SizeFacts DEF KeptShas, AllReferenced

LEMMA SweepTypes ==
  ASSUME Types, SweepReads \/ SweepEnds \/ \E s \in Shas : SweepUnlinks(s) PROVE Types'
<1>1. CASE SweepReads
  <2>1. [on |-> TRUE, keep |-> KeptShas, saw |-> AllReferenced] \in SweepRow
    BY KeptTypes DEF Types, SweepRow
  <2>2. RequestTypes' /\ faults' \in 0..MaxFaults
    BY <1>1, <2>1, FaultType DEF Types, RequestTypes, SweepReads
  <2> QED BY <1>1, <2>2 DEF Types, SweepReads, DbTypes, StoreTypes, NodeTypes, partVars, storeVars, nodeVars
<1>2. CASE SweepEnds
  <2>1. RequestTypes'
    BY <1>2 DEF Types, RequestTypes, SweepEnds
  <2> QED BY <1>2, <2>1 DEF Types, SweepEnds, DbTypes, StoreTypes, NodeTypes, partVars, storeVars, nodeVars
<1>3. ASSUME NEW s \in Shas, SweepUnlinks(s) PROVE Types'
  <2>1. StoreTypes' /\ outraced' \in SUBSET Shas
    <3>1. CASE Unlink(s) /\ outraced' = Overtaken(s, sweep.saw)
      BY <3>1, UnlinkTypes, OvertakenType DEF Types
    <3>2. CASE s \notin young /\ UnlinkIncoming(s) /\ UNCHANGED outraced
      BY <3>2, UnlinkIncomingTypes DEF Types
    <3> QED BY <1>3, <3>1, <3>2 DEF SweepUnlinks
  <2> QED
    BY <1>3, <2>1 DEF Types, SweepUnlinks, DbTypes, RequestTypes, NodeTypes, partVars, requests, nodeVars
<1> QED BY <1>1, <1>2, <1>3

LEMMA AgesTypes == ASSUME Types, NEW s \in Shas, Ages(s) PROVE Types'
<1>1. StoreTypes'
  BY SettleTypes DEF Types, Ages
<1> QED BY <1>1 DEF Types, Ages, DbTypes, RequestTypes, NodeTypes, partVars, requests, nodeVars

LEMMA RestartStepTypes == ASSUME Types, Restart PROVE Types'
<1>1. StoreTypes' /\ faults' \in 0..MaxFaults
  BY RestartTypes, FaultType DEF Types, Restart
<1>2. RequestTypes'
  BY DEF Restart, RequestTypes
<1> QED BY <1>1, <1>2 DEF Types, Restart, DbTypes, NodeTypes, partVars, nodeVars

-----------------------------------------------------------------------------
LEMMA InitTypes == Init => Types
<1> SUFFICES ASSUME Init PROVE Types
  OBVIOUS
<1>1. PICK made \in [Finished -> Shas], n \in Nodes :
        /\ life = [c \in Cases |-> IF c \in Finished
                     THEN [state |-> "done", holder |-> NoNode, result |-> made[c]] ELSE Unseen]
        /\ disk = [m \in Nodes |-> IF m = n
                     THEN {[case |-> c, part |-> "archive", sha |-> made[c]] : c \in Finished} ELSE {}]
  BY DEF Init
<1>2. Finished \subseteq Cases
  BY CustodyAssumption DEF CustodyAssumption
<1>3. life \in [Cases -> LifeRow]
  <2>1. Unseen \in LifeRow
    BY DEF Unseen, LifeRow, MaybeSha
  <2>2. ASSUME NEW c \in Finished
        PROVE  [state |-> "done", holder |-> NoNode, result |-> made[c]] \in LifeRow
    BY DEF LifeRow, MaybeSha
  <2> QED BY <1>1, <2>1, <2>2
<1>4. {[case |-> c, part |-> "archive", sha |-> made[c]] : c \in Finished} \subseteq Copies
  BY <1>2, Names DEF Copies
<1>5. disk \in [Nodes -> SUBSET Copies]
  BY <1>1, <1>4
<1>6. DbTypes
  <2>1. NoPart \in PartRow /\ NoReceipt \in ReceiptRow
    BY DEF NoPart, PartRow, NoReceipt, ReceiptRow, MaybeSha
  <2> QED BY <1>3, <2>1, NoCurvesType DEF Init, PartsInit, DbTypes, MaybeSha
<1>7. StoreTypes
  BY NothingType, SizeFacts DEF Init, StoreInit, StoreTypes
<1>8. RequestTypes /\ NodeTypes
  BY <1>5 DEF Init, RequestTypes, NodeTypes, MaybeSha
<1> QED BY <1>6, <1>7, <1>8, SizeFacts DEF Init, Types

LEMMA NextTypes == Types /\ [Next]_vars => Types'
<1> SUFFICES ASSUME Types, [Next]_vars PROVE Types'
  OBVIOUS
<1>1. ASSUME NEW n \in Nodes, NEW c \in Cases,
             \/ \E says \in Sayings : Take(n, c, says)
             \/ TakeBack(n, c) \/ Mesh(n, c) \/ Telemetry(n, c) \/ Completes(n, c) \/ AskCustody(n, c)
      PROVE  Types'
  BY <1>1, TakeTypes, TakeBackTypes, MeshTypes, TelemetryTypes, CompletesTypes, PruningTypes
<1>2. ASSUME NEW n \in Nodes, NEW c \in Cases, NEW d \in Dirs,
             Direction(n, c, d) \/ Field(n, c, d) \/ Backfill(n, c, d)
      PROVE  Types'
  BY <1>2, DirectionTypes, FieldsTypes
<1>3. ASSUME NEW n \in Nodes, NEW copy \in disk[n], Ask(n, copy) PROVE Types'
  BY <1>3, AskTypes
<1>4. ASSUME NEW n \in Nodes, Chunk(n, TRUE) \/ Chunk(n, FALSE) \/ ChunkRefused(n) \/ Prune(n)
      PROVE  Types'
  BY <1>4, ChunkTypes, ChunkRefusedTypes, PruningTypes
<1>5. ASSUME NEW c \in Cases, LoseCase(c) \/ AskWanted(c) \/ Reset(c) \/ Scanned(c) PROVE Types'
  BY <1>5, LoseCaseTypes, AskWantedTypes, ResetTypes, ScannedTypes
<1>6. ASSUME NEW c \in Cases, NEW p \in Blobs, DeleteRow(c, p) PROVE Types'
  BY <1>6, DeleteRowTypes
<1>7. ASSUME NEW v \in verifying, Verified(v) PROVE Types'
  BY <1>7, VerifiedStepTypes
<1>8. ASSUME NEW l \in landing, Record(l) PROVE Types'
  BY <1>8, RecordTypes
<1>9. CASE DeleteFile \/ SweepReads \/ SweepEnds \/ Restart
  BY <1>9, DeleteFileTypes, SweepTypes, RestartStepTypes
<1>10. ASSUME NEW s \in Shas, SweepUnlinks(s) \/ Ages(s) PROVE Types'
  BY <1>10, SweepTypes, AgesTypes
<1>11. CASE UNCHANGED vars
  BY <1>11 DEF vars, partVars, storeVars, requests, nodeVars, Types, DbTypes, StoreTypes,
     RequestTypes, NodeTypes
<1> QED
  BY <1>1, <1>2, <1>3, <1>4, <1>5, <1>6, <1>7, <1>8, <1>9, <1>10, <1>11 DEF Next

(* Whatever the requests, faults and restarts, every row, file, upload and *)
(* pending request of the broker and its nodes has its type.               *)
THEOREM CustodyTypes == Spec => []TypeOK
<1>1. Types => TypeOK
  BY TypesAreTypes
<1> QED BY <1>1, InitTypes, NextTypes, PTL DEF Spec

LEMMA AlwaysTypes == Spec => []Types
BY InitTypes, NextTypes, PTL DEF Spec

-----------------------------------------------------------------------------
(* The calls of the database a step may make, with what they are given.    *)

NodeCall(n, c) ==
  \/ (\E says \in Sayings : Claim(n, c, says)) \/ Resume(n, c) \/ PostCount(n, c)
  \/ \E s \in VersionsOf[c]["archive"] \cup {NoSha} : Finish(n, c, s)
  \/ \E m \in VersionsOf[c]["mesh"] : ReportMesh(n, c, m)
  \/ \E d \in Dirs :
       \/ \E s \in VersionsOf[c][d], m \in MaybeSha : ReportDirection(n, c, d, s, m)
       \/ \E source \in {"reports", "trace"} : PostCurve(n, c, d, source)
       \/ PutField(n, c, d)

BrokerCall(c) ==
  \/ Unlease(c) \/ ResetParts(c) \/ HealReceipt(c)
  \/ \E at \in Locations, s \in Shas : RecordReceipt(c, at, s)
  \/ \E d \in Dirs : BackfillField(c, d)
  \/ \E p \in Blobs : DropBlob(c, p) \/ \E s \in Shas : RecordBlob(c, p, s)

DbStep ==
  \/ \E n \in Nodes, c \in Cases : NodeCall(n, c)
  \/ \E c \in Cases : BrokerCall(c)
  \/ UNCHANGED partVars

LEMMA DbSteps == Types /\ [Next]_vars => DbStep
<1> SUFFICES ASSUME Types, [Next]_vars PROVE DbStep
  OBVIOUS
<1>1. ASSUME NEW n \in Nodes, NEW c \in Cases,
             \/ \E says \in Sayings : Take(n, c, says)
             \/ TakeBack(n, c) \/ Mesh(n, c) \/ Telemetry(n, c) \/ Completes(n, c) \/ AskCustody(n, c)
      PROVE  DbStep
  <2>0. CASE TakeBack(n, c) BY <2>0 DEF TakeBack, DbStep, NodeCall
  <2>1. CASE \E says \in Sayings : Take(n, c, says) BY <2>1 DEF Take, DbStep, NodeCall
  <2>2. CASE Mesh(n, c) BY <2>2 DEF Mesh, DbStep, NodeCall
  <2>3. CASE Telemetry(n, c) BY <2>3 DEF Telemetry, DbStep, NodeCall
  <2>4. CASE Completes(n, c) BY <2>4 DEF Completes, DbStep, NodeCall
  <2>5. CASE AskCustody(n, c) BY <2>5 DEF AskCustody, DbStep
  <2> QED BY <1>1, <2>0, <2>1, <2>2, <2>3, <2>4, <2>5
<1>2. ASSUME NEW n \in Nodes, NEW c \in Cases, NEW d \in Dirs,
             Direction(n, c, d) \/ Field(n, c, d) \/ Backfill(n, c, d)
      PROVE  DbStep
  <2>1. CASE Direction(n, c, d)
    <3>1. using[n][c] \in MaybeSha BY DEF Types, NodeTypes
    <3> QED BY <2>1, <3>1 DEF Direction, DbStep, NodeCall
  <2>2. CASE Field(n, c, d) BY <2>2 DEF Field, DbStep, NodeCall
  <2>3. CASE Backfill(n, c, d) BY <2>3 DEF Backfill, DbStep, BrokerCall
  <2> QED BY <1>2, <2>1, <2>2, <2>3
<1>3. ASSUME NEW n \in Nodes,
             \/ \E copy \in disk[n] : Ask(n, copy)
             \/ Chunk(n, TRUE) \/ Chunk(n, FALSE) \/ ChunkRefused(n) \/ Prune(n)
      PROVE  UNCHANGED partVars
  BY <1>3 DEF Ask, Chunk, ChunkRefused, Prune
<1>4. ASSUME NEW c \in Cases, LoseCase(c) \/ AskWanted(c) \/ Reset(c) \/ Scanned(c) PROVE DbStep
  BY <1>4 DEF LoseCase, AskWanted, Reset, Scanned, DbStep, BrokerCall
<1>5. ASSUME NEW c \in Cases, NEW p \in Blobs, DeleteRow(c, p) PROVE DbStep
  BY <1>5 DEF DeleteRow, DbStep, BrokerCall
<1>6. ASSUME NEW l \in landing, Record(l) PROVE DbStep
  <2>1. l.case \in Cases /\ l.part \in Blobs /\ l.sha \in Shas
    BY CopyFields DEF Types, RequestTypes
  <2> QED BY <1>6, <2>1 DEF Record, DbStep, BrokerCall
<1>7. CASE \/ \E v \in verifying : Verified(v)
           \/ DeleteFile \/ SweepReads \/ SweepEnds \/ Restart
           \/ \E s \in Shas : SweepUnlinks(s) \/ Ages(s)
  BY <1>7 DEF Verified, DeleteFile, SweepReads, SweepEnds, Restart, SweepUnlinks, Ages, DbStep
<1>8. CASE UNCHANGED vars
  BY <1>8 DEF vars, DbStep
<1> QED
  BY <1>1, <1>2, <1>3, <1>4, <1>5, <1>6, <1>7, <1>8 DEF Next, DbStep

-----------------------------------------------------------------------------
(* Every hash on record is one of the case's own; only a done case has a   *)
(* receipt, at the master none of the store's; no part is held that is not *)
(* on record.                                                              *)
OwnedAt(c) ==
  /\ life[c].result \in VersionsOf[c]["archive"] \cup {NoSha}
  /\ \A p \in Parts : /\ part[c][p].sha \in VersionsOf[c][p] \cup {NoSha}
                      /\ blob[c][p] # NoSha => OnRecord(c, p)
  /\ \A p \in Blobs : blob[c][p] \in VersionsOf[c][p] \cup {NoSha}
  /\ \A at \in Locations : /\ receipt[c][at] # NoReceipt => life[c].state = "done"
                           /\ receipt[c][at].from = "hand" =>
                                life[c].result \in {receipt[c][at].sha, NoSha}
                           /\ receipt[c][at].from = "none" => receipt[c][at] = NoReceipt
                           /\ receipt[c][at].from = "store" => at = "broker"

Owned == \A c \in Cases : OwnedAt(c)

(* A claim of either kind changes nothing that OwnedAt speaks of but life. *)
LEMMA ClaimsLife ==
  ASSUME DbTypes, NEW n \in Nodes, NEW c \in Cases,
         (\E says \in Sayings : Claim(n, c, says)) \/ Resume(n, c)
  PROVE  /\ life[c].state # "done" /\ UNCHANGED <<part, blob, receipt>>
         /\ \A b \in Cases : \/ life'[b] = life[b]
                            \/ /\ b = c
                               /\ life'[b] = [state |-> "leased", holder |-> n, result |-> NoSha]
BY DEF DbTypes, Claim, Resume, Leased, Holds

LEMMA OwnedNodeCall ==
  ASSUME Types, Owned, NEW n \in Nodes, NEW c \in Cases, NodeCall(n, c), NEW b \in Cases
  PROVE  OwnedAt(b)'
<1>0. OwnedAt(b) /\ OwnedAt(c) /\ DbTypes
  BY DEF Owned, Types
<1>1. CASE (\E says \in Sayings : Claim(n, c, says)) \/ Resume(n, c)
  <2>1. life'[b] = life[b] \/ (b = c /\ life'[b] = [state |-> "leased", holder |-> n, result |-> NoSha])
    BY <1>0, <1>1, ClaimsLife
  <2>2. life[c].state # "done" /\ UNCHANGED <<part, blob, receipt>>
    BY <1>0, <1>1, ClaimsLife
  <2>3. \A at \in Locations : b = c => receipt[b][at] = NoReceipt
    BY <1>0, <2>2 DEF OwnedAt
  <2> QED BY <1>0, <2>1, <2>2, <2>3 DEF OwnedAt, OnRecord, NoReceipt
<1>2. CASE PostCount(n, c)
  BY <1>0, <1>2 DEF PostCount, OwnedAt, OnRecord
<1>3. ASSUME NEW s \in VersionsOf[c]["archive"] \cup {NoSha}, Finish(n, c, s) PROVE OwnedAt(b)'
  <2>1. life'[b] = life[b] \/ (b = c /\ life'[b] = [state |-> "done", holder |-> NoNode, result |-> s])
    BY <1>3 DEF Types, DbTypes, Finish
  <2>2. life[c].state = "leased" /\ UNCHANGED <<part, blob, receipt>>
    BY <1>3 DEF Finish, Holds
  <2>3. \A at \in Locations : b = c => receipt[b][at] = NoReceipt
    BY <1>0, <2>2 DEF OwnedAt
  <2> QED BY <1>0, <2>1, <2>2, <2>3 DEF OwnedAt, OnRecord, NoReceipt
<1>4. ASSUME NEW m \in VersionsOf[c]["mesh"], ReportMesh(n, c, m) PROVE OwnedAt(b)'
  <2>0. part' = [part EXCEPT ![c] = WithMesh(c, m)]
    BY <1>4 DEF ReportMesh, WithMesh, OldParts, NoParts
  <2>1. part'[b] = part[b] \/ (b = c /\ part'[b] = WithMesh(c, m))
    BY <2>0 DEF Types, DbTypes
  <2>2. blob'[b] = blob[b] \/ (b = c /\ blob'[b] = OnlyArchive(blob[c]))
    BY <1>4 DEF Types, DbTypes, ReportMesh
  <2>3. \A p \in Parts : WithMesh(c, m)[p].sha \in VersionsOf[c][p] \cup {NoSha}
    <3>1. OldParts(c, m) \in [Parts -> PartRow]
      BY NoPartsType DEF Types, DbTypes, OldParts
    <3>2. \A p \in Parts : OldParts(c, m)[p].sha \in VersionsOf[c][p] \cup {NoSha}
      BY <1>0 DEF OldParts, NoParts, NoPart, OwnedAt
    <3> QED BY <3>1, <3>2 DEF WithMesh
  <2>4. \A p \in Blobs : OnlyArchive(blob[c])[p] \in VersionsOf[c][p] \cup {NoSha}
    BY <1>0 DEF OnlyArchive, OwnedAt
  <2>5. UNCHANGED <<life, receipt>>
    BY <1>4 DEF ReportMesh
  <2>6. \A p \in Parts : WithMesh(c, m)[p].sha = NoSha => part[c][p].sha = NoSha \/ blob'[c][p] = NoSha
    <3>1. OnRecord(c, "mesh") /\ part[c]["mesh"].sha # m => \A p \in Parts : blob'[c][p] = NoSha
      BY <1>0, <1>4, Names DEF DbTypes, ReportMesh, OnlyArchive
    <3>2. ~(OnRecord(c, "mesh") /\ part[c]["mesh"].sha # m) =>
            \A p \in Parts : WithMesh(c, m)[p].sha = NoSha => part[c][p].sha = NoSha
      <4>1. part[c] \in [Parts -> PartRow]
        BY <1>0 DEF DbTypes
      <4>2. m # NoSha
        BY Versions, Names, NoShaApart
      <4> QED BY <4>1, <4>2 DEF WithMesh, OldParts
    <3> QED BY <3>1, <3>2
  <2>7. \A p \in Parts : blob'[b][p] # NoSha => part'[b][p].sha # NoSha
    <3>1. CASE b = c
      <4>1. part'[c] = WithMesh(c, m)
        BY <1>0, <2>0 DEF DbTypes
      <4>2. \A p \in Parts : blob'[c][p] # NoSha => blob[c][p] # NoSha
        BY <2>2, <3>1, Names DEF OnlyArchive
      <4>3. \A p \in Parts : blob[c][p] # NoSha => part[c][p].sha # NoSha
        BY <1>0 DEF OwnedAt, OnRecord
      <4> QED BY <2>6, <3>1, <4>1, <4>2, <4>3
    <3>2. CASE b # c
      <4>1. part'[b] = part[b] /\ blob'[b] = blob[b]
        BY <2>1, <2>2, <3>2
      <4> QED BY <1>0, <4>1 DEF OwnedAt, OnRecord
    <3> QED BY <3>1, <3>2
  <2> QED BY <1>0, <2>1, <2>2, <2>3, <2>4, <2>5, <2>7 DEF OwnedAt, OnRecord
<1>5. ASSUME NEW d \in Dirs, NEW s \in VersionsOf[c][d], NEW m \in MaybeSha, ReportDirection(n, c, d, s, m)
      PROVE  OwnedAt(b)'
  <2>1. \A p \in Parts : part'[b][p] = part[b][p] \/ (b = c /\ p = d /\ part'[b][p].sha = s)
    BY <1>5, Names DEF Types, DbTypes, ReportDirection
  <2>2. UNCHANGED <<life, blob, receipt>>
    BY <1>5 DEF ReportDirection
  <2>3. s # NoSha
    BY Versions, Names, NoShaApart
  <2> QED BY <1>0, <2>1, <2>2, <2>3 DEF OwnedAt, OnRecord
<1>6. ASSUME NEW d \in Dirs, PutField(n, c, d) \/ \E source \in {"reports", "trace"} : PostCurve(n, c, d, source)
      PROVE  OwnedAt(b)'
  BY <1>0, <1>6 DEF PutField, PostCurve, OwnedAt, OnRecord
<1> QED BY <1>1, <1>2, <1>3, <1>4, <1>5, <1>6 DEF NodeCall

LEMMA ReceiptedValue ==
  ASSUME DbTypes, NEW c \in Cases, NEW b, NEW e \in Cases, NEW at \in Locations
  PROVE  \/ Receipted(c, b)[e][at] = receipt[e][at]
         \/ /\ e = c /\ at = "broker" /\ HeldInFull(c, b)
            /\ Receipted(c, b)[e][at] = [sha |-> life[c].result, from |-> "store"]
BY DEF Receipted, HeldInFull, DbTypes

LEMMA OwnedBrokerCall ==
  ASSUME Types, Owned, NEW c \in Cases, BrokerCall(c), NEW b \in Cases
  PROVE  OwnedAt(b)'
<1>0. OwnedAt(b) /\ OwnedAt(c) /\ DbTypes
  BY DEF Owned, Types
<1>1. CASE Unlease(c)
  <2>1. life'[b] = life[b] \/ (b = c /\ life'[b] = Unseen)
    BY <1>0, <1>1 DEF DbTypes, Unlease
  <2>2. life[c].state = "leased" /\ UNCHANGED <<part, blob, receipt>>
    BY <1>1 DEF Unlease
  <2>3. \A at \in Locations : b = c => receipt[b][at] = NoReceipt
    BY <1>0, <2>2 DEF OwnedAt
  <2> QED BY <1>0, <2>1, <2>2, <2>3 DEF OwnedAt, Unseen, OnRecord, NoReceipt
<1>2. CASE ResetParts(c)
  <2>1. part' = [part EXCEPT ![c] = NoParts] /\ blob' = [blob EXCEPT ![c] = OnlyArchive(blob[c])]
        /\ UNCHANGED <<life, receipt>>
    BY <1>2 DEF ResetParts, NoParts
  <2>2. part'[b] = part[b] \/ (b = c /\ part'[b] = NoParts)
    BY <1>0, <2>1 DEF DbTypes
  <2>3. blob'[b] = blob[b] \/ (b = c /\ blob'[b] = OnlyArchive(blob[c]))
    BY <1>0, <2>1 DEF DbTypes
  <2>4. \A p \in Parts : b = c => blob'[b][p] = NoSha
    BY <1>0, <2>1, Names DEF DbTypes, OnlyArchive
  <2>5. b # c => part'[b] = part[b] /\ blob'[b] = blob[b]
    BY <1>0, <2>1 DEF DbTypes
  <2> QED BY <1>0, <2>1, <2>2, <2>3, <2>4, <2>5 DEF OwnedAt, OnRecord, NoParts, NoPart, OnlyArchive
<1>3. CASE HealReceipt(c)
  <2>1. receipt' = Receipted(c, blob[c]) /\ UNCHANGED <<life, part, blob>>
    BY <1>3 DEF HealReceipt
  <2>2. \A at \in Locations :
          \/ receipt'[b][at] = receipt[b][at]
          \/ /\ b = c /\ at = "broker" /\ life[c].state = "done"
             /\ receipt'[b][at] = [sha |-> life[c].result, from |-> "store"]
    BY <1>0, <2>1, ReceiptedValue DEF HeldInFull
  <2> QED BY <1>0, <2>1, <2>2 DEF OwnedAt, OnRecord, NoReceipt
<1>4. ASSUME NEW l \in Locations, NEW s \in Shas, RecordReceipt(c, l, s) PROVE OwnedAt(b)'
  <2>1. \A at \in Locations :
          \/ receipt'[b][at] = receipt[b][at]
          \/ /\ b = c /\ life[c].state = "done" /\ life[c].result \in {s, NoSha}
             /\ receipt'[b][at] = [sha |-> s, from |-> "hand"]
    BY <1>0, <1>4 DEF DbTypes, RecordReceipt
  <2>2. UNCHANGED <<life, part, blob>>
    BY <1>4 DEF RecordReceipt
  <2> QED BY <1>0, <2>1, <2>2 DEF OwnedAt, OnRecord
<1>5. ASSUME NEW d \in Dirs, BackfillField(c, d) PROVE OwnedAt(b)'
  BY <1>0, <1>5 DEF BackfillField, OwnedAt, OnRecord
<1>6. ASSUME NEW p \in Blobs, DropBlob(c, p) PROVE OwnedAt(b)'
  <2>1. \A q \in Blobs : blob'[b][q] \in {blob[b][q], NoSha}
    BY <1>0, <1>6 DEF DbTypes, DropBlob
  <2>2. \A at \in Locations : receipt'[b][at] \in {receipt[b][at], NoReceipt}
    BY <1>0, <1>6 DEF DbTypes, DropBlob
  <2>3. UNCHANGED <<life, part>>
    BY <1>6 DEF DropBlob
  <2> QED BY <1>0, <2>1, <2>2, <2>3, Names DEF OwnedAt, OnRecord, NoReceipt
<1>7. ASSUME NEW p \in Blobs, NEW s \in Shas, RecordBlob(c, p, s) PROVE OwnedAt(b)'
  <2>1. CASE Expected(c, p) = s
    <3> DEFINE now == [blob[c] EXCEPT ![p] = s]
    <3>1. blob' = [blob EXCEPT ![c] = now] /\ receipt' = Receipted(c, now) /\ UNCHANGED <<life, part>>
      BY <1>7, <2>1 DEF RecordBlob
    <3>2. s \in VersionsOf[c][p]
      <4>1. CASE p = "archive"
        BY <1>0, <2>1, <4>1, NoShaApart DEF Expected, OwnedAt
      <4>2. CASE p # "archive"
        BY <1>0, <2>1, <4>2, NoShaApart, Names DEF Expected, OwnedAt
      <4> QED BY <4>1, <4>2
    <3>3. \A q \in Blobs : blob'[b][q] = blob[b][q] \/ (b = c /\ q = p /\ blob'[b][q] = s)
      BY <1>0, <3>1 DEF DbTypes
    <3> HIDE DEF now
    <3>4. \A at \in Locations :
            \/ receipt'[b][at] = receipt[b][at]
            \/ /\ b = c /\ at = "broker" /\ life[c].state = "done"
               /\ receipt'[b][at] = [sha |-> life[c].result, from |-> "store"]
      BY <1>0, <3>1, ReceiptedValue DEF HeldInFull
    <3>5. p \in Parts => part[c][p].sha = s
      BY <2>1, Names DEF Expected
    <3>6. \A q \in Parts : blob'[b][q] # NoSha => part[b][q].sha # NoSha
      BY <1>0, <3>2, <3>3, <3>5, Versions, Names, NoShaApart DEF OwnedAt, OnRecord
    <3>7. UNCHANGED <<life, part>>
      BY <3>1
    <3> QED BY <1>0, <3>2, <3>3, <3>4, <3>6, <3>7 DEF OwnedAt, OnRecord, NoReceipt
  <2>2. CASE Expected(c, p) # s
    BY <1>0, <1>7, <2>2 DEF RecordBlob, partVars, OwnedAt, OnRecord
  <2> QED BY <2>1, <2>2
<1> QED BY <1>1, <1>2, <1>3, <1>4, <1>5, <1>6, <1>7 DEF BrokerCall

LEMMA OwnedStep == Types /\ Owned /\ DbStep => Owned'
<1> SUFFICES ASSUME Types, Owned, DbStep, NEW b \in Cases PROVE OwnedAt(b)'
  BY DEF Owned
<1>1. CASE UNCHANGED partVars
  BY <1>1 DEF partVars, Owned, OwnedAt, OnRecord
<1> QED BY <1>1, OwnedNodeCall, OwnedBrokerCall DEF DbStep

LEMMA InitOwned == Init => Owned
<1> SUFFICES ASSUME Init, NEW c \in Cases PROVE OwnedAt(c)
  BY DEF Owned
<1>1. PICK made \in [Finished -> Shas] :
        /\ \A d \in Finished : made[d] \in VersionsOf[d]["archive"]
        /\ life = [d \in Cases |-> IF d \in Finished
                     THEN [state |-> "done", holder |-> NoNode, result |-> made[d]] ELSE Unseen]
  BY DEF Init
<1>2. /\ part[c] = NoParts
      /\ \A p \in Blobs : blob[c][p] = NoSha
      /\ \A at \in Locations : receipt[c][at] = NoReceipt
  BY DEF Init, PartsInit, NoParts
<1> QED BY <1>1, <1>2, NoShaApart, Names DEF OwnedAt, NoParts, NoPart, NoReceipt, Unseen

-----------------------------------------------------------------------------
(* No remover is about to take a file that was needed when it asked.       *)
Removers ==
  /\ removal.on => removal.sha \notin removal.saw
  /\ sweep.on => sweep.saw \subseteq sweep.keep

(* A file that goes with the last row that refers to it is no build's.     *)
LEMMA RowsFile ==
  ASSUME Types, Owned, NEW c \in Cases, NEW p \in Blobs, blob[c][p] # NoSha
  PROVE  blob[c][p] \in Shas \ ReleaseFiles
<1>1. blob[c][p] \in VersionsOf[c][p]
  BY DEF Owned, OwnedAt
<1>2. VersionsOf[c][p] \cap ReleaseFiles = {}
  BY CustodyAssumption DEF CustodyAssumption
<1> QED BY <1>1, <1>2, Versions

LEMMA ReferredIsKept == DbTypes => AllReferenced \subseteq KeptShas
<1> SUFFICES ASSUME NEW s \in Shas, Refers(s) PROVE s \in KeptShas
  BY DEF AllReferenced
<1>1. CASE s \in ReleaseFiles
  BY <1>1 DEF KeptShas
<1>2. ASSUME NEW c \in Cases, NEW p \in Blobs, blob[c][p] = s PROVE s \in KeptShas
  BY <1>2, NoShaApart DEF KeptShas, ReferencedBlobs
<1> QED BY <1>1, <1>2 DEF Refers

LEMMA RemoversStep == Types /\ Owned /\ Removers /\ [Next]_vars => Removers'
<1> SUFFICES ASSUME Types, Owned, Removers, [Next]_vars PROVE Removers'
  OBVIOUS
<1>1. ASSUME NEW c \in Cases, NEW p \in Blobs, DeleteRow(c, p) PROVE Removers'
  <2>1. blob[c][p] \in Shas \ ReleaseFiles
    BY <1>1, RowsFile DEF DeleteRow, DropBlob
  <2>2. UNCHANGED sweep
    BY <1>1 DEF DeleteRow
  <2>3. CASE blob[c][p] \in HeldBeside(c, p)
    BY <1>1, <2>2, <2>3 DEF DeleteRow, Removers, NoWork
  <2>4. CASE blob[c][p] \notin HeldBeside(c, p)
    BY <1>1, <2>1, <2>2, <2>4 DEF DeleteRow, Removers
  <2> QED BY <2>3, <2>4
<1>2. CASE SweepReads
  <2>1. AllReferenced \subseteq KeptShas
    BY ReferredIsKept DEF Types
  <2> QED BY <1>2, <2>1 DEF SweepReads, Removers
<1>3. CASE SweepEnds
  BY <1>3 DEF SweepEnds, Removers, NoWork
<1>4. CASE DeleteFile
  BY <1>4 DEF DeleteFile, Removers, NoWork
<1>5. CASE Restart
  BY <1>5 DEF Restart, Removers, NoWork
<1>6. CASE UNCHANGED <<removal, sweep>>
  BY <1>6 DEF Removers
<1>7. ASSUME NEW n \in Nodes, NEW c \in Cases,
             \/ \E says \in Sayings : Take(n, c, says)
             \/ TakeBack(n, c) \/ Mesh(n, c) \/ Telemetry(n, c) \/ Completes(n, c) \/ AskCustody(n, c)
             \/ \E d \in Dirs : Direction(n, c, d) \/ Field(n, c, d) \/ Backfill(n, c, d)
      PROVE  UNCHANGED <<removal, sweep>>
  BY <1>7 DEF Take, TakeBack, Mesh, Telemetry, Completes, AskCustody, Direction, Field, Backfill, requests
<1>8. ASSUME NEW n \in Nodes,
             \/ \E copy \in disk[n] : Ask(n, copy)
             \/ Chunk(n, TRUE) \/ Chunk(n, FALSE) \/ ChunkRefused(n) \/ Prune(n)
      PROVE  UNCHANGED <<removal, sweep>>
  BY <1>8 DEF Ask, Chunk, ChunkRefused, Prune, requests
<1>9. ASSUME NEW c \in Cases, LoseCase(c) \/ AskWanted(c) \/ Reset(c) \/ Scanned(c)
      PROVE  UNCHANGED <<removal, sweep>>
  BY <1>9 DEF LoseCase, AskWanted, Reset, Scanned, requests
<1>10. CASE \/ \E v \in verifying : Verified(v)
            \/ \E l \in landing : Record(l)
            \/ \E s \in Shas : SweepUnlinks(s) \/ Ages(s)
            \/ UNCHANGED vars
  BY <1>6, <1>10 DEF Verified, Record, SweepUnlinks, Ages, vars, requests
<1> QED
  BY <1>1, <1>2, <1>3, <1>4, <1>5, <1>6, <1>7, <1>8, <1>9, <1>10 DEF Next

-----------------------------------------------------------------------------
(* A row that refers to a file in the next state did so in this one, but   *)
(* for the row that record_blob writes.                                    *)

LEMMA NodeCallsRefer ==
  ASSUME DbTypes, NEW n \in Nodes, NEW c \in Cases, NodeCall(n, c), NEW b \in Cases, NEW p \in Blobs
  PROVE  blob'[b][p] \in {blob[b][p], NoSha}
<1>1. ASSUME NEW m, ReportMesh(n, c, m) PROVE blob'[b][p] \in {blob[b][p], NoSha}
  <2>1. blob' = blob \/ blob' = [blob EXCEPT ![c] = OnlyArchive(blob[c])]
    BY <1>1 DEF ReportMesh
  <2>2. blob'[b] = blob[b] \/ (b = c /\ blob'[b] = OnlyArchive(blob[c]))
    BY <2>1 DEF DbTypes
  <2> QED BY <2>2 DEF OnlyArchive
<1>2. CASE blob' = blob
  BY <1>2
<1> QED
  BY <1>1, <1>2 DEF NodeCall, Claim, Resume, PostCount, Finish, ReportDirection, PostCurve, PutField

LEMMA ResetRefers ==
  ASSUME DbTypes, NEW c \in Cases, ResetParts(c), NEW b \in Cases, NEW p \in Blobs
  PROVE  blob'[b][p] \in {blob[b][p], NoSha}
BY DEF DbTypes, ResetParts, OnlyArchive

LEMMA DropRefers ==
  ASSUME DbTypes, NEW c \in Cases, NEW q \in Blobs, DropBlob(c, q), NEW b \in Cases, NEW p \in Blobs
  PROVE  blob'[b][p] \in {blob[b][p], NoSha}
BY DEF DbTypes, DropBlob

LEMMA RecordRefers ==
  ASSUME DbTypes, NEW c \in Cases, NEW q \in Blobs, NEW s \in Shas, RecordBlob(c, q, s),
         NEW b \in Cases, NEW p \in Blobs
  PROVE  blob'[b][p] \in {blob[b][p], s}
<1>1. CASE Expected(c, q) = s
  <2> DEFINE now == [blob[c] EXCEPT ![q] = s]
  <2>1. blob' = [blob EXCEPT ![c] = now]
    BY <1>1 DEF RecordBlob
  <2> QED BY <2>1 DEF DbTypes
<1>2. CASE Expected(c, q) # s
  BY <1>2 DEF RecordBlob, partVars
<1> QED BY <1>1, <1>2

(* Nothing more is referred to after a step than before it.                *)
RefersLess == \A b \in Cases, p \in Blobs : blob'[b][p] \in {blob[b][p], NoSha}

HeldFile(s) == s \in objects \cup outraced

LEMMA StillHeld ==
  ASSUME HeldUnlessOutraced, RefersLess, NEW s \in Shas, Refers(s)'
  PROVE  Refers(s) /\ HeldFile(s)
<1>1. Refers(s)
  BY NoShaApart DEF Refers, RefersLess
<1> QED BY <1>1 DEF HeldUnlessOutraced, HeldFile

LEMMA HeldInit == Init => HeldUnlessOutraced
BY NoShaApart DEF Init, PartsInit, StoreInit, HeldUnlessOutraced, Refers

LEMMA HeldStep == Types /\ Removers /\ HeldUnlessOutraced /\ [Next]_vars => HeldUnlessOutraced'
<1> SUFFICES ASSUME Types, Removers, HeldUnlessOutraced, [Next]_vars PROVE HeldUnlessOutraced'
  OBVIOUS
<1>0. DbTypes
  BY DEF Types
<1>1. ASSUME RefersLess, objects \subseteq objects', outraced \subseteq outraced'
      PROVE  HeldUnlessOutraced'
  BY <1>1, StillHeld DEF HeldUnlessOutraced, HeldFile
<1>2. ASSUME NEW l \in landing, Record(l) PROVE HeldUnlessOutraced'
  <2>1. l.case \in Cases /\ l.part \in Blobs /\ l.sha \in Shas
    BY CopyFields DEF Types, RequestTypes
  <2>2. \A b \in Cases, p \in Blobs : blob'[b][p] \in {blob[b][p], l.sha}
    BY <1>0, <1>2, <2>1, RecordRefers DEF Record
  <2>3. ASSUME NEW s \in Shas, Refers(s)' PROVE Refers(s) \/ s = l.sha
    BY <2>2, <2>3 DEF Refers
  <2>4. objects' = objects /\ outraced \subseteq outraced' /\ l.sha \in objects \cup outraced'
    BY <1>2 DEF Record, storeVars
  <2> QED BY <2>3, <2>4 DEF HeldUnlessOutraced
<1>3. ASSUME NEW t \in Shas, NEW saw, t \notin saw, Unlink(t), outraced' = Overtaken(t, saw),
             UNCHANGED partVars
      PROVE  HeldUnlessOutraced'
  <2>1. ASSUME NEW s \in Shas, Refers(s)' PROVE Refers(s)
    BY <1>3, <2>1 DEF Refers, partVars
  <2>2. objects' = objects \ {t} /\ outraced \subseteq outraced' /\ (Refers(t) => t \in outraced')
    BY <1>3 DEF Unlink, Overtaken
  <2> QED BY <2>1, <2>2 DEF HeldUnlessOutraced
<1>4. CASE DeleteFile
  <2>1. removal \in RemovalRow /\ removal.sha \notin removal.saw
    BY <1>4, NoWorkOff DEF DeleteFile, Removers, Types, RequestTypes
  <2>2. removal.sha \in Shas
    BY <2>1 DEF RemovalRow
  <2> QED BY <1>3, <1>4, <2>1, <2>2 DEF DeleteFile
<1>5. ASSUME NEW t \in Shas, SweepUnlinks(t) PROVE HeldUnlessOutraced'
  <2>1. CASE t \in objects \ (sweep.keep \cup young) /\ Unlink(t) /\ outraced' = Overtaken(t, sweep.saw)
    <3>1. t \notin sweep.saw
      BY <1>5, <2>1 DEF SweepUnlinks, Removers
    <3> QED BY <1>3, <1>5, <2>1, <3>1 DEF SweepUnlinks
  <2>2. CASE UnlinkIncoming(t) /\ UNCHANGED outraced
    BY <1>1, <1>5, <2>2 DEF SweepUnlinks, UnlinkIncoming, RefersLess, partVars
  <2> QED BY <1>5, <2>1, <2>2 DEF SweepUnlinks
<1>6. ASSUME NEW n \in Nodes, NEW c \in Cases, NodeCall(n, c), UNCHANGED <<objects, outraced>>
      PROVE  HeldUnlessOutraced'
  BY <1>0, <1>1, <1>6, NodeCallsRefer DEF RefersLess
<1>7. ASSUME UNCHANGED blob, objects \subseteq objects', UNCHANGED outraced PROVE HeldUnlessOutraced'
  BY <1>1, <1>7 DEF RefersLess
<1>8. ASSUME NEW n \in Nodes, NEW c \in Cases,
             \/ \E says \in Sayings : Take(n, c, says)
             \/ TakeBack(n, c) \/ Mesh(n, c) \/ Telemetry(n, c) \/ Completes(n, c) \/ AskCustody(n, c)
      PROVE  HeldUnlessOutraced'
  <2>0. CASE TakeBack(n, c) BY <1>6, <2>0 DEF TakeBack, NodeCall, storeVars
  <2>1. CASE \E says \in Sayings : Take(n, c, says) BY <1>6, <2>1 DEF Take, NodeCall, storeVars
  <2>2. CASE Mesh(n, c) BY <1>6, <1>7, <2>2 DEF Mesh, NodeCall, storeVars, partVars
  <2>3. CASE Telemetry(n, c) BY <1>6, <2>3 DEF Telemetry, NodeCall, storeVars
  <2>4. CASE Completes(n, c) BY <1>6, <2>4 DEF Completes, NodeCall, storeVars
  <2>5. CASE AskCustody(n, c) BY <1>7, <2>5 DEF AskCustody, partVars, storeVars
  <2> QED BY <1>8, <2>0, <2>1, <2>2, <2>3, <2>4, <2>5
<1>9. ASSUME NEW n \in Nodes, NEW c \in Cases, NEW d \in Dirs,
             Direction(n, c, d) \/ Field(n, c, d) \/ Backfill(n, c, d)
      PROVE  HeldUnlessOutraced'
  BY <1>7, <1>9 DEF Direction, ReportDirection, Field, PutField, Backfill, BackfillField, storeVars
<1>10. ASSUME NEW n \in Nodes,
              \/ \E copy \in disk[n] : Ask(n, copy)
              \/ Chunk(n, TRUE) \/ Chunk(n, FALSE) \/ ChunkRefused(n) \/ Prune(n)
       PROVE  HeldUnlessOutraced'
  BY <1>7, <1>10 DEF Ask, Chunk, ChunkRefused, Prune, partVars, storeVars
<1>11. ASSUME NEW c \in Cases, LoseCase(c) \/ AskWanted(c) \/ Reset(c) \/ Scanned(c)
       PROVE  HeldUnlessOutraced'
  <2>1. CASE Reset(c)
    BY <1>0, <1>1, <2>1, ResetRefers DEF Reset, RefersLess, storeVars
  <2>2. CASE LoseCase(c) \/ AskWanted(c) \/ Scanned(c)
    BY <1>7, <2>2 DEF LoseCase, Unlease, AskWanted, HealReceipt, Scanned, RecordReceipt, storeVars
  <2> QED BY <1>11, <2>1, <2>2
<1>12. ASSUME NEW c \in Cases, NEW p \in Blobs, DeleteRow(c, p) PROVE HeldUnlessOutraced'
  BY <1>0, <1>1, <1>12, DropRefers DEF DeleteRow, RefersLess, storeVars
<1>13. ASSUME NEW v \in verifying, Verified(v) PROVE HeldUnlessOutraced'
  BY <1>7, <1>13 DEF Verified, VerifyStored, VerifyFailed, partVars
<1>14. CASE SweepReads \/ SweepEnds \/ Restart \/ UNCHANGED vars
  BY <1>7, <1>14 DEF SweepReads, SweepEnds, Restart, StoreRestart, vars, partVars, storeVars
<1>15. ASSUME NEW s \in Shas, Ages(s) PROVE HeldUnlessOutraced'
  BY <1>7, <1>15 DEF Ages, Settle, partVars
<1> QED
  BY <1>2, <1>4, <1>5, <1>8, <1>9, <1>10, <1>11, <1>12, <1>13, <1>14, <1>15 DEF Next

-----------------------------------------------------------------------------
(* What a receipt says: and the completion named the archive's hash.       *)

ReceiptAt(c) ==
  receipt[c]["broker"].from = "store" =>
    /\ life[c].state = "done" /\ blob[c]["archive"] = life[c].result /\ life[c].result # NoSha
    /\ receipt[c]["broker"].sha = life[c].result
    /\ \A p \in Parts : OnRecord(c, p) => blob[c][p] = part[c][p].sha

Receipts == \A c \in Cases : ReceiptAt(c)

LEMMA ReceiptNodeCall ==
  ASSUME Types, Receipts, NEW n \in Nodes, NEW c \in Cases, NodeCall(n, c), NEW b \in Cases
  PROVE  ReceiptAt(b)'
<1>0. ReceiptAt(b) /\ DbTypes
  BY DEF Receipts, Types
<1>1. CASE (\E says \in Sayings : Claim(n, c, says)) \/ Resume(n, c)
  <2>1. life[c].state # "done" /\ UNCHANGED <<part, blob, receipt>> /\ (b # c => life'[b] = life[b])
    BY <1>0, <1>1, ClaimsLife
  <2> QED BY <1>0, <2>1 DEF ReceiptAt, OnRecord
<1>2. CASE PostCount(n, c)
  BY <1>0, <1>2 DEF PostCount, ReceiptAt, OnRecord
<1>3. ASSUME NEW s, Finish(n, c, s) PROVE ReceiptAt(b)'
  <2>1. b # c => life'[b] = life[b]
    BY <1>0, <1>3 DEF DbTypes, Finish
  <2>2. life[c].state = "leased" /\ UNCHANGED <<part, blob, receipt>>
    BY <1>3 DEF Finish, Holds
  <2> QED BY <1>0, <2>1, <2>2 DEF ReceiptAt, OnRecord
<1>4. ASSUME NEW m \in VersionsOf[c]["mesh"], ReportMesh(n, c, m) PROVE ReceiptAt(b)'
  <2>1. b # c => part'[b] = part[b] /\ blob'[b] = blob[b]
    BY <1>0, <1>4 DEF DbTypes, ReportMesh
  <2>2. life[c].state = "leased" /\ UNCHANGED <<life, receipt>>
    BY <1>4 DEF ReportMesh, Holds
  <2> QED BY <1>0, <2>1, <2>2 DEF ReceiptAt, OnRecord
<1>5. ASSUME NEW d \in Dirs, NEW s, NEW m, ReportDirection(n, c, d, s, m)
      PROVE  ReceiptAt(b)'
  <2>1. b # c => part'[b] = part[b]
    BY <1>0, <1>5 DEF DbTypes, ReportDirection
  <2>2. life[c].state = "leased" /\ UNCHANGED <<life, blob, receipt>>
    BY <1>5 DEF ReportDirection, Holds
  <2> QED BY <1>0, <2>1, <2>2 DEF ReceiptAt, OnRecord
<1>6. ASSUME NEW d \in Dirs, PutField(n, c, d) \/ \E source \in {"reports", "trace"} : PostCurve(n, c, d, source)
      PROVE  ReceiptAt(b)'
  BY <1>0, <1>6 DEF PutField, PostCurve, ReceiptAt, OnRecord
<1> QED BY <1>1, <1>2, <1>3, <1>4, <1>5, <1>6 DEF NodeCall

LEMMA ReceiptBrokerCall ==
  ASSUME Types, Receipts, NEW c \in Cases, BrokerCall(c), NEW b \in Cases
  PROVE  ReceiptAt(b)'
<1>0. ReceiptAt(b) /\ DbTypes
  BY DEF Receipts, Types
<1>b. "broker" \in Locations
  BY DEF Locations
<1>1. CASE Unlease(c)
  <2>1. b # c => life'[b] = life[b]
    BY <1>0, <1>1 DEF DbTypes, Unlease
  <2>2. life[c].state = "leased" /\ UNCHANGED <<part, blob, receipt>>
    BY <1>1 DEF Unlease
  <2> QED BY <1>0, <2>1, <2>2 DEF ReceiptAt, OnRecord
<1>2. CASE ResetParts(c)
  <2>1. part' = [part EXCEPT ![c] = NoParts] /\ blob' = [blob EXCEPT ![c] = OnlyArchive(blob[c])]
        /\ UNCHANGED <<life, receipt>>
    BY <1>2 DEF ResetParts, NoParts
  <2>2. \/ part'[b] = part[b] /\ blob'[b] = blob[b]
        \/ part'[b] = NoParts /\ blob'[b] = OnlyArchive(blob[b])
    BY <1>0, <2>1 DEF DbTypes
  <2> QED BY <1>0, <2>1, <2>2, Names DEF ReceiptAt, OnRecord, NoParts, NoPart, OnlyArchive
<1>3. CASE HealReceipt(c)
  <2>1. receipt' = Receipted(c, blob[c]) /\ UNCHANGED <<life, part, blob>>
    BY <1>3 DEF HealReceipt
  <2>2. \/ receipt'[b]["broker"] = receipt[b]["broker"]
        \/ /\ b = c /\ HeldInFull(c, blob[c])
           /\ receipt'[b]["broker"] = [sha |-> life[c].result, from |-> "store"]
    BY <1>0, <1>b, <2>1, ReceiptedValue
  <2> QED BY <1>0, <2>1, <2>2 DEF ReceiptAt, OnRecord, HeldInFull
<1>4. ASSUME NEW at \in Locations, NEW s, RecordReceipt(c, at, s) PROVE ReceiptAt(b)'
  <2>1. receipt'[b]["broker"] = receipt[b]["broker"] \/ receipt'[b]["broker"].from = "hand"
    BY <1>0, <1>4, <1>b DEF DbTypes, RecordReceipt
  <2>2. UNCHANGED <<life, part, blob>>
    BY <1>4 DEF RecordReceipt
  <2> QED BY <1>0, <2>1, <2>2 DEF ReceiptAt, OnRecord
<1>5. ASSUME NEW d \in Dirs, BackfillField(c, d) PROVE ReceiptAt(b)'
  BY <1>0, <1>5 DEF BackfillField, ReceiptAt, OnRecord
<1>6. ASSUME NEW p \in Blobs, DropBlob(c, p) PROVE ReceiptAt(b)'
  <2>1. b # c => blob'[b] = blob[b] /\ receipt'[b] = receipt[b]
    BY <1>0, <1>6 DEF DbTypes, DropBlob
  <2>2. b = c => receipt'[b]["broker"].from = "none"
    BY <1>0, <1>6, <1>b DEF DbTypes, DropBlob, NoReceipt
  <2>3. UNCHANGED <<life, part>>
    BY <1>6 DEF DropBlob
  <2> QED BY <1>0, <2>1, <2>2, <2>3 DEF ReceiptAt, OnRecord
<1>7. ASSUME NEW p \in Blobs, NEW s \in Shas, RecordBlob(c, p, s) PROVE ReceiptAt(b)'
  <2>1. CASE Expected(c, p) = s
    <3> DEFINE now == [blob[c] EXCEPT ![p] = s]
    <3>1. blob' = [blob EXCEPT ![c] = now] /\ receipt' = Receipted(c, now) /\ UNCHANGED <<life, part>>
      BY <1>7, <2>1 DEF RecordBlob
    <3>2. blob'[c] = now /\ (b # c => blob'[b] = blob[b])
      BY <1>0, <3>1 DEF DbTypes
    <3>3. \A q \in Blobs : now[q] = blob[c][q] \/ (q = p /\ now[q] = s)
      BY <1>0 DEF DbTypes
    <3> HIDE DEF now
    <3>4. \/ receipt'[b]["broker"] = receipt[b]["broker"]
          \/ /\ b = c /\ HeldInFull(c, now)
             /\ receipt'[b]["broker"] = [sha |-> life[c].result, from |-> "store"]
      BY <1>0, <1>b, <3>1, ReceiptedValue
    <3>5. CASE /\ b = c /\ HeldInFull(c, now)
               /\ receipt'[b]["broker"] = [sha |-> life[c].result, from |-> "store"]
      BY <3>1, <3>2, <3>5 DEF HeldInFull, ReceiptAt, OnRecord
    <3>6. CASE b # c /\ receipt'[b]["broker"] = receipt[b]["broker"]
      BY <1>0, <3>1, <3>2, <3>6 DEF ReceiptAt, OnRecord
    <3>7. CASE b = c /\ receipt'[b]["broker"] = receipt[b]["broker"]
      BY <1>0, <2>1, <3>1, <3>2, <3>3, <3>7, Names DEF ReceiptAt, OnRecord, Expected
    <3> QED BY <3>4, <3>5, <3>6, <3>7
  <2>2. CASE Expected(c, p) # s
    BY <1>0, <1>7, <2>2 DEF RecordBlob, partVars, ReceiptAt, OnRecord
  <2> QED BY <2>1, <2>2
<1> QED BY <1>1, <1>2, <1>3, <1>4, <1>5, <1>6, <1>7 DEF BrokerCall

LEMMA ReceiptStep == Types /\ Receipts /\ DbStep => Receipts'
<1> SUFFICES ASSUME Types, Receipts, DbStep, NEW b \in Cases PROVE ReceiptAt(b)'
  BY DEF Receipts
<1>1. CASE UNCHANGED partVars
  BY <1>1 DEF partVars, Receipts, ReceiptAt, OnRecord
<1> QED BY <1>1, ReceiptNodeCall, ReceiptBrokerCall DEF DbStep

LEMMA ReceiptInit == Init => Receipts
BY DEF Init, PartsInit, Receipts, ReceiptAt, NoReceipt, Locations

-----------------------------------------------------------------------------
(* Curves.                                                                 *)

CurveAt(c, d) == curve[c][d] # "none" => OnRecord(c, d) \/ d \in told[c]

LEMMA CurveNodeCall ==
  ASSUME Types, CurvesFollowParts, NEW n \in Nodes, NEW c \in Cases, NodeCall(n, c),
         NEW b \in Cases, NEW d \in Dirs
  PROVE  CurveAt(b, d)'
<1>0. CurveAt(b, d) /\ DbTypes /\ d \in Parts
  BY Names DEF CurvesFollowParts, CurveAt, Types
<1>1. ASSUME NEW says, Claim(n, c, says) PROVE CurveAt(b, d)'
  <2>1. b # c => curve'[b] = curve[b] /\ told'[b] = told[b]
    BY <1>0, <1>1 DEF DbTypes, Claim
  <2>2. b = c => curve'[b][d] = IF OnRecord(b, d) THEN curve[b][d] ELSE "none"
    BY <1>0, <1>1 DEF DbTypes, Claim
  <2>3. UNCHANGED part
    BY <1>1 DEF Claim
  <2> QED BY <1>0, <2>1, <2>2, <2>3 DEF CurveAt, OnRecord
<1>2. CASE UNCHANGED <<part, curve, told>>
  BY <1>0, <1>2 DEF CurveAt, OnRecord
<1>4. ASSUME NEW m \in VersionsOf[c]["mesh"], ReportMesh(n, c, m) PROVE CurveAt(b, d)'
  <2>0. part' = [part EXCEPT ![c] = WithMesh(c, m)]
    BY <1>4 DEF ReportMesh, WithMesh, OldParts, NoParts
  <2>1. CASE OnRecord(c, "mesh") /\ part[c]["mesh"].sha # m
    <3>1. curve' = [curve EXCEPT ![c] = NoCurves] /\ told' = [told EXCEPT ![c] = {}]
      BY <1>4, <2>1 DEF ReportMesh
    <3>2. b = c => curve'[b][d] = "none"
      BY <1>0, <3>1 DEF DbTypes, NoCurves
    <3>3. b # c => curve'[b] = curve[b] /\ part'[b] = part[b] /\ told'[b] = told[b]
      BY <1>0, <2>0, <3>1 DEF DbTypes
    <3> QED BY <1>0, <3>2, <3>3 DEF CurveAt, OnRecord
  <2>2. CASE ~(OnRecord(c, "mesh") /\ part[c]["mesh"].sha # m)
    <3>1. UNCHANGED <<curve, told>>
      BY <1>4, <2>2 DEF ReportMesh
    <3>2. part'[b][d] = part[b][d]
      BY <1>0, <2>0, <2>2, Names DEF DbTypes, WithMesh, OldParts
    <3> QED BY <1>0, <3>1, <3>2 DEF CurveAt, OnRecord
  <2> QED BY <2>1, <2>2
<1>5. ASSUME NEW e \in Dirs, NEW s \in VersionsOf[c][e], NEW m, ReportDirection(n, c, e, s, m)
      PROVE  CurveAt(b, d)'
  <2>1. s # NoSha
    BY Versions, Names, NoShaApart
  <2>2. part'[b][d] = part[b][d] \/ part'[b][d].sha = s
    BY <1>0, <1>5, Names DEF DbTypes, ReportDirection
  <2> QED BY <1>0, <1>5, <2>1, <2>2 DEF ReportDirection, CurveAt, OnRecord
<1>6. ASSUME NEW e \in Dirs, NEW source, PostCurve(n, c, e, source) PROVE CurveAt(b, d)'
  <2>1. \/ curve'[b][d] = curve[b][d] /\ told[b] \subseteq told'[b]
        \/ d \in told'[b]
    BY <1>0, <1>6 DEF DbTypes, PostCurve
  <2> QED BY <1>0, <1>6, <2>1 DEF PostCurve, CurveAt, OnRecord
<1> QED
  BY <1>1, <1>2, <1>4, <1>5, <1>6 DEF NodeCall, Resume, PostCount, Finish, PutField

LEMMA CurveBrokerCall ==
  ASSUME Types, CurvesFollowParts, NEW c \in Cases, BrokerCall(c), NEW b \in Cases, NEW d \in Dirs
  PROVE  CurveAt(b, d)'
<1>0. CurveAt(b, d) /\ DbTypes
  BY DEF CurvesFollowParts, CurveAt, Types
<1>2. CASE ResetParts(c)
  <2>1. /\ part' = [part EXCEPT ![c] = NoParts] /\ curve' = [curve EXCEPT ![c] = NoCurves]
        /\ told' = [told EXCEPT ![c] = {}]
    BY <1>2 DEF ResetParts, NoParts
  <2>2. \/ part'[b] = part[b] /\ curve'[b] = curve[b] /\ told'[b] = told[b]
        \/ curve'[b] = NoCurves
    BY <1>0, <2>1 DEF DbTypes
  <2> QED BY <1>0, <2>1, <2>2 DEF CurveAt, OnRecord, NoCurves
<1>3. CASE UNCHANGED <<part, curve, told>>
  BY <1>0, <1>3 DEF CurveAt, OnRecord
<1>4. ASSUME NEW p \in Blobs, NEW s \in Shas, RecordBlob(c, p, s) PROVE UNCHANGED <<part, curve, told>>
  BY <1>4 DEF RecordBlob, partVars
<1> QED
  BY <1>2, <1>3, <1>4 DEF BrokerCall, Unlease, HealReceipt, RecordReceipt, BackfillField, DropBlob

LEMMA CurveStep == Types /\ CurvesFollowParts /\ DbStep => CurvesFollowParts'
<1> SUFFICES ASSUME Types, CurvesFollowParts, DbStep, NEW b \in Cases, NEW d \in Dirs PROVE CurveAt(b, d)'
  BY DEF CurvesFollowParts, CurveAt
<1>1. CASE UNCHANGED partVars
  BY <1>1 DEF partVars, CurvesFollowParts, CurveAt, OnRecord
<1> QED BY <1>1, CurveNodeCall, CurveBrokerCall DEF DbStep

LEMMA CurveInit == Init => CurvesFollowParts
BY DEF Init, PartsInit, CurvesFollowParts, NoCurves

-----------------------------------------------------------------------------
(* Nothing leaves a node's disk but what it was told it may delete.        *)
LEMMA DisksShrink ==
  ASSUME Types, Next, NEW n \in Nodes, NEW copy \in disk[n] \ disk'[n]
  PROVE  copy \in prune[n]
<1>0. disk \in [Nodes -> SUBSET Copies]
  BY DEF Types, NodeTypes
<1>1. ASSUME NEW m \in Nodes, Prune(m) PROVE copy \in prune[n]
  BY <1>0, <1>1 DEF Prune
<1>2. ASSUME NEW m \in Nodes, NEW c, NEW p, NEW s, Ships(m, c, p, s) PROVE FALSE
  BY <1>0, <1>2 DEF Ships
<1>3. ASSUME disk' = disk PROVE FALSE
  BY <1>3
<1>4. ASSUME NEW m \in Nodes, NEW c \in Cases,
             \/ \E says \in Sayings : Take(m, c, says)
             \/ TakeBack(m, c) \/ Mesh(m, c) \/ Telemetry(m, c) \/ Completes(m, c) \/ AskCustody(m, c)
      PROVE  FALSE
  BY <1>2, <1>3, <1>4 DEF Take, TakeBack, Mesh, Telemetry, Completes, AskCustody, nodeVars
<1>5. ASSUME NEW m \in Nodes, NEW c \in Cases, NEW d \in Dirs,
             Direction(m, c, d) \/ Field(m, c, d) \/ Backfill(m, c, d)
      PROVE  FALSE
  BY <1>2, <1>3, <1>5 DEF Direction, Field, Backfill, nodeVars
<1>6. ASSUME NEW m \in Nodes,
             (\E k \in disk[m] : Ask(m, k)) \/ Chunk(m, TRUE) \/ Chunk(m, FALSE) \/ ChunkRefused(m)
      PROVE  FALSE
  BY <1>3, <1>6 DEF Ask, Chunk, ChunkRefused
<1>7. ASSUME NEW c \in Cases, LoseCase(c) \/ AskWanted(c) \/ Reset(c) \/ Scanned(c) PROVE FALSE
  BY <1>3, <1>7 DEF LoseCase, AskWanted, Reset, LetsGo, Scanned, nodeVars
<1>8. ASSUME NEW c \in Cases, NEW p \in Blobs, DeleteRow(c, p) PROVE FALSE
  BY <1>3, <1>8 DEF DeleteRow, LetsGo
<1>9. CASE \/ \E v \in verifying : Verified(v)
           \/ \E l \in landing : Record(l)
           \/ DeleteFile \/ SweepReads \/ SweepEnds \/ Restart
           \/ \E s \in Shas : SweepUnlinks(s) \/ Ages(s)
  BY <1>3, <1>9 DEF Verified, Record, DeleteFile, SweepReads, SweepEnds, Restart, SweepUnlinks,
     Ages, nodeVars
<1> QED
  BY <1>1, <1>4, <1>5, <1>6, <1>7, <1>8, <1>9 DEF Next

(* What a node was told it may delete, of a case that was whole then: the  *)
(* broker still lists it all, but for what was let go of since.            *)

Listed(n, c, p) == blob[c][p] = Expected(c, p) \/ Expected(c, p) \in late[n]

ToldAt(n, copy) ==
  LET c == copy.case
  IN /\ life[c].state = "done" /\ life[c].result # NoSha
     /\ Listed(n, c, "archive")
     /\ \A p \in Parts : OnRecord(c, p) => Listed(n, c, p)
     /\ \/ copy.sha \in late[n]
        \/ copy.sha = Expected(c, copy.part)

ToldTruly == \A n \in Nodes : \A copy \in prune[n] : ToldAt(n, copy)

LEMMA ToldKept ==
  ASSUME NEW n, NEW copy, ToldAt(n, copy), life'[copy.case] = life[copy.case],
         part'[copy.case] = part[copy.case], blob'[copy.case] = blob[copy.case],
         late[n] \subseteq late'[n]
  PROVE  ToldAt(n, copy)'
BY DEF ToldAt, Listed, Expected, OnRecord

(* A node has a say only in cases that are not done.                       *)
LEMMA NodeCallElsewhere ==
  ASSUME DbTypes, NEW n \in Nodes, NEW c \in Cases, NodeCall(n, c), NEW b \in Cases,
         life[b].state = "done"
  PROVE  life'[b] = life[b] /\ part'[b] = part[b] /\ blob'[b] = blob[b]
<1>1. CASE (\E says \in Sayings : Claim(n, c, says)) \/ Resume(n, c)
  BY <1>1, ClaimsLife
<1>2. ASSUME NEW s, Finish(n, c, s) PROVE life'[b] = life[b] /\ part'[b] = part[b] /\ blob'[b] = blob[b]
  BY <1>2 DEF Finish, Holds, DbTypes
<1>3. ASSUME NEW m, ReportMesh(n, c, m) PROVE life'[b] = life[b] /\ part'[b] = part[b] /\ blob'[b] = blob[b]
  <2>1. b # c
    BY <1>3 DEF ReportMesh, Holds
  <2> QED BY <1>3, <2>1 DEF ReportMesh, DbTypes
<1>4. ASSUME NEW d \in Dirs, NEW s, NEW m, ReportDirection(n, c, d, s, m)
      PROVE  life'[b] = life[b] /\ part'[b] = part[b] /\ blob'[b] = blob[b]
  <2>1. b # c
    BY <1>4 DEF ReportDirection, Holds
  <2> QED BY <1>4, <2>1 DEF ReportDirection, DbTypes
<1> QED
  BY <1>1, <1>2, <1>3, <1>4 DEF NodeCall, PostCount, PostCurve, PutField

LEMMA ToldAsk ==
  ASSUME Types, Owned, NEW n \in Nodes, NEW c \in Cases, AskCustody(n, c), NEW copy \in Deletable(n, c)
  PROVE  ToldAt(n, copy)'
<1>1. copy \in Copies /\ copy.case = c /\ blob[c][copy.part] = copy.sha
  BY DEF Deletable, Types, NodeTypes
<1>2. copy.part \in Blobs /\ copy.sha # NoSha
  BY <1>1, CopyFields, NoShaApart
<1>3. HeldInFull(c, blob[c]) /\ OwnedAt(c) /\ UNCHANGED <<life, part, blob, late>>
  BY DEF AskCustody, CompleteAtBroker, Owned, partVars
<1>4. \A p \in Parts : OnRecord(c, p) => Listed(n, c, p)
  BY <1>3, Names DEF HeldInFull, Listed, Expected
<1>5. Listed(n, c, "archive") /\ life[c].result # NoSha /\ life[c].state = "done"
  BY <1>3 DEF HeldInFull, Listed, Expected
<1>6. copy.sha = Expected(c, copy.part)
  <2>1. CASE copy.part = "archive"
    BY <1>1, <1>3, <2>1 DEF HeldInFull, Expected
  <2>2. CASE copy.part # "archive"
    <3>1. copy.part \in Parts
      BY <1>2, <2>2, Names
    <3>2. OnRecord(c, copy.part)
      BY <1>1, <1>2, <1>3, <3>1 DEF OwnedAt
    <3> QED BY <1>1, <1>3, <2>2, <3>1, <3>2 DEF HeldInFull, Expected
  <2> QED BY <2>1, <2>2
<1>7. ToldAt(n, copy)
  BY <1>1, <1>4, <1>5, <1>6 DEF ToldAt
<1> QED BY <1>3, <1>7, ToldKept

LEMMA LetsGoLate ==
  ASSUME NodeTypes, NEW gone, LetsGo(gone), NEW n \in Nodes, prune[n] # {}
  PROVE  late'[n] = late[n] \cup gone /\ prune' = prune
BY DEF LetsGo, NodeTypes

LEMMA ToldReset ==
  ASSUME Types, ToldTruly, NEW c \in Cases, Reset(c), NEW n \in Nodes, NEW copy \in prune[n]
  PROVE  ToldAt(n, copy)'
<1>0. DbTypes /\ ToldAt(n, copy) /\ copy.case \in Cases /\ copy.part \in Blobs
  BY CopyFields DEF Types, NodeTypes, ToldTruly
<1>1. late'[n] = late[n] \cup ({blob[c][p] : p \in Parts} \ {NoSha})
  BY LetsGoLate DEF Reset, Types
<1>2. /\ part' = [part EXCEPT ![c] = NoParts] /\ blob' = [blob EXCEPT ![c] = OnlyArchive(blob[c])]
      /\ UNCHANGED life
  BY DEF Reset, ResetParts, NoParts
<1>3. CASE copy.case # c
  <2>1. part'[copy.case] = part[copy.case] /\ blob'[copy.case] = blob[copy.case]
    BY <1>0, <1>2, <1>3 DEF DbTypes
  <2> QED BY <1>0, <1>1, <1>2, <2>1, ToldKept
<1>4. CASE copy.case = c
  <2>1. part'[c] = NoParts /\ blob'[c] = OnlyArchive(blob[c])
    BY <1>0, <1>2, <1>4 DEF DbTypes
  <2>2. \A p \in Parts : ~OnRecord(c, p)'
    BY <2>1 DEF OnRecord, NoParts, NoPart
  <2>3. Listed(n, c, "archive")'
    BY <1>0, <1>1, <1>2, <1>4, <2>1, Names DEF ToldAt, Listed, Expected, OnlyArchive
  <2>4. copy.sha \in late'[n] \/ copy.sha = Expected(c, copy.part)'
    <3>1. CASE copy.sha \in late[n]
      BY <1>1, <3>1
    <3>2. CASE copy.sha = Expected(c, copy.part) /\ copy.part = "archive"
      BY <1>2, <3>2 DEF Expected
    <3>3. CASE copy.sha = Expected(c, copy.part) /\ copy.part # "archive" /\ copy.sha \notin late[n]
      <4>1. copy.part \in Parts
        BY <1>0, <3>3, Names
      <4>2. copy.sha \in Shas
        BY CopyFields DEF Types, NodeTypes
      <4>3. OnRecord(c, copy.part) /\ copy.sha # NoSha
        BY <3>3, <4>2, NoShaApart DEF Expected, OnRecord
      <4>4. Listed(n, c, copy.part)
        BY <1>0, <1>4, <4>1, <4>3 DEF ToldAt
      <4>5. blob[c][copy.part] = copy.sha
        BY <3>3, <4>4 DEF Listed
      <4> QED BY <1>1, <4>1, <4>3, <4>5
    <3> QED BY <1>0, <1>4, <3>1, <3>2, <3>3 DEF ToldAt
  <2> QED BY <1>0, <1>2, <1>4, <2>2, <2>3, <2>4 DEF ToldAt
<1> QED BY <1>3, <1>4

LEMMA ToldDelete ==
  ASSUME Types, ToldTruly, NEW c \in Cases, NEW q \in Blobs, DeleteRow(c, q), NEW n \in Nodes,
         NEW copy \in prune[n]
  PROVE  ToldAt(n, copy)'
<1>0. DbTypes /\ ToldAt(n, copy) /\ copy.case \in Cases
  BY CopyFields DEF Types, NodeTypes, ToldTruly
<1>1. late'[n] = late[n] \cup {blob[c][q]}
  BY LetsGoLate DEF DeleteRow, Types
<1>2. blob' = [blob EXCEPT ![c][q] = NoSha] /\ UNCHANGED <<life, part>>
  BY DEF DeleteRow, DropBlob
<1>3. \A b \in Cases, p \in Blobs : blob'[b][p] = blob[b][p] \/ blob[b][p] \in late'[n]
  BY <1>0, <1>1, <1>2 DEF DbTypes
<1>4. \A b \in Cases, p \in Blobs : Listed(n, b, p) => Listed(n, b, p)'
  BY <1>1, <1>2, <1>3 DEF Listed, Expected
<1> QED BY <1>0, <1>1, <1>2, <1>4, Names DEF ToldAt, Expected, OnRecord

LEMMA ToldRecord ==
  ASSUME Types, ToldTruly, NEW l \in landing, Record(l), NEW n \in Nodes, NEW copy \in prune[n]
  PROVE  ToldAt(n, copy)'
<1>0. DbTypes /\ ToldAt(n, copy) /\ copy.case \in Cases
  BY CopyFields DEF Types, NodeTypes, ToldTruly
<1>1. l.case \in Cases /\ l.part \in Blobs /\ UNCHANGED late
  BY CopyFields DEF Types, RequestTypes, Record, nodeVars
<1>2. CASE Expected(l.case, l.part) = l.sha
  <2> DEFINE now == [blob[l.case] EXCEPT ![l.part] = l.sha]
  <2>1. blob' = [blob EXCEPT ![l.case] = now] /\ UNCHANGED <<life, part>>
    BY <1>2 DEF Record, RecordBlob
  <2>2. \A b \in Cases, p \in Blobs : blob'[b][p] = blob[b][p] \/ blob'[b][p] = Expected(b, p)
    BY <1>0, <1>1, <1>2, <2>1 DEF DbTypes
  <2>3. \A b \in Cases, p \in Blobs : Listed(n, b, p) => Listed(n, b, p)'
    BY <1>1, <2>1, <2>2 DEF Listed, Expected
  <2> QED BY <1>0, <1>1, <2>1, <2>3, Names DEF ToldAt, Expected, OnRecord
<1>3. CASE Expected(l.case, l.part) # l.sha
  <2>1. UNCHANGED <<life, part, blob>>
    BY <1>3 DEF Record, RecordBlob, partVars
  <2> QED BY <1>0, <1>1, <2>1, ToldKept
<1> QED BY <1>2, <1>3

LEMMA ToldStep == Types /\ Owned /\ ToldTruly /\ [Next]_vars => ToldTruly'
<1> SUFFICES ASSUME Types, Owned, ToldTruly, [Next]_vars, NEW n \in Nodes, NEW copy \in prune'[n]
             PROVE  ToldAt(n, copy)'
  BY DEF ToldTruly
<1>0. DbTypes
  BY DEF Types
<1>1. ASSUME UNCHANGED <<prune, late, life, part, blob>> PROVE ToldAt(n, copy)'
  BY <1>1, ToldKept DEF ToldTruly
<1>2. ASSUME NEW m \in Nodes, NEW c \in Cases, NodeCall(m, c), UNCHANGED <<prune, late>>
      PROVE  ToldAt(n, copy)'
  <2>1. ToldAt(n, copy) /\ copy.case \in Cases
    BY <1>2, CopyFields DEF ToldTruly, Types, NodeTypes
  <2>2. life[copy.case].state = "done"
    BY <2>1 DEF ToldAt
  <2> QED BY <1>0, <1>2, <2>1, <2>2, NodeCallElsewhere, ToldKept
<1>3. ASSUME NEW m \in Nodes, NEW c \in Cases,
             \/ \E says \in Sayings : Take(m, c, says)
             \/ TakeBack(m, c) \/ Mesh(m, c) \/ Telemetry(m, c) \/ Completes(m, c) \/ AskCustody(m, c)
      PROVE  ToldAt(n, copy)'
  <2>1. CASE \E says \in Sayings : Take(m, c, says) BY <1>2, <2>1 DEF Take, NodeCall
  <2>2. CASE TakeBack(m, c) BY <1>2, <2>2 DEF TakeBack, NodeCall, nodeVars
  <2>3. CASE Mesh(m, c) BY <1>1, <1>2, <2>3 DEF Mesh, NodeCall, partVars
  <2>4. CASE Telemetry(m, c) BY <1>2, <2>4 DEF Telemetry, NodeCall, nodeVars
  <2>5. CASE Completes(m, c) BY <1>2, <2>5 DEF Completes, NodeCall
  <2>6. CASE AskCustody(m, c)
    <3>1. CASE m = n
      <4>1. prune'[n] = Deletable(n, c)
        BY <2>6, <3>1 DEF AskCustody, Types, NodeTypes
      <4> QED BY <2>6, <3>1, <4>1, ToldAsk
    <3>2. CASE m # n
      <4>1. prune'[n] = prune[n] /\ UNCHANGED <<late, life, part, blob>>
        BY <2>6, <3>2 DEF AskCustody, Types, NodeTypes, partVars
      <4> QED BY <4>1, ToldKept DEF ToldTruly
    <3> QED BY <3>1, <3>2
  <2> QED BY <1>3, <2>1, <2>2, <2>3, <2>4, <2>5, <2>6
<1>4. ASSUME NEW m \in Nodes, NEW c \in Cases, NEW d \in Dirs,
             Direction(m, c, d) \/ Field(m, c, d) \/ Backfill(m, c, d)
      PROVE  ToldAt(n, copy)'
  <2>1. CASE Direction(m, c, d)
    <3>1. using[m][c] \in MaybeSha BY DEF Types, NodeTypes
    <3>2. NodeCall(m, c) /\ UNCHANGED <<prune, late>>
      BY <2>1, <3>1 DEF Direction, NodeCall
    <3> QED BY <1>2, <3>2
  <2>2. CASE Field(m, c, d) BY <1>2, <2>2 DEF Field, NodeCall, nodeVars
  <2>3. CASE Backfill(m, c, d) BY <1>1, <2>3 DEF Backfill, BackfillField, nodeVars
  <2> QED BY <1>4, <2>1, <2>2, <2>3
<1>5. ASSUME NEW m \in Nodes,
             (\E k \in disk[m] : Ask(m, k)) \/ Chunk(m, TRUE) \/ Chunk(m, FALSE) \/ ChunkRefused(m)
      PROVE  ToldAt(n, copy)'
  BY <1>1, <1>5 DEF Ask, Chunk, ChunkRefused, partVars
<1>6. ASSUME NEW m \in Nodes, Prune(m) PROVE ToldAt(n, copy)'
  <2>1. m # n /\ prune'[n] = prune[n] /\ late'[n] = late[n]
    BY <1>6 DEF Prune, Types, NodeTypes
  <2>2. UNCHANGED <<life, part, blob>>
    BY <1>6 DEF Prune, partVars
  <2> QED BY <2>1, <2>2, ToldKept DEF ToldTruly
<1>7. ASSUME NEW c \in Cases, LoseCase(c) PROVE ToldAt(n, copy)'
  <2>1. ToldAt(n, copy) /\ copy.case \in Cases
    BY <1>7, CopyFields DEF LoseCase, ToldTruly, Types, NodeTypes
  <2>2. life'[copy.case] = life[copy.case]
    BY <1>0, <1>7, <2>1 DEF LoseCase, Unlease, ToldAt, DbTypes
  <2>3. UNCHANGED <<part, blob, late>>
    BY <1>7 DEF LoseCase, Unlease
  <2> QED BY <2>1, <2>2, <2>3, ToldKept
<1>8. ASSUME NEW c \in Cases, Reset(c) PROVE ToldAt(n, copy)'
  BY <1>8, ToldReset DEF Reset, LetsGo
<1>9. ASSUME NEW c \in Cases, AskWanted(c) \/ Scanned(c) PROVE ToldAt(n, copy)'
  BY <1>1, <1>9 DEF AskWanted, HealReceipt, Scanned, RecordReceipt, nodeVars
<1>10. ASSUME NEW c \in Cases, NEW p \in Blobs, DeleteRow(c, p) PROVE ToldAt(n, copy)'
  BY <1>10, ToldDelete DEF DeleteRow, LetsGo
<1>11. ASSUME NEW l \in landing, Record(l) PROVE ToldAt(n, copy)'
  BY <1>11, ToldRecord DEF Record, nodeVars
<1>12. CASE \/ \E v \in verifying : Verified(v)
            \/ DeleteFile \/ SweepReads \/ SweepEnds \/ Restart
            \/ \E s \in Shas : SweepUnlinks(s) \/ Ages(s)
            \/ UNCHANGED vars
  BY <1>1, <1>12 DEF Verified, DeleteFile, SweepReads, SweepEnds, Restart, SweepUnlinks, Ages,
     vars, partVars, nodeVars
<1> QED
  BY <1>3, <1>4, <1>5, <1>6, <1>7, <1>8, <1>9, <1>10, <1>11, <1>12 DEF Next

-----------------------------------------------------------------------------
(* The inductive invariant.                                                *)
CustodyInv ==
  Types /\ Owned /\ Removers /\ HeldUnlessOutraced /\ Receipts /\ CurvesFollowParts /\ ToldTruly

LEMMA CustodyInvInit == Init => CustodyInv
<1>1. Init => Removers /\ ToldTruly
  BY DEF Init, Removers, NoWork, ToldTruly
<1> QED BY <1>1, InitTypes, InitOwned, HeldInit, ReceiptInit, CurveInit DEF CustodyInv

LEMMA CustodyInvStep == CustodyInv /\ [Next]_vars => CustodyInv'
BY NextTypes, DbSteps, OwnedStep, RemoversStep, HeldStep, ReceiptStep, CurveStep, ToldStep DEF CustodyInv

LEMMA AlwaysCustodyInv == Spec => []CustodyInv
BY CustodyInvInit, CustodyInvStep, PTL DEF Spec

(* What the broker says it holds is in the store: whatever the deletions,  *)
(* the sweeps and the restarts, the file of every row of case_blobs and of *)
(* every release is there, but for one that a row came to need between a   *)
(* remover's question and its unlink.                                      *)
THEOREM CustodyHeld == Spec => []HeldUnlessOutraced
<1>1. CustodyInv => HeldUnlessOutraced
  BY DEF CustodyInv
<1> QED BY <1>1, AlwaysCustodyInv, PTL

(* A receipt at the broker that the broker wrote means that archive and    *)
(* parts are held as reported, in whatever order they came, healed or were *)
(* let go.                                                                 *)
THEOREM ReceiptsMeanHeld == Spec => []ReceiptMeansHeld
<1>1. CustodyInv => ReceiptMeansHeld
  BY DEF CustodyInv, Receipts, ReceiptAt, ReceiptMeansHeld
<1> QED BY <1>1, AlwaysCustodyInv, PTL

(* A residual curve is of a direction on record, or was sent in the work   *)
(* going on: never an abandoned attempt's, though a resume forgets none.   *)
THEOREM CurvesFollow == Spec => []CurvesFollowParts
<1>1. CustodyInv => CurvesFollowParts
  BY DEF CustodyInv
<1> QED BY <1>1, AlwaysCustodyInv, PTL

LEMMA ListedIsHeld ==
  ASSUME Types, HeldUnlessOutraced, NEW c \in Cases, NEW p \in Blobs, blob[c][p] # NoSha
  PROVE  blob[c][p] \in objects \cup outraced
<1>1. blob[c][p] \in Shas
  BY DEF Types, DbTypes, MaybeSha
<1> QED BY <1>1 DEF HeldUnlessOutraced, Refers

LEMMA InvIsTrue == CustodyInv => CustodyIsTrue
<1> SUFFICES ASSUME CustodyInv, NEW c \in Cases, Stored(c)
             PROVE  /\ \/ life[c].result \in objects \cup outraced
                       \/ \E at \in Locations : /\ receipt[c][at].from = "hand"
                                                /\ life[c].result \in {receipt[c][at].sha, NoSha}
                    /\ \A p \in Parts : OnRecord(c, p) => part[c][p].sha \in objects \cup outraced
  BY DEF CustodyIsTrue
<1>0. OwnedAt(c) /\ DbTypes /\ Types /\ ReceiptAt(c) /\ HeldUnlessOutraced
  BY DEF CustodyInv, Owned, Types, Receipts
<1>1. ASSUME NEW p \in Parts, OnRecord(c, p) PROVE part[c][p].sha \in objects \cup outraced
  BY <1>0, <1>1, ListedIsHeld, Names DEF Stored, OnRecord
<1>2. PICK at \in Locations : receipt[c][at] # NoReceipt
  BY DEF Stored
<1>3. receipt[c][at].from \in {"hand", "store"}
  BY <1>0, <1>2 DEF DbTypes, ReceiptRow, OwnedAt
<1>4. CASE receipt[c][at].from = "hand"
  BY <1>0, <1>1, <1>4 DEF OwnedAt
<1>5. CASE receipt[c][at].from = "store"
  <2>1. blob[c]["archive"] = life[c].result /\ life[c].result # NoSha
    BY <1>0, <1>5 DEF OwnedAt, ReceiptAt
  <2> QED BY <1>0, <1>1, <2>1, ListedIsHeld, Names
<1> QED BY <1>3, <1>4, <1>5

(* What custody counts as stored is somewhere: the archive in the store,   *)
(* or hashed by an operator to what the completion named, and every part   *)
(* on record in the store, but for a file removed by a check that a new    *)
(* row overtook.                                                           *)
THEOREM CustodyTrue == Spec => []CustodyIsTrue
BY InvIsTrue, AlwaysCustodyInv, PTL

LEMMA ListedIsKnown ==
  ASSUME CustodyInv, NEW n \in Nodes, NEW c \in Cases, NEW p \in Blobs, Listed(n, c, p),
         Expected(c, p) # NoSha
  PROVE  Expected(c, p) \in objects \cup outraced \cup late[n]
BY ListedIsHeld DEF CustodyInv, Listed

(* A node deletes copies only of a case that is whole, its copies among    *)
(* what is held, but for what an operator let go of since the node was     *)
(* told and for a file removed by a check that a new row overtook.         *)
THEOREM PrunesWholeCases == Spec => PruneOnlyWhenWhole
<1>1. CustodyInv /\ [Next]_vars =>
        [\A n \in Nodes : \A copy \in disk[n] \ disk'[n] :
           LET c     == copy.case
               known == objects \cup outraced \cup late[n]
           IN /\ life[c].state = "done"
              /\ {copy.sha, life[c].result} \subseteq known
              /\ \A p \in Parts : OnRecord(c, p) => part[c][p].sha \in known]_vars
  <2> SUFFICES ASSUME CustodyInv, Next, NEW n \in Nodes, NEW copy \in disk[n] \ disk'[n]
               PROVE  LET c     == copy.case
                          known == objects \cup outraced \cup late[n]
                      IN /\ life[c].state = "done"
                         /\ {copy.sha, life[c].result} \subseteq known
                         /\ \A p \in Parts : OnRecord(c, p) => part[c][p].sha \in known
    BY DEF vars, nodeVars
  <2>1. copy \in prune[n]
    BY DisksShrink DEF CustodyInv
  <2>2. /\ copy.case \in Cases /\ copy.part \in Blobs /\ copy.sha \in Shas /\ copy.sha # NoSha
    BY <2>1, CopyFields, NoShaApart DEF CustodyInv, Types, NodeTypes
  <2>3. ToldAt(n, copy)
    BY <2>1 DEF CustodyInv, ToldTruly
  <2>4. Listed(n, copy.case, "archive") /\ Expected(copy.case, "archive") = life[copy.case].result
        /\ life[copy.case].result # NoSha /\ life[copy.case].state = "done"
    BY <2>3 DEF ToldAt, Expected
  <2>5. life[copy.case].result \in objects \cup outraced \cup late[n]
    BY <2>2, <2>4, ListedIsKnown, Names
  <2>6. ASSUME NEW p \in Parts, OnRecord(copy.case, p)
        PROVE  /\ Expected(copy.case, p) = part[copy.case][p].sha
               /\ part[copy.case][p].sha \in objects \cup outraced \cup late[n]
    <3>1. Expected(copy.case, p) = part[copy.case][p].sha /\ Expected(copy.case, p) # NoSha
      BY <2>6, Names DEF Expected, OnRecord
    <3>2. Listed(n, copy.case, p) /\ p \in Blobs
      BY <2>3, <2>6, Names DEF ToldAt
    <3> QED BY <2>2, <3>1, <3>2, ListedIsKnown
  <2>7. copy.sha \in objects \cup outraced \cup late[n]
    <3>1. CASE copy.part = "archive"
      BY <2>3, <2>4, <2>5, <3>1 DEF ToldAt
    <3>2. CASE copy.part # "archive" /\ copy.sha = Expected(copy.case, copy.part)
      <4>1. copy.part \in Parts /\ OnRecord(copy.case, copy.part)
        BY <2>2, <3>2, Names DEF Expected, OnRecord
      <4> QED BY <2>6, <3>2, <4>1
    <3> QED BY <2>3, <3>1, <3>2 DEF ToldAt
  <2> QED BY <2>4, <2>5, <2>6, <2>7
<1> QED BY <1>1, AlwaysCustodyInv, PTL DEF Spec, PruneOnlyWhenWhole
=============================================================================
