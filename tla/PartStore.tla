----------------------------- MODULE PartStore -----------------------------
(***************************************************************************)
(* The part store (casebroker/partstore.py): files named by the hash of    *)
(* their content.  An upload grows chunk by chunk in incoming/, is hashed  *)
(* on a thread of its own once all of it is there, and is renamed into     *)
(* objects/ if it is what its name says.                                   *)
(*                                                                         *)
(* Every content is Size chunks long here.  Files outlive the broker; the  *)
(* set of uploads being verified is in its memory.  A verification carries *)
(* the part it will be recorded as (on_stored).  That the last upload of a *)
(* content failed is only shown, and left out.                             *)
(***************************************************************************)
EXTENDS Integers, FiniteSets

CONSTANTS Contents,  \* every content that may be uploaded, by hash
          Size,      \* chunks in one content
          Labels     \* what a stored content may be recorded as

VARIABLES
  objects,    \* files in objects/; a file keeps its time when it moves there
  young,      \* those of either whose last byte came within the hour
  incoming,   \* incoming[s]: chunks so far, and whether they are all s's own
  verifying   \* _verifying, with what each was started for

Nothing == [chunks |-> 0, own |-> TRUE]

StoreInit(there) ==
  /\ objects = there /\ young = {}
  /\ incoming = [s \in Contents |-> Nothing]
  /\ verifying = {}

StoreTypeOK ==
  /\ objects \in SUBSET Contents
  /\ young \in SUBSET (objects \cup {s \in Contents : incoming[s].chunks > 0})
  /\ incoming \in [Contents -> [chunks : 0..Size, own : BOOLEAN]]
  /\ verifying \in SUBSET [sha : Contents, label : Labels]

Verifying(s) == \E v \in verifying : v.sha = s

Offset(s) == IF s \in objects THEN Size ELSE incoming[s].chunks

(* verify_in_background(): one thread a content, and none for a stored one *)
StartVerify(s, label) ==
  verifying' = IF Verifying(s) \/ s \in objects
                 THEN verifying ELSE verifying \cup {[sha |-> s, label |-> label]}

(* append() takes a chunk only where the upload stands.                    *)
Takes(s, offset) ==
  /\ s \notin objects /\ ~Verifying(s)
  /\ offset = incoming[s].chunks /\ offset < Size

Grows(s, own) ==
  /\ incoming' = [incoming EXCEPT ![s] = [chunks |-> incoming[s].chunks + 1,
                                         own    |-> incoming[s].own /\ own]]
  /\ young' = young \cup {s}

(* complete(): the bytes are all there and hash to their name.             *)
Matches(s) == incoming[s].chunks = Size /\ incoming[s].own

(* The verification ends well: the file is renamed into objects/.          *)
VerifyStored(v) ==
  /\ v \in verifying /\ Matches(v.sha)
  /\ objects' = objects \cup {v.sha}
  /\ incoming' = [incoming EXCEPT ![v.sha] = Nothing]
  /\ verifying' = verifying \ {v}
  /\ UNCHANGED young

(* It fails: another content, or a file that went meanwhile.               *)
VerifyFailed(v) ==
  /\ v \in verifying /\ ~Matches(v.sha)
  /\ IF incoming[v.sha].chunks = Size
       THEN /\ incoming' = [incoming EXCEPT ![v.sha] = Nothing]
            /\ young' = young \ {v.sha}
       ELSE UNCHANGED <<incoming, young>>
  /\ verifying' = verifying \ {v}
  /\ UNCHANGED objects

(* remove(), or a sweep's unlink of a stored file.                         *)
Unlink(s) ==
  /\ objects' = objects \ {s} /\ young' = young \ {s}
  /\ UNCHANGED <<incoming, verifying>>

(* A sweep's unlink of an upload untouched for days.                       *)
UnlinkIncoming(s) ==
  /\ incoming' = [incoming EXCEPT ![s] = Nothing]
  /\ UNCHANGED <<objects, young, verifying>>

(* An hour goes by since the file's last chunk.                            *)
Settle(s) ==
  /\ s \in young
  /\ young' = young \ {s}
  /\ UNCHANGED <<objects, incoming, verifying>>

(* The broker stops: what was in memory is gone, the files are not.        *)
StoreRestart ==
  /\ verifying' = {}
  /\ UNCHANGED <<objects, young, incoming>>
=============================================================================
