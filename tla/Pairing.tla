------------------------------ MODULE Pairing ------------------------------
(***************************************************************************)
(* Machines and their credentials (casebroker/db.py, the pairing and token *)
(* routes of casebroker/app.py): a node makes a token of its own, sends    *)
(* its hash with the name it wants, and polls until an operator approves   *)
(* or denies; or an operator issues a token by hand; an admin revokes it.  *)
(*                                                                         *)
(* On Postgres create_pairing and resolve_pairing read before they commit, *)
(* and see nothing of a transaction that has not: what each reads and what *)
(* it writes are two steps.  The table of tokens has one row a name and no *)
(* hash twice.  Requests are not forgotten after their day.                *)
(***************************************************************************)
EXTENDS Integers, FiniteSets

CONSTANTS Names, Hashes, NoHash,
          Codes,        \* bound: user codes, each given out once
          Resolvers,    \* bound: approvals and denials under way at once
          MaxPending    \* MAX_PENDING_PAIRINGS

ASSUME PairingAssumption == NoHash \notin Hashes /\ MaxPending \in Nat

VARIABLES
  token,      \* worker_tokens: of each name the hash, and whether it is live
  pairing,    \* pairings, by user code; a request to come is "asking"
  resolver,   \* what each approval or denial has read
  contested,  \* (history) requests two were answering at once
  crossed     \* (history) requests for a name while another start had it, too

pairingVars == <<token, pairing, resolver, contested, crossed>>

NoToken      == [hash |-> NoHash, live |-> "no"]
NoPairing    == [status |-> "none"]
NotResolving == [on |-> "no"]

PairingInit ==
  /\ token = [n \in Names |-> NoToken]
  /\ pairing = [c \in Codes |-> NoPairing]
  /\ resolver = [q \in Resolvers |-> NotResolving]
  /\ contested = {} /\ crossed = {}

-----------------------------------------------------------------------------
Live(n)  == token[n].live = "yes"
Taken(h) == \E n \in Names : token[n].hash = h

With(status)   == {c \in Codes : pairing[c].status = status}
For(status, n) == {c \in With(status) : pairing[c].name = n}

(* Rows a start is about to supersede are locked till it commits.          *)
Locked(c) == \E d \in With("asking") : c \in pairing[d].replaces

Row(status, n, h, replaces, awaits) ==
  [status |-> status, name |-> n, hash |-> h, replaces |-> replaces, awaits |-> awaits]

Becomes(c, status) ==
  Row(status, pairing[c].name, pairing[c].hash, pairing[c].replaces, pairing[c].awaits)

-----------------------------------------------------------------------------
(* POST /v1/pair/start.                                                    *)

(* Wrong: an earlier request of the same machine stays on the page.        *)
NoneReplaced(n) == {}

Replaced(n) == {c \in For("pending", n) : ~Locked(c)}

(* What could never succeed is refused now, rather than at approval; then  *)
(* the machine's earlier request is locked, or the start that has it is    *)
(* waited for ...                                                          *)
PairAsks(c, n, h) ==
  /\ pairing[c] = NoPairing
  /\ ~Live(n) /\ ~Taken(h)
  /\ Cardinality(With("pending")) < MaxPending
  /\ pairing' = [pairing EXCEPT ![c] =
                   Row("asking", n, h, Replaced(n), {d \in For("pending", n) : Locked(d)})]
  /\ crossed' = crossed \cup (IF For("asking", n) = {} THEN {} ELSE {c} \cup For("asking", n))
  /\ UNCHANGED <<token, resolver, contested>>

(* ... and replaced, not joined on the page, by the new one.               *)
PairStarts(c) ==
  /\ pairing[c].status = "asking"
  /\ \A d \in pairing[c].awaits : pairing[d].status # "pending"
  /\ pairing' = [d \in Codes |->
       CASE d = c -> Row("pending", pairing[c].name, pairing[c].hash, {}, {})
         [] d # c /\ d \in pairing[c].replaces -> Becomes(d, "superseded")
         [] OTHER -> pairing[d]]
  /\ UNCHANGED <<token, resolver, contested, crossed>>

(* purge_expired_pairings, which every call makes first: ten minutes.      *)
Expires(c) ==
  /\ pairing[c].status = "pending" /\ ~Locked(c)
  /\ pairing' = [pairing EXCEPT ![c] = Becomes(c, "expired")]
  /\ UNCHANGED <<token, resolver, contested, crossed>>

-----------------------------------------------------------------------------
(* Credentials.                                                            *)

(* Wrong: any row of the name is reclaimed, a live one too.                *)
Reclaims(n, h) ==
  /\ \A m \in Names \ {n} : token[m].hash # h
  /\ token' = [token EXCEPT ![n] = [hash |-> h, live |-> "yes"]]

(* create_worker_token: a revoked row is reclaimed or a new one inserted;  *)
(* UNIQUE refuses the name of a live one, and a hash that is there.        *)
CreatesToken(n, h) ==
  /\ ~Live(n)
  /\ \A m \in Names \ {n} : token[m].hash # h
  /\ token' = [token EXCEPT ![n] = [hash |-> h, live |-> "yes"]]

(* POST /v1/workers/tokens: a token nobody has.                            *)
IssueToken(n, h) ==
  /\ ~Taken(h)
  /\ \A c \in Codes : pairing[c] # NoPairing => pairing[c].hash # h
  /\ CreatesToken(n, h)
  /\ UNCHANGED <<pairing, resolver, contested, crossed>>

RevokeToken(n) ==
  /\ Live(n)
  /\ token' = [token EXCEPT ![n] = [hash |-> token[n].hash, live |-> "no"]]
  /\ UNCHANGED <<pairing, resolver, contested, crossed>>

-----------------------------------------------------------------------------
(* POST /v1/pair/{user_code}/approve and .../deny.                         *)

(* Wrong: whatever became of the request.                                  *)
Known(c) == pairing[c].status \notin {"none", "asking"}

Answerable(c) == pairing[c].status = "pending"

ResolveReads(q, c, approve) ==
  /\ resolver[q] = NotResolving /\ Answerable(c)
  /\ resolver' = [resolver EXCEPT ![q] = [on |-> "yes", code |-> c, approve |-> approve]]
  /\ contested' = IF \E p \in Resolvers : resolver[p] # NotResolving /\ resolver[p].code = c
                    THEN contested \cup {c} ELSE contested
  /\ UNCHANGED <<token, pairing, crossed>>

(* The token and the status are one transaction; one that conflicts with   *)
(* a credential of the meantime changes nothing.                           *)
Approves(c) ==
  LET n == pairing[c].name
      h == pairing[c].hash
  IN \/ CreatesToken(n, h) /\ pairing' = [pairing EXCEPT ![c] = Becomes(c, "approved")]
     \/ /\ Live(n) \/ \E m \in Names \ {n} : token[m].hash = h
        /\ UNCHANGED <<token, pairing>>

Denies(c) ==
  /\ pairing' = [pairing EXCEPT ![c] = Becomes(c, "denied")]
  /\ UNCHANGED token

ResolveWrites(q) ==
  /\ resolver[q] # NotResolving /\ ~Locked(resolver[q].code)
  /\ IF resolver[q].approve = "yes" THEN Approves(resolver[q].code) ELSE Denies(resolver[q].code)
  /\ resolver' = [resolver EXCEPT ![q] = NotResolving]
  /\ UNCHANGED <<contested, crossed>>

-----------------------------------------------------------------------------
PairingNext ==
  \/ \E c \in Codes :
       \/ PairStarts(c) \/ Expires(c)
       \/ \E n \in Names, h \in Hashes : PairAsks(c, n, h)
       \/ \E q \in Resolvers, approve \in {"yes", "no"} : ResolveReads(q, c, approve)
  \/ \E n \in Names :
       \/ RevokeToken(n)
       \/ \E h \in Hashes : IssueToken(n, h)
  \/ \E q \in Resolvers : ResolveWrites(q)

PairingSpec == PairingInit /\ [][PairingNext]_pairingVars

-----------------------------------------------------------------------------
(* The type of every variable.                                             *)
PairingTypeOK ==
  /\ token \in [Names -> [hash : Hashes \cup {NoHash}, live : {"yes", "no"}]]
  /\ pairing \in [Codes -> {NoPairing} \cup
                   [status : {"asking", "pending", "superseded", "expired", "approved", "denied"},
                    name : Names, hash : Hashes, replaces : SUBSET Codes, awaits : SUBSET Codes]]
  /\ resolver \in [Resolvers -> {NotResolving} \cup
                   [on : {"yes"}, code : Codes, approve : {"yes", "no"}]]
  /\ contested \in SUBSET Codes /\ crossed \in SUBSET Codes

(* A live credential is never replaced silently, by an approval or by hand:*)
(* it would strand the token the machine is running on.                    *)
LiveTokenStands ==
  [][\A n \in Names :
       (Live(n) /\ token'[n].live = "yes") => token'[n].hash = token[n].hash]_pairingVars

(* The token of a request that was denied opens nothing, unless the same   *)
(* token was approved in another request, or one operator approved while   *)
(* another denied.                                                         *)
DeniedStaysOut ==
  \A c \in With("denied") \ contested, n \in Names :
    (Live(n) /\ token[n].hash = pairing[c].hash) =>
      \E d \in With("approved") \cup contested : pairing[d].hash = pairing[c].hash

(* An operator has one request of a machine to choose, unless two of its   *)
(* starts crossed.                                                         *)
OnePendingPerName ==
  \A c, d \in With("pending") :
    (pairing[c].name = pairing[d].name /\ c # d) => {c, d} \subseteq crossed
=============================================================================
