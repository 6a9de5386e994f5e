------------------------------ MODULE PgQueue ------------------------------
(***************************************************************************)
(* The calls of casebroker/db.py that are not one step on Postgres.  Every *)
(* session commits statement by statement unless a call opens a            *)
(* transaction, and a transaction protects only the rows it has locked.    *)
(* lease(), complete(), fail() and release() lock their row before they    *)
(* decide, so each is one step here.  heartbeat() locks it in a statement  *)
(* of its own, and the lock is gone when that returns; status() and the    *)
(* operator's calls (cancel, park, land audit, reopen, respec) read first  *)
(* and write later.  Such a call is two steps of a thread, with those of   *)
(* everybody else between.  Updates of a transaction that repeat their     *)
(* condition see the rows as they are when it commits.                     *)
(*                                                                         *)
(* Placement (CaseQueue) is left out: a node may be handed any case that   *)
(* can be claimed.                                                         *)
(***************************************************************************)
EXTENDS Integers, FiniteSets

CONSTANTS
  Cases, NoCase,
  Workers, NoWorker,      \* nodes, each under a worker id of its own
  Threads,                \* sessions that serve calls of more than one step
  LeaseIds, NoLease,
  Results, NoResult,
  MaxAttempts,
  MovesTo,                \* MovesTo[c]: c's site under the other recipe
  OffLand,                \* cases whose site the land audit rejects
  Ops                     \* which of the calls below are made

AllOps == {"heartbeat", "status", "cancel", "park", "audit", "reopen", "respec", "purge"}

(* What a thread is about to write.                                        *)
Writes == (AllOps \ {"heartbeat", "purge"})
            \cup {"extend", "progress", "abandon", "pardon"}

States == {"absent", "pending", "leased", "done", "quarantined"}

ASSUME PgConstants ==
  /\ NoCase \notin Cases /\ NoWorker \notin Workers
  /\ NoLease \notin LeaseIds /\ NoResult \notin Results
  /\ MaxAttempts \in Nat \ {0}
  /\ MovesTo \in [Cases -> Cases \cup {NoCase}]
  /\ OffLand \subseteq Cases /\ Ops \subseteq AllOps

VARIABLES
  row,    \* the cases table; late: 1 expired, 2 for 48 hours; wedged: too old
          \* a lease, and no new progress line
  mem,    \* mem[w][c]: the lease w believes it holds
  moved,  \* moved[c]: c's events name the case it was moved to
  call    \* call[t]: the call a thread has read for and not yet written

vars == <<row, mem, moved, call>>

NoRow == [state |-> "absent", lease |-> NoLease, worker |-> NoWorker, late |-> 0,
          wedged |-> FALSE, attempts |-> 0, result |-> NoResult]

Nothing == [c \in Cases |-> NoLease]
Idle    == [op |-> "idle", by |-> NoWorker, found |-> {}, saw |-> Nothing]

-----------------------------------------------------------------------------
(* One row of the table.                                                   *)

Freed(r, s) == [state |-> s, lease |-> NoLease, worker |-> NoWorker, late |-> 0,
                wedged |-> FALSE, attempts |-> r.attempts, result |-> r.result]
Refunded(r) == [r EXCEPT !.attempts = IF @ > 0 THEN @ - 1 ELSE 0]

(* UPDATE cases SET ... WHERE case_id = c: whatever the row has become.    *)
Update(c, r) == row' = [row EXCEPT ![c] = IF @.state = "absent" THEN @ ELSE r]

Post(c) ==
  /\ row[c].state = "absent"
  /\ row' = [row EXCEPT ![c] = [NoRow EXCEPT !.state = "pending"]]
  /\ UNCHANGED <<mem, moved, call>>

(* Time passes for a lease: it expires, stays unclaimed for two days, or   *)
(* outlives the age cap with nothing new to say.                           *)
Age(c) ==
  /\ row[c].state = "leased"
  /\ \/ row[c].late < 2 /\ row' = [row EXCEPT ![c].late = @ + 1]
     \/ ~row[c].wedged /\ row' = [row EXCEPT ![c].wedged = TRUE]
  /\ UNCHANGED <<mem, moved, call>>

-----------------------------------------------------------------------------
(* Calls of the nodes that lock their row (SELECT ... FOR UPDATE in the    *)
(* transaction that updates it).                                           *)

Own(w, c)    == row[c].state = "leased" /\ row[c].worker = w
Claimable(c) == \/ row[c].state = "pending"
                \/ row[c].state = "leased" /\ (row[c].late > 0 \/ row[c].wedged)

UnusedLeases == LeaseIds \ ({row[c].lease : c \in Cases}
                            \cup {mem[w][c] : w \in Workers, c \in Cases}
                            \cup {call[t].saw[c] : t \in Threads, c \in Cases})

Spent(attempt) == attempt > MaxAttempts

Lease(w, c) ==
  /\ Claimable(c) \/ Own(w, c)
  /\ \E resumed \in BOOLEAN :
       LET attempt == IF resumed /\ Own(w, c) THEN row[c].attempts ELSE row[c].attempts + 1
       IN  /\ resumed \/ Claimable(c)
           /\ IF Spent(attempt)
                THEN row' = [row EXCEPT ![c] = Freed(@, "quarantined")] /\ UNCHANGED mem
                ELSE \E l \in UnusedLeases :
                       /\ row' = [row EXCEPT ![c] =
                            [state |-> "leased", lease |-> l, worker |-> w, late |-> 0,
                             wedged |-> FALSE, attempts |-> attempt, result |-> @.result]]
                       /\ mem' = [mem EXCEPT ![w][c] = l] \/ UNCHANGED mem
  /\ UNCHANGED <<moved, call>>

Holding(w, c) == mem[w][c] # NoLease
Live(w, c)    == Holding(w, c) /\ row[c].state = "leased" /\ row[c].lease = mem[w][c]

Forget(w, c) == mem' = [mem EXCEPT ![w][c] = NoLease]
LetGo(w, c)  == Forget(w, c) \/ UNCHANGED mem

Complete(w, c, r) ==
  /\ Live(w, c)
  /\ row' = [row EXCEPT ![c] = [Freed(@, "done") EXCEPT !.result = r]]
  /\ LetGo(w, c) /\ UNCHANGED <<moved, call>>

(* A refund is for the worker's own time limit or a broken engine.         *)
Fail(w, c, retryable, refund) ==
  /\ Live(w, c)
  /\ LET r == IF retryable /\ refund THEN Refunded(row[c]) ELSE row[c]
         s == IF retryable /\ r.attempts < MaxAttempts THEN "pending" ELSE "quarantined"
     IN  row' = [row EXCEPT ![c] = Freed(r, s)]
  /\ LetGo(w, c) /\ UNCHANGED <<moved, call>>

Release(w, c) ==
  /\ Live(w, c)
  /\ row' = [row EXCEPT ![c] = Refunded(Freed(@, "pending"))]
  /\ LetGo(w, c) /\ UNCHANGED <<moved, call>>

(* A call finds its lease gone (409), or the node dies.                    *)
Refused(w, c) ==
  /\ Holding(w, c) /\ ~Live(w, c)
  /\ Forget(w, c) /\ UNCHANGED <<row, moved, call>>

Crash(w) ==
  /\ \E c \in Cases : Holding(w, c)
  /\ mem' = [mem EXCEPT ![w] = Nothing]
  /\ UNCHANGED <<row, moved, call>>

-----------------------------------------------------------------------------
(* Calls of two steps: what each reads, and later writes.                  *)

Begin(t, op, w, S) ==
  /\ call[t] = Idle
  /\ call' = [call EXCEPT ![t] =
       [op |-> op, by |-> w, found |-> S,
        saw |-> [c \in Cases |-> IF c \in S THEN row[c].lease ELSE NoLease]]]
  /\ UNCHANGED <<row, mem, moved>>

End(t) == call' = [call EXCEPT ![t] = Idle]

(* A scan that found something; the caller's limit and filter make it any  *)
(* part of what qualifies.                                                 *)
Scan(t, op, Qualified) == \E S \in SUBSET Qualified \ {{}} : Begin(t, op, NoWorker, S)

(* heartbeat: _by_lease and _still_progressing.                            *)
BeginHeartbeat(t, w, c, new) ==
  /\ "heartbeat" \in Ops /\ Live(w, c)
  /\ Begin(t, IF new THEN "progress" ELSE IF row[c].wedged THEN "abandon" ELSE "extend",
           w, {c})

(* The extension names the lease, and changes no row if it is gone; the    *)
(* node is answered that it holds the case all the same.  A new progress   *)
(* line is an event of the case, whoever holds it by now.                  *)
Extend(t) ==
  /\ call[t].op \in {"extend", "progress"}
  /\ row' = [c \in Cases |->
       IF c \in call[t].found
         THEN [row[c] EXCEPT !.late = IF row[c].lease = call[t].saw[c] THEN 0 ELSE @,
                             !.wedged = @ /\ call[t].op # "progress"]
         ELSE row[c]]
  /\ End(t) /\ UNCHANGED <<mem, moved>>

(* The abandoning update names the case.                                   *)
Abandon(t) ==
  /\ call[t].op = "abandon"
  /\ \E c \in call[t].found :
       /\ Update(c, Freed(row[c], "pending"))
       /\ \/ mem[call[t].by][c] = call[t].saw[c] /\ Forget(call[t].by, c)
          \/ UNCHANGED mem
  /\ End(t) /\ UNCHANGED moved

(* status: _release_stale_leases updates row after row, by case_id.        *)
BeginStatus(t) ==
  LET stale == {c \in Cases : row[c].state = "leased" /\ row[c].late = 2}
  IN  "status" \in Ops /\ stale # {} /\ Begin(t, "status", NoWorker, stale)

Without(k, c) == IF k.found = {c} THEN Idle
                 ELSE [k EXCEPT !.found = @ \ {c}, !.saw[c] = NoLease]

Clear(t) ==
  /\ call[t].op = "status"
  /\ \E c \in call[t].found :
       /\ Update(c, Freed(row[c], "pending"))
       /\ call' = [call EXCEPT ![t] = Without(@, c)]
  /\ UNCHANGED <<mem, moved>>

(* cancel: the update names the case.                                      *)
BeginCancel(t, c) ==
  "cancel" \in Ops /\ row[c].state = "leased" /\ Begin(t, "cancel", NoWorker, {c})

Cancel(t) ==
  /\ call[t].op = "cancel"
  /\ \E c \in call[t].found, s \in {"pending", "quarantined"} :
       Update(c, Refunded(Freed(row[c], s)))
  /\ End(t) /\ UNCHANGED <<mem, moved>>

(* park: named cases that are pending, and still are.                      *)
Parkable(c) == row[c].state = "pending"

BeginPark(t) == "park" \in Ops /\ Scan(t, "park", {c \in Cases : Parkable(c)})

(* Wrong: the update does not ask for the state again.                     *)
ParkScanned(t) ==
  /\ call[t].op = "park"
  /\ row' = [c \in Cases |->
       IF c \in call[t].found THEN [row[c] EXCEPT !.state = "quarantined"] ELSE row[c]]
  /\ End(t) /\ UNCHANGED <<mem, moved>>

Park(t) ==
  /\ call[t].op = "park"
  /\ row' = [c \in Cases |->
       IF c \in call[t].found /\ Parkable(c)
         THEN [row[c] EXCEPT !.state = "quarantined"] ELSE row[c]]
  /\ End(t) /\ UNCHANGED <<mem, moved>>

(* The land audit takes leased cases too, and leaves their other columns.  *)
Auditable(c) == row[c].state \in {"pending", "leased"}

BeginAudit(t) ==
  /\ "audit" \in Ops
  /\ LET S == {c \in OffLand : Auditable(c)} IN S # {} /\ Begin(t, "audit", NoWorker, S)

Audit(t) ==
  /\ call[t].op = "audit"
  /\ row' = [c \in Cases |->
       IF c \in call[t].found /\ Auditable(c)
         THEN [row[c] EXCEPT !.state = "quarantined", !.lease = NoLease] ELSE row[c]]
  /\ End(t) /\ UNCHANGED <<mem, moved>>

(* Wrong: a done case can be reopened.                                     *)
ReopenableDone(op, c) == row[c].state \in {"quarantined", "done"}

(* reopen, or with include_pending a pardon of pending cases too.          *)
Reopenable(op, c) == \/ row[c].state = "quarantined"
                     \/ op = "pardon" /\ row[c].state = "pending"

(* The scan takes a pending case with an attempt or an error on record;    *)
(* the error is not modelled, so any may be taken.                         *)
BeginReopen(t, op) ==
  /\ "reopen" \in Ops
  /\ Scan(t, op, {c \in Cases : Reopenable(op, c)})

Reopen(t) ==
  /\ call[t].op \in {"reopen", "pardon"}
  /\ row' = [c \in Cases |->
       IF c \in call[t].found /\ Reopenable(call[t].op, c)
         THEN [Freed(row[c], "pending") EXCEPT !.attempts = 0] ELSE row[c]]
  /\ End(t) /\ UNCHANGED <<mem, moved>>

(* respec: the case is parked, and its site is posted under the other      *)
(* recipe unless it is there.  One call moves to one recipe, so no case of *)
(* it is one another moves to.                                             *)
Movable(c) == row[c].state \in {"pending", "quarantined"}

BeginRespec(t) ==
  /\ "respec" \in Ops
  /\ \E S \in SUBSET {c \in Cases : /\ MovesTo[c] # NoCase /\ Movable(c)
                                    /\ ~(row[c].state = "quarantined" /\ moved[c])} :
       /\ S # {} /\ {MovesTo[c] : c \in S} \cap S = {}
       /\ Begin(t, "respec", NoWorker, S)

(* Wrong: the site is posted whether or not its old case could be parked.  *)
MovesScanned(t) == call[t].found

Moves(t) == {c \in call[t].found : Movable(c)}

Respec(t) ==
  /\ call[t].op = "respec"
  /\ row' = [c \in Cases |->
       IF c \in call[t].found /\ Movable(c) THEN [row[c] EXCEPT !.state = "quarantined"]
       ELSE IF row[c].state = "absent" /\ \E d \in Moves(t) : MovesTo[d] = c
         THEN [NoRow EXCEPT !.state = "pending"]
         ELSE row[c]]
  /\ moved' = [c \in Cases |-> moved[c] \/ c \in Moves(t)]
  /\ End(t) /\ UNCHANGED mem

(* purge, by recipe or state: the transaction deletes what matches then,   *)
(* with its events.  Its count, read before, is only compared.             *)
Purge(among, s) ==
  LET gone == {c \in among : row[c].state # "absent" /\ (s = "any" \/ row[c].state = s)}
  IN  /\ "purge" \in Ops /\ gone # {}
      /\ row' = [c \in Cases |-> IF c \in gone THEN NoRow ELSE row[c]]
      /\ moved' = [c \in Cases |-> moved[c] /\ c \notin gone]
      /\ UNCHANGED <<mem, call>>

-----------------------------------------------------------------------------
Init ==
  /\ row   = [c \in Cases |-> NoRow]
  /\ mem   = [w \in Workers |-> Nothing]
  /\ moved = [c \in Cases |-> FALSE]
  /\ call  = [t \in Threads |-> Idle]

NodeCall(w, c) ==
  \/ Lease(w, c)
  \/ \E r \in Results : Complete(w, c, r)
  \/ \E retryable, refund \in BOOLEAN : Fail(w, c, retryable, refund)
  \/ Release(w, c)
  \/ Refused(w, c)

Reads(t) ==
  \/ \E w \in Workers, c \in Cases, new \in BOOLEAN : BeginHeartbeat(t, w, c, new)
  \/ BeginStatus(t)
  \/ \E c \in Cases : BeginCancel(t, c)
  \/ BeginPark(t)
  \/ BeginAudit(t)
  \/ \E op \in {"reopen", "pardon"} : BeginReopen(t, op)
  \/ BeginRespec(t)

Written(t) ==
  \/ Extend(t) \/ Abandon(t) \/ Clear(t) \/ Cancel(t)
  \/ Park(t) \/ Audit(t) \/ Reopen(t) \/ Respec(t)

Next ==
  \/ \E c \in Cases : Post(c) \/ Age(c)
  \/ \E w \in Workers, c \in Cases : NodeCall(w, c)
  \/ \E w \in Workers : Crash(w)
  \/ \E t \in Threads : Reads(t) \/ Written(t)
  \/ \E among \in SUBSET Cases, s \in States \cup {"any"} : Purge(among, s)

Spec == Init /\ [][Next]_vars

-----------------------------------------------------------------------------
Row == [state : States, lease : LeaseIds \cup {NoLease},
        worker : Workers \cup {NoWorker}, late : 0..2, wedged : BOOLEAN,
        attempts : 0..MaxAttempts, result : Results \cup {NoResult}]

Snapshot == [Cases -> LeaseIds \cup {NoLease}]

(* Every variable holds a value of its type; in particular no interleaving *)
(* charges a case beyond its budget.                                       *)
TypeOK ==
  /\ row \in [Cases -> Row]
  /\ mem \in [Workers -> Snapshot]
  /\ moved \in [Cases -> BOOLEAN]
  /\ call \in [Threads -> [op : Writes \cup {"idle"}, by : Workers \cup {NoWorker},
                           found : SUBSET Cases, saw : Snapshot]]

-----------------------------------------------------------------------------
(* What holds on Postgres too, and what does not.                          *)

Life(c) == INSTANCE CampaignLife
             WITH state <- row[c].state, lease <- row[c].lease,
                  attempts <- row[c].attempts, result <- row[c].result

(* The writes that name a case and do not ask what became of it.           *)
Unguarded == {"abandon", "status", "cancel"}

(* This step is such a write, and the lease it read is no longer c's.      *)
Outraced(c) ==
  \E t \in Threads :
    /\ call[t].op \in Unguarded /\ call'[t] # call[t]
    /\ c \in call[t].found /\ row[c].lease # call[t].saw[c]

(* Whatever the interleaving, every case lives as CampaignLife says, but   *)
(* for the rows an unguarded write meets changed: heartbeat's abandoning,  *)
(* status' clearing and cancel are the only calls that may do harm, and    *)
(* only to such rows.                                                      *)
StrayOnlyOutraced ==
  /\ \A c \in Cases : Life(c)!Init
  /\ [][\A c \in Cases : \/ Life(c)!CampaignNext
                         \/ UNCHANGED Life(c)!vars
                         \/ Outraced(c)]_vars

(* A leased case is never moved, and a done one keeps its result: park,    *)
(* reopen and respec leave them alone, though they looked for the cases    *)
(* earlier and a node may have leased or finished one since.               *)
WorkIsLeftAlone ==
  [][\A t \in Threads :
       call[t].op \in {"park", "reopen", "pardon", "respec"} /\ call'[t] # call[t]
         => \A c \in Cases : row[c].state \in {"leased", "done"} => row'[c] = row[c]]_vars

(* A site is not run twice: respec posts it under the other recipe only    *)
(* together with parking its case under this one.                          *)
SiteMovesWhole ==
  [][\A t \in Threads :
       call[t].op = "respec" /\ call'[t] # call[t]
         => \A c \in Cases : row[c].state = "absent" /\ row'[c].state # "absent"
              => \E d \in call[t].found : MovesTo[d] = c /\ row'[d].state = "quarantined"]_vars

-----------------------------------------------------------------------------
(* Why it holds: a row has a lease exactly while it is leased, a row that  *)
(* is not there has no history, and an unguarded write saw a lease.        *)
RowsConsistent ==
  \A c \in Cases :
    /\ row[c].state = "leased" <=> row[c].lease # NoLease
    /\ row[c].state = "absent" => row[c].attempts = 0 /\ row[c].result = NoResult

CallsSawLeases ==
  \A t \in Threads : call[t].op \in Unguarded
    => \A c \in call[t].found : call[t].saw[c] # NoLease

PgInv == RowsConsistent /\ CallsSawLeases

-----------------------------------------------------------------------------
(* What the documents say and the calls do not do.                         *)

(* "A heartbeat in flight cannot be quietly outraced by a reclaim": what a *)
(* heartbeat writes to is still held under the lease it named.             *)
HeartbeatHasItsLease ==
  [][\A t \in Threads :
       call[t].op \in {"extend", "progress", "abandon"} /\ call'[t] # call[t]
         => \A c \in call[t].found : row'[c].state # row[c].state
              => row[c].lease = call[t].saw[c]]_vars

(* Cancel takes a leased case off its node, and refuses one that is not    *)
(* leased.                                                                 *)
CancelTakesLeased ==
  [][\A t \in Threads :
       call[t].op = "cancel" /\ call'[t] # call[t]
         => \A c \in call[t].found : row[c].state = "leased"]_vars
=============================================================================
