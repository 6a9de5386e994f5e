----------------------------- MODULE CaseQueue -----------------------------
(***************************************************************************)
(* The broker's queue (casebroker/db.py): cases are claimed with lease(),  *)
(* kept with heartbeat(), and given up with complete(), fail() or          *)
(* release(); status() clears leases nobody reclaimed.  Every call is one  *)
(* step here, as it is on SQLite, where one lock and BEGIN IMMEDIATE       *)
(* serialise whole calls.                                                  *)
(*                                                                         *)
(* A process is one running node.  Processes of one worker id share its    *)
(* identity (a restart beside a zombie); the broker sees only worker ids.  *)
(* Time is a set of counters that a Tick moves: what a row stores as a     *)
(* timestamp is here how long ago, or how long until, that time is.        *)
(***************************************************************************)
EXTENDS Integers, FiniteSets

CONSTANTS
  Cases, NoCase,          \* every case that may ever be posted
  Procs,                  \* running nodes
  Workers, NoWorker, WorkerOf,  \* WorkerOf[p]: the worker_id p leases as
  Hosts, HostOf,          \* HostOf[w]: the host w declares at every lease
  LeaseIds, NoLease,      \* uuids; an id nobody remembers is as good as new
  Results, NoResult,      \* result URIs
  NeedOf,                 \* NeedOf[c]: the case a post of c names in "needs"
  Priority, Rank,         \* lease order: priority, then case_id (Rank)
  MaxAttempts, MaxCount,  \* retry budget of a case; most cases per lease call
  RecipesOf,              \* RecipesOf[p]: the cases of a recipe p may be handed
  FitsOn,                 \* FitsOn[p]: those of its splits that fit its memory
  Undeclared,             \* nodes from before parts: say nothing of continuing
  Continuers,             \* nodes that fetch a started case from the broker
  SmallNodes,             \* nodes below small_node_cpus
  Shippers,               \* nodes that report parts as they finish them
  Drainable,              \* workers an operator may drain
  Resettable,             \* cases an operator may drop the parts of
  FailureKinds,           \* which of Errors the nodes report
  Polling,                \* nodes that keep asking for work (fairness only)
  LeaseTTL, StaleAfter, MaxLeaseAge, StallAfter,
  FailCooldown, HandoffCooldown,
  BurstCases, BurstWindow,
  RefundWindow, StepBudget, TimeoutRefunds, EngineRefunds

Lines  == {"none", "same", "new"}
Errors == {"plain", "timeout", "step", "engine"}
States == {"absent", "pending", "leased", "done", "quarantined"}

(* Progress older than every window is "long ago"; one tick beyond stands  *)
(* for a case whose worker has never said anything.                        *)
LongAgo == 1 + IF StallAfter > RefundWindow + StepBudget
                 THEN StallAfter ELSE RefundWindow + StepBudget
NeverSpoke == LongAgo + 1

ASSUME ConstantsAssumption ==
  /\ IsFiniteSet(Cases)
  /\ NoCase \notin Cases /\ NoWorker \notin Workers
  /\ NoLease \notin LeaseIds /\ NoResult \notin Results
  /\ WorkerOf \in [Procs -> Workers] /\ HostOf \in [Workers -> Hosts]
  /\ NeedOf \in [Cases -> Cases \cup {NoCase}]
  /\ Priority \in [Cases -> Nat] /\ Rank \in [Cases -> Nat]
  /\ RecipesOf \in [Procs -> SUBSET Cases]
  /\ FitsOn \in [Procs -> SUBSET Cases]
  /\ Undeclared \subseteq Procs /\ Continuers \subseteq Procs \ Undeclared
  /\ SmallNodes \subseteq Procs /\ Shippers \subseteq Procs
  /\ Drainable \subseteq Workers /\ Resettable \subseteq Cases
  /\ FailureKinds \subseteq Errors
  /\ Polling \subseteq Procs
  /\ MaxAttempts \in Nat \ {0} /\ MaxCount \in Nat \ {0}
  /\ LeaseTTL \in Nat /\ StaleAfter \in Nat \ {0}
  /\ MaxLeaseAge \in Nat /\ StallAfter \in Nat
  /\ FailCooldown \in Nat /\ HandoffCooldown \in Nat
  /\ BurstCases \in Nat \ {0} /\ BurstWindow \in Nat
  /\ RefundWindow \in Nat /\ StepBudget \in Nat
  /\ TimeoutRefunds \in Nat /\ EngineRefunds \in Nat

VARIABLES
  row,      \* the cases table (and spoke: a progress event since the lease)
  quiet,    \* quiet[c]: time since the newest progress event of c
  refunds,  \* refunds[c]: attempts given back for a worker's own time limit
  engine,   \* engine[c]: failures that were a broken container engine
  cool,     \* cool[w][c]: time left in which w's failure of c keeps c away
  handed,   \* handed[w][c]: the same for a hand-off
  burst,    \* burst[w][c]: time left in which w's failure of c counts as burst
  drain,    \* drain[w]: workers.drain
  mesh,     \* mesh[c]: "none", "reported" (case_parts), "held" (case_blobs too)
  mem,      \* mem[p][c]: the lease p believes it holds, and for how long
  disk,     \* disk[w]: cases the scratch of w's machine holds a checkpoint of
  told      \* told[c]: results a node that named c was told are recorded

trail == <<quiet, refunds, engine, cool, handed, burst>>
node  == <<mem, disk>>
vars  == <<row, trail, drain, mesh, node, told>>

NoRow == [state |-> "absent", lease |-> NoLease, worker |-> NoWorker,
          left |-> 0, age |-> 0, spoke |-> FALSE, attempts |-> 0,
          need |-> NoCase, result |-> NoResult]

(* A lease as a node remembers it: fresh from an answer, or none.          *)
Heard(l)  == [lease |-> l, trust |-> LeaseTTL]
Forgotten == [lease |-> NoLease, trust |-> -1]

-----------------------------------------------------------------------------
(* The row updates the handlers share.                                     *)

(* state=..., lease_id=NULL, lease_worker=NULL, lease_expires=NULL,        *)
(* leased_at=NULL                                                          *)
Freed(r, s) == [state |-> s, lease |-> NoLease, worker |-> NoWorker,
                left |-> 0, age |-> 0, spoke |-> FALSE,
                attempts |-> r.attempts, need |-> r.need, result |-> r.result]

(* attempts = CASE WHEN attempts > 0 THEN attempts - 1 ELSE 0 END          *)
Refunded(r) == [r EXCEPT !.attempts = IF @ > 0 THEN @ - 1 ELSE 0]

Claimed(r, w, l, attempt) ==
  [state |-> "leased", lease |-> l, worker |-> w,
   left |-> LeaseTTL, age |-> 0, spoke |-> FALSE,
   attempts |-> attempt, need |-> r.need, result |-> r.result]

-----------------------------------------------------------------------------
(* The conditions of lease()'s two queries.                                *)

Own(p, c) == row[c].state = "leased" /\ row[c].worker = WorkerOf[p]

(* Wrong: a lease is lost in its last second, not after it.                *)
ExpiredEarly(c) == row[c].state = "leased" /\ row[c].left <= 0

Expired(c) == row[c].state = "leased" /\ row[c].left < 0

(* Held too long by a worker whose progress line has stopped changing.     *)
Wedged(c) == /\ row[c].state = "leased"
             /\ row[c].age > MaxLeaseAge
             /\ quiet[c] > StallAfter

(* Wrong: the query that hands out work forgot to reclaim leases.          *)
ClaimablePending(c) == row[c].state = "pending"

Claimable(c) == row[c].state = "pending" \/ Expired(c) \/ Wedged(c)

Housemates(p) == {w \in Workers : w = WorkerOf[p] \/ HostOf[w] = HostOf[WorkerOf[p]]}

(* Wrong: a failure keeps the case from its worker, not from its host.     *)
FailedHereWorker(p, c) == cool[WorkerOf[p]][c] > 0

FailedHere(p, c)    == \E w \in Housemates(p) : cool[w][c] > 0
HandedOffHere(p, c) == \E w \in Housemates(p) : handed[w][c] > 0

(* Wrong: it is enough that the need is known, or being worked on.         *)
NeedKnown(c) == row[c].need # NoCase => row[row[c].need].state # "absent"

NeedMet(c) == row[c].need # NoCase => row[row[c].need].state = "done"

(* A started case goes only to a node that can fetch its mesh, and only    *)
(* while the broker holds it; a node from before parts is handed anything. *)
ContinueOk(p, c) ==
  \/ p \in Undeclared
  \/ mesh[c] = "none"
  \/ p \in Continuers /\ mesh[c] = "held"

HardwareOk(p, c) == c \in FitsOn[p] /\ (p \in SmallNodes => mesh[c] = "held")

(* Wrong: a draining worker may take back a case it let go.                *)
ResumableDrained(p) ==
  {c \in RecipesOf[p] : /\ Own(p, c) \/ Claimable(c)
                        /\ ~FailedHere(p, c) /\ ~HandedOffHere(p, c)}

Resumable(p) ==
  {c \in RecipesOf[p] :
     /\ Own(p, c) \/ (~drain[WorkerOf[p]] /\ Claimable(c))
     /\ ~FailedHere(p, c) /\ ~HandedOffHere(p, c)}

Fresh(p) ==
  {c \in RecipesOf[p] :
     /\ Claimable(c) /\ NeedMet(c) /\ ContinueOk(p, c) /\ HardwareOk(p, c)
     /\ ~FailedHere(p, c) /\ ~HandedOffHere(p, c)}

(* ORDER BY priority, [meshed at the broker first], case_id                *)
Before(p, c, d) ==
  \/ Priority[c] < Priority[d]
  \/ /\ Priority[c] = Priority[d]
     /\ IF p \in Continuers /\ (mesh[c] = "held") # (mesh[d] = "held")
          THEN mesh[c] = "held"
          ELSE Rank[c] < Rank[d]

(* S is the first n of T in that order, or all of T: ORDER BY ... LIMIT n. *)
FirstOf(p, S, T, n) ==
  /\ S \subseteq T
  /\ Cardinality(S) <= n
  /\ Cardinality(S) < n => S = T
  /\ \A c \in S, d \in T \ S : Before(p, c, d)

UnusedLeases == LeaseIds \ ({row[c].lease : c \in Cases}
                            \cup {mem[p][c].lease : p \in Procs, c \in Cases})

(* Wrong: any resume is free, not only that of a case still held.          *)
ResumeIsFree(p, c, R) == IF c \in R THEN row[c].attempts ELSE row[c].attempts + 1

(* claim(): its own case resumed costs no attempt, any other does; a case  *)
(* with none left is quarantined, named after the worker that held it.     *)
AttemptOf(p, c, R) == IF c \in R /\ Own(p, c) THEN row[c].attempts
                                              ELSE row[c].attempts + 1

(* Wrong: attempts are counted and never compared.                         *)
NeverSpent(p, c, R) == FALSE

Spent(p, c, R) == AttemptOf(p, c, R) > MaxAttempts

Grant(p, R, F, ids) ==
  LET spent   == {c \in R \cup F : Spent(p, c, R)}
      granted == (R \cup F) \ spent
  IN  /\ row' = [c \in Cases |->
                   IF c \in granted
                     THEN Claimed(row[c], WorkerOf[p], ids[c], AttemptOf(p, c, R))
                     ELSE IF c \in spent THEN Freed(row[c], "quarantined")
                                         ELSE row[c]]
      /\ cool' = [w \in Workers |-> [c \in Cases |->
                    IF c \in spent /\ row[c].worker = w THEN FailCooldown
                                                        ELSE cool[w][c]]]

Learn(p, granted, ids) ==
  /\ mem' = [mem EXCEPT ![p] = [c \in Cases |->
               IF c \in granted THEN Heard(ids[c]) ELSE mem[p][c]]]
  /\ disk' = [disk EXCEPT ![WorkerOf[p]] = @ \cup granted]

(* POST /v1/lease: first the cases the node has a checkpoint of, then, if  *)
(* the worker is not draining, fresh ones.  The answer may be lost.        *)
Lease(p) ==
  \E count \in 1..MaxCount : \E asked \in SUBSET disk[WorkerOf[p]] :
    /\ Cardinality(asked) <= count
    /\ LET R    == asked \cap Resumable(p)
           gotR == {c \in R : ~Spent(p, c, R)}
           room == IF drain[WorkerOf[p]] THEN 0 ELSE count - Cardinality(gotR)
       IN  \E F \in SUBSET (Fresh(p) \ R) :
             LET granted == gotR \cup {c \in F : ~Spent(p, c, R)}
             IN  /\ R \cup F # {}
                 /\ FirstOf(p, F, Fresh(p) \ R, room)
                 /\ \E ids \in [granted -> UnusedLeases] :
                      /\ \A c, d \in granted : ids[c] = ids[d] => c = d
                      /\ Grant(p, R, F, ids)
                      /\ \/ Learn(p, granted, ids)
                         \/ UNCHANGED node
  /\ UNCHANGED <<quiet, refunds, engine, handed, burst, drain, mesh, told>>

-----------------------------------------------------------------------------
(* Calls keyed by a lease id.                                              *)

Holding(p, c) == mem[p][c].lease # NoLease

(* Wrong: ownership by worker id; or a finished case answered as held, so  *)
(* that a repeated complete is let through.                                *)
LiveByWorker(p, c) == /\ Holding(p, c)
                      /\ row[c].state = "leased" /\ row[c].worker = WorkerOf[p]
LiveOrFinished(p, c) == /\ Holding(p, c)
                        /\ row[c].state = "done" \/ row[c].lease = mem[p][c].lease

(* _by_lease: the row this lease id currently owns.                        *)
Live(p, c) == /\ Holding(p, c)
              /\ row[c].state = "leased" /\ row[c].lease = mem[p][c].lease

Forget(p, c) == mem' = [mem EXCEPT ![p][c] = Forgotten]

(* The answer arrives and the node lets go, or it is lost and the node     *)
(* still believes.                                                         *)
LetGo(p, c) == (Forget(p, c) \/ UNCHANGED mem) /\ UNCHANGED disk

(* 409: the lease is gone; nothing changes at the broker.                  *)
Refused(p, c) ==
  /\ Holding(p, c) /\ ~Live(p, c)
  /\ Forget(p, c)
  /\ UNCHANGED <<row, trail, drain, mesh, disk, told>>

StillProgressing(c, line) == line = "new" \/ quiet[c] <= StallAfter

(* POST /v1/heartbeat.  line is the progress line it carries: none, the    *)
(* one last recorded, or a new one; the same line is recorded again when   *)
(* this lease has recorded none.                                           *)
Heartbeat(p, c, line) ==
  /\ Live(p, c)
  /\ line = "same" => quiet[c] # NeverSpoke
  /\ IF row[c].age > MaxLeaseAge /\ ~StillProgressing(c, line)
       THEN /\ row' = [row EXCEPT ![c] = Freed(@, "pending")]
            /\ LetGo(p, c)
            /\ UNCHANGED quiet
       ELSE LET recorded == line = "new" \/ (line = "same" /\ ~row[c].spoke)
            IN  /\ row' = [row EXCEPT ![c].left = LeaseTTL,
                                      ![c].spoke = @ \/ recorded]
                /\ quiet' = IF recorded THEN [quiet EXCEPT ![c] = 0] ELSE quiet
                /\ \/ mem' = [mem EXCEPT ![p][c] = Heard(@.lease)]
                   \/ UNCHANGED mem
                /\ UNCHANGED disk
  /\ UNCHANGED <<refunds, engine, cool, handed, burst, drain, mesh, told>>

(* Wrong: a retried complete is confirmed by any result of the case.       *)
RecordedAny(c, r) == row[c].state = "done"

Recorded(c, r) == row[c].state = "done" /\ row[c].result = r

(* POST /v1/complete.  A lease that is gone is confirmed all the same when *)
(* the case the node names is done with this very result.                  *)
Complete(p, c, r) ==
  /\ Holding(p, c)
  /\ Live(p, c) \/ Recorded(c, r)
  /\ row' = IF Live(p, c)
              THEN [row EXCEPT ![c] = [Freed(@, "done") EXCEPT !.result = r]]
              ELSE row
  /\ \/ /\ Forget(p, c)
        /\ told' = [told EXCEPT ![c] = @ \cup {r}]
     \/ UNCHANGED <<mem, told>>
  /\ UNCHANGED <<trail, drain, mesh, disk>>

(* The refunds of fail(): the worker's own time limit on a case that was   *)
(* moving (the window reaches back by a step's budget), and an engine that *)
(* cannot start.                                                           *)
RefundTimeout(c, error) ==
  /\ error \in {"timeout", "step"}
  /\ quiet[c] <= RefundWindow + IF error = "step" THEN StepBudget ELSE 0
  /\ refunds[c] < TimeoutRefunds
RefundEngine(c, error) == error = "engine" /\ engine[c] < EngineRefunds

(* _drain_on_burst: the failure just recorded completes a burst of w's.    *)
Bursting(w, b) == Cardinality({c \in Cases : b[w][c] > 0}) >= BurstCases

TimedOut(p, c, error) ==
  /\ Live(p, c) /\ RefundTimeout(c, error)
  /\ row' = [row EXCEPT ![c] = Refunded(Freed(@, "pending"))]
  /\ refunds' = [refunds EXCEPT ![c] = @ + 1]
  /\ LetGo(p, c)
  /\ UNCHANGED <<quiet, engine, cool, handed, burst, drain, mesh, told>>

(* POST /v1/fail                                                           *)
Fail(p, c, error, retryable) ==
  /\ Live(p, c)
  /\ ~(retryable /\ RefundTimeout(c, error))
  /\ LET w == row[c].worker
         r == IF retryable /\ RefundEngine(c, error) THEN Refunded(row[c]) ELSE row[c]
         s == IF retryable /\ r.attempts < MaxAttempts THEN "pending" ELSE "quarantined"
     IN  /\ row' = [row EXCEPT ![c] = Freed(r, s)]
         /\ cool' = [cool EXCEPT ![w][c] = FailCooldown]
         /\ burst' = [burst EXCEPT ![w][c] = BurstWindow]
         /\ drain' = [drain EXCEPT ![w] = @ \/ Bursting(w, burst')]
  /\ engine' = IF error = "engine" /\ engine[c] < EngineRefunds
                 THEN [engine EXCEPT ![c] = @ + 1] ELSE engine
  /\ LetGo(p, c)
  /\ UNCHANGED <<quiet, refunds, handed, mesh, told>>

(* POST /v1/release, or a hand-off of a share the node has solved.         *)
Release(p, c, handoff) ==
  /\ Live(p, c)
  /\ row' = [row EXCEPT ![c] = Refunded(Freed(@, "pending"))]
  /\ handed' = IF handoff THEN [handed EXCEPT ![row[c].worker][c] = HandoffCooldown]
                          ELSE handed
  /\ LetGo(p, c)
  /\ UNCHANGED <<quiet, refunds, engine, cool, burst, drain, mesh, told>>

(* POST /v1/parts for the mesh, by the lease holder.  A new mesh forgets   *)
(* what the broker held of the old one; the same one again changes nothing.*)
ReportMesh(p, c) ==
  /\ p \in Shippers /\ Live(p, c)
  /\ mesh' = [mesh EXCEPT ![c] = "reported"]
  /\ UNCHANGED <<row, trail, drain, node, told>>

-----------------------------------------------------------------------------
(* What happens beside the nodes' calls.                                   *)

(* The upload of the reported mesh is stored (record_blob); an operator    *)
(* drops the broker's copy (drop_blob) or all the case shipped             *)
(* (reset_parts).                                                          *)
SetMesh(c, old, new) ==
  /\ mesh[c] \in old /\ mesh' = [mesh EXCEPT ![c] = new]
  /\ UNCHANGED <<row, trail, drain, node, told>>

MeshStored(c) == SetMesh(c, {"reported"}, "held")
MeshDropped(c) == SetMesh(c, {"held"}, "reported")
PartsReset(c) == SetMesh(c, {"reported", "held"}, "none")

(* _release_stale_leases, run by every GET /v1/status.                     *)
Stale(c) == row[c].state = "leased" /\ row[c].left <= 0 - StaleAfter

Status ==
  /\ \E c \in Cases : Stale(c)
  /\ row' = [c \in Cases |-> IF Stale(c) THEN Freed(row[c], "pending") ELSE row[c]]
  /\ UNCHANGED <<trail, drain, mesh, node, told>>

SetDrain(w) ==
  /\ ~drain[w] /\ drain' = [drain EXCEPT ![w] = TRUE]
  /\ UNCHANGED <<row, trail, mesh, node, told>>

(* An undrain also starts the burst count over, of a worker that was not   *)
(* draining too.                                                           *)
Undrain(w) ==
  /\ drain' = [drain EXCEPT ![w] = FALSE]
  /\ burst' = [burst EXCEPT ![w] = [c \in Cases |-> 0]]
  /\ UNCHANGED <<row, quiet, refunds, engine, cool, handed, mesh, node, told>>

(* A node stops without a word; its scratch disk survives.                 *)
Crash(p) ==
  /\ \E c \in Cases : Holding(p, c)
  /\ mem' = [mem EXCEPT ![p] = [c \in Cases |-> Forgotten]]
  /\ UNCHANGED <<row, trail, drain, mesh, disk, told>>

Older(n, limit) == IF n < limit THEN n + 1 ELSE n
(* Wrong: a cooldown that never lifts.                                     *)
NeverSooner(n) == n
Sooner(n) == IF n > 0 THEN n - 1 ELSE 0
CountDown(f) == [w \in Workers |-> [c \in Cases |-> Sooner(f[w][c])]]

Tick ==
  /\ row' = [c \in Cases |->
       IF row[c].state # "leased" THEN row[c]
       ELSE [row[c] EXCEPT !.left = IF @ > 0 - StaleAfter THEN @ - 1 ELSE @,
                           !.age  = Older(@, MaxLeaseAge + 1)]]
  /\ quiet' = [c \in Cases |-> IF quiet[c] = NeverSpoke THEN NeverSpoke
                                                        ELSE Older(quiet[c], LongAgo)]
  /\ cool' = CountDown(cool) /\ handed' = CountDown(handed) /\ burst' = CountDown(burst)
  /\ mem' = [p \in Procs |-> [c \in Cases |->
       [mem[p][c] EXCEPT !.trust = IF @ >= 0 THEN @ - 1 ELSE @]]]
  /\ UNCHANGED <<refunds, engine, drain, mesh, disk, told>>

(* POST /v1/cases: existing ids are skipped; a need must already be there. *)
Post(S) ==
  /\ \E c \in S : row[c].state = "absent"
  /\ \A c \in S : NeedOf[c] # NoCase => row[NeedOf[c]].state # "absent"
  /\ row' = [c \in Cases |->
       IF c \in S /\ row[c].state = "absent"
         THEN [NoRow EXCEPT !.state = "pending", !.need = NeedOf[c]]
         ELSE row[c]]
  /\ UNCHANGED <<trail, drain, mesh, node, told>>

-----------------------------------------------------------------------------
Init ==
  /\ row     = [c \in Cases |-> NoRow]
  /\ quiet   = [c \in Cases |-> NeverSpoke]
  /\ refunds = [c \in Cases |-> 0]
  /\ engine  = [c \in Cases |-> 0]
  /\ cool    = [w \in Workers |-> [c \in Cases |-> 0]]
  /\ handed  = [w \in Workers |-> [c \in Cases |-> 0]]
  /\ burst   = [w \in Workers |-> [c \in Cases |-> 0]]
  /\ drain   = [w \in Workers |-> FALSE]
  /\ mesh    = [c \in Cases |-> "none"]
  /\ mem     = [p \in Procs |-> [c \in Cases |-> Forgotten]]
  /\ disk    = [w \in Workers |-> {}]
  /\ told    = [c \in Cases |-> {}]

NodeCall(p, c) ==
  \/ Refused(p, c)
  \/ \E line \in Lines : Heartbeat(p, c, line)
  \/ \E r \in Results : Complete(p, c, r)
  \/ \E error \in FailureKinds : TimedOut(p, c, error)
  \/ \E error \in FailureKinds, retryable \in BOOLEAN : Fail(p, c, error, retryable)
  \/ \E handoff \in BOOLEAN : Release(p, c, handoff)
  \/ ReportMesh(p, c)

Next ==
  \/ \E p \in Procs : Lease(p) \/ Crash(p)
  \/ \E p \in Procs, c \in Cases : NodeCall(p, c)
  \/ \E c \in Cases : MeshStored(c)
  \/ \E c \in Resettable : MeshDropped(c) \/ PartsReset(c)
  \/ \E w \in Drainable : SetDrain(w)
  \/ \E w \in Workers : Undrain(w)
  \/ \E S \in SUBSET Cases : Post(S)
  \/ Status
  \/ Tick

Spec == Init /\ [][Next]_vars

(* Fairness.  Time passes.  A polling node without a case asks for one     *)
(* again and again, and one whose lease is gone learns it at its next      *)
(* heartbeat.  Nothing is assumed of the other nodes, of a node with a     *)
(* live lease, of answers arriving, or of anybody opening the dashboard.   *)
Poll(p) == (\A c \in Cases : ~Holding(p, c)) /\ Lease(p)

FairSpec ==
  /\ Spec
  /\ WF_vars(Tick)
  /\ \A p \in Polling : WF_vars(Poll(p))
  /\ \A p \in Polling, c \in Cases : WF_vars(Refused(p, c))

-----------------------------------------------------------------------------
(* Types.                                                                  *)

Row == [state : States, lease : LeaseIds \cup {NoLease},
        worker : Workers \cup {NoWorker}, left : (0 - StaleAfter)..LeaseTTL,
        age : 0..(MaxLeaseAge + 1), spoke : BOOLEAN, attempts : 0..MaxAttempts,
        need : Cases \cup {NoCase}, result : Results \cup {NoResult}]

Belief == [lease : LeaseIds \cup {NoLease}, trust : (-1)..LeaseTTL]

(* Every variable holds a value of its type; in particular no case is ever *)
(* charged more attempts than its budget.                                  *)
TypeOK ==
  /\ row \in [Cases -> Row]
  /\ quiet \in [Cases -> 0..NeverSpoke]
  /\ refunds \in [Cases -> 0..TimeoutRefunds]
  /\ engine \in [Cases -> 0..EngineRefunds]
  /\ cool \in [Workers -> [Cases -> 0..FailCooldown]]
  /\ handed \in [Workers -> [Cases -> 0..HandoffCooldown]]
  /\ burst \in [Workers -> [Cases -> 0..BurstWindow]]
  /\ drain \in [Workers -> BOOLEAN]
  /\ mesh \in [Cases -> {"none", "reported", "held"}]
  /\ mem \in [Procs -> [Cases -> Belief]]
  /\ disk \in [Workers -> SUBSET Cases]
  /\ told \in [Cases -> SUBSET Results]

-----------------------------------------------------------------------------
(* What the queue promises.                                                *)

(* The lease id decides ownership: of all the nodes that remember a lease  *)
(* of a case -- zombies, restarted nodes, nodes that lost an answer -- the *)
(* broker answers at most one as its holder, and under its own worker id.  *)
OneHolder ==
  \A c \in Cases, p, q \in Procs :
    Live(p, c) /\ Live(q, c) => p = q /\ row[c].worker = WorkerOf[p]

(* A leased case was charged for, and within its budget: so no refund ever *)
(* meets the floor of zero, and a hand-back always returns a real attempt. *)
LeasedIsCharged ==
  \A c \in Cases : row[c].state = "leased" => row[c].attempts \in 1..MaxAttempts

(* A node that was told its result is recorded can rely on it: the case is *)
(* done with that result, whatever late or repeated calls arrive after.    *)
ConfirmedResultStands ==
  \A c \in Cases : \A r \in told[c] : row[c].state = "done" /\ row[c].result = r

(* Three chances means three machines: while a host's failure of a case is *)
(* recent, no worker of that host holds the case, by any path.             *)
FailedElsewhere ==
  \A c \in Cases : row[c].state = "leased" =>
    \A w \in Workers : HostOf[w] = HostOf[row[c].worker] => cool[w][c] = 0

(* A case built on another is never being worked on before that one is     *)
(* done, though a resume does not check it.                                *)
NeedsFirst ==
  \A c \in Cases : row[c].state = "leased" /\ row[c].need # NoCase
    => row[row[c].need].state = "done"

(* A node inside the lease period of the last answer it heard.             *)
Trusts(p, c) == Live(p, c) /\ mem[p][c].trust >= 0

(* While it trusts its lease, a node's case passes to no other lease but   *)
(* one of its own worker id, unless the case is wedged: the lease is old   *)
(* and its progress line has stopped changing.                             *)
TrustedLeaseStands ==
  [][\A p \in Procs, c \in Cases :
       Trusts(p, c) /\ row'[c].lease \notin {row[c].lease, NoLease}
         => row'[c].worker = WorkerOf[p] \/ Wedged(c)]_vars

(* A result is written once: a done case stays done with the same result.  *)
DoneIsFinal ==
  [][\A c \in Cases : row[c].state = "done"
       => row'[c].state = "done" /\ row'[c].result = row[c].result]_vars

(* A draining worker gets no new case: a lease it is granted is of a case  *)
(* it already holds.                                                       *)
DrainedTakesNothingNew ==
  [][\A c \in Cases, w \in Workers :
       drain[w] /\ row'[c].worker = w => row[c].worker = w]_vars

(* The queue gives every case the life CaseLife promises: no other edge of *)
(* the state machine, every lease charged within the budget but for a      *)
(* holder's own resume, and nothing after a result.                        *)
Life(c) == INSTANCE CaseLife WITH state <- row[c].state, lease <- row[c].lease,
                                  attempts <- row[c].attempts, result <- row[c].result

EveryCaseLives ==
  /\ \A c \in Cases : Life(c)!Init
  /\ [][\A c \in Cases : Life(c)!Next \/ UNCHANGED Life(c)!vars]_vars

-----------------------------------------------------------------------------
(* Why it holds: what every call leaves true of the rows and of what the   *)
(* nodes remember.                                                         *)

(* A row names a lease and a worker exactly while it is leased, and then   *)
(* it was charged; it has a result exactly when it is done.                *)
RowsConsistent ==
  \A c \in Cases :
    /\ row[c].state = "leased" <=> row[c].lease # NoLease
    /\ row[c].state = "leased" <=> row[c].worker # NoWorker
    /\ row[c].state = "leased" => row[c].attempts >= 1
    /\ row[c].state = "done" <=> row[c].result # NoResult
    /\ row[c].state = "absent" => row[c].attempts = 0

(* A lease id belongs to one row, and is remembered by at most one node,   *)
(* as the lease of the case it was granted for, under that node's worker.  *)
LeaseOnce ==
  /\ \A c, d \in Cases : row[c].lease = row[d].lease /\ row[c].lease # NoLease => c = d
  /\ \A p, q \in Procs, c, d \in Cases :
       Holding(p, c) /\ mem[p][c].lease = mem[q][d].lease => p = q /\ c = d
  /\ \A p \in Procs, c, d \in Cases :
       Holding(p, c) /\ row[d].lease = mem[p][c].lease
         => c = d /\ row[d].worker = WorkerOf[p]

(* The queue's inductive invariant.                                        *)
QueueInv == RowsConsistent /\ LeaseOnce /\ ConfirmedResultStands

(* A node never trusts a live lease for longer than the broker will.       *)
TrustIsBacked ==
  \A p \in Procs, c \in Cases : Trusts(p, c) => mem[p][c].trust <= row[c].left

(* What is on a machine's disk was granted to it, so its need was met.     *)
DiskNeedsMet ==
  \A w \in Workers : \A c \in disk[w] : row[c].state # "absent" /\ NeedMet(c)

-----------------------------------------------------------------------------
(* What must happen, under FairSpec.                                       *)

(* Lease expiry is the liveness mechanism: no lease is kept for ever on a  *)
(* progress line that never changes.  It ends (the worker fell silent, or  *)
(* held on too long), or the case makes progress.                          *)
StalledLeaseEnds ==
  \A c \in Cases, l \in LeaseIds :
    (row[c].lease = l /\ quiet[c] > 0) ~> (row[c].lease # l \/ quiet[c] = 0)

(* A case in the pool does not stay there: some node is handed it, or it   *)
(* is given up on.                                                         *)
PendingIsTaken ==
  \A c \in Cases : row[c].state = "pending" ~> row[c].state # "pending"

(* A new lease costs an attempt, and one is given back only for a time     *)
(* limit or a broken engine, which fail() counts and caps.                 *)
Charged ==
  \A c \in Cases :
    /\ row'[c].attempts < row[c].attempts
         => refunds'[c] > refunds[c] \/ engine'[c] > engine[c]
    /\ row'[c].lease \notin {row[c].lease, NoLease}
         => row'[c].attempts > row[c].attempts

(* "All three paths end with the work getting done": whichever way workers *)
(* die, a case is finished or given up on.  Two kinds of life never end in *)
(* the code and are excluded here: one always resumed or handed back by    *)
(* its own worker, which costs nothing, and one that always makes progress.*)
EverySettles ==
  (<>[][Charged]_vars /\ <>[](\A c \in Cases : quiet[c] > 0))
    => \A c \in Cases : row[c].state \in {"pending", "leased"}
                         ~> row[c].state \in {"done", "quarantined"}
=============================================================================
