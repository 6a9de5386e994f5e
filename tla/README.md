# Verification of casebroker

casebroker hands CFD cases to a fleet of nodes that may die at any moment, keeps
what they ship, and lets operators and browsers look at it. This directory holds
TLA+ modules of its core, the TLC configurations that check them, and theorems
checked by TLAPS. Line numbers below are of `src/casebroker/db.py` unless a file
is named.

## The system

One process (FastAPI, `app.py`) over one database (`db.py`: SQLite, or Postgres
behind a small compatibility layer), and a directory of uploaded files
(`partstore.py`). Nodes, operators and browsers talk to it over HTTP; nothing in
the broker calls a node. A node polls `/v1/lease`, heartbeats while it works, ships
parts as it finishes them, and ends with complete, fail or release.

| Component | State it keeps | Operations | What is hard, and what must hold |
|---|---|---|---|
| Case queue (1819-3248) | `cases`, and of `events` what the queue reads back: failed, handed-off, progress, undrain; `workers.drain` | add_cases, lease, heartbeat, complete, fail, release, set_worker_drain, status | Zombies beside restarts under one worker id; lost answers and retries; expiry against a late call; an age cap; three ways to get an attempt back; placement rules that only some queries apply. One holder per lease, a confirmed result stands, attempts stay in budget, a case that can be worked on is. |
| Operator edges (4877-4933, 5679-5739, 6124-6575) | the same rows | cancel, park, land audit, reopen, respec, purge | Each moves rows under a running fleet, some in bulk from a scan made before the transaction. No live solve is taken except by cancel; nothing a user relies on is lost. |
| Postgres execution (1447-1815) | connections and transactions | session, BEGIN IMMEDIATE and FOR UPDATE translation, `_locked` retry, reconnect | Not every call opens a transaction, so checks and writes of two calls interleave. Every call must behave as if whole. |
| Parts and custody (3298-3380, 3944-4410) | `case_parts`, `case_blobs`, receipts | report_part, record_receipt, record_blob, drop_blob, reset_parts, heal, custody | Reports, uploads and receipts arrive in any order and from stale holders. Nothing is deleted at a node before somebody else holds the same content. |
| Part store (`partstore.py`, `app.py` 2555-2790) | incoming and object files | append, complete, verify in background, remove, sweep | Resumed uploads, restarts, a sweep beside an upload. What is referred to is there. |
| Node releases (2340-2747, 2750-2842) | releases, target, canary, previous target, blocked, per-node targets | register, set target, promote, roll back, block, delete, node_release, lease_refusal | Sequences of operator calls beside removals of files. What is aimed at is published, its file is kept, and nodes get there. |
| Accounts and sessions (5743-6000, `app.py` 1365-1560, `auth.py`) | users, sessions | set-up, login, password, roles, removal | A password is hashed or verified for a tenth of a second between the row read and the row written, and counts are read without a lock. An admin remains; no session outlives its password. |
| Login throttle and share links (`app.py` 1470-1640, 6000-6120) | failures per name and address, in memory; share links | login, redeem, make, end | One capped map serves several doors, and the check is slow. Few passwords are checked; those who know theirs get in. |
| Machine pairing and tokens (6591-6715) | pairings, worker tokens | request, approve, deny, claim, issue, revoke | Requests that supersede each other, expire, and are answered from several pages at once. A live credential stands; a denied one stays out. |
| Field catalogue (3492-3655) | wind fields and summaries | put_field, backfill, queries | Upserts from a holder that may be stale. |
| Telemetry, events, stages, residual curves (4533-4877, `stages.py`) | events, telemetry, residuals | post_telemetry, post_residuals, progress parsing | A solver restarts into the same log; the curve shown is of its current run. The rest is display; what the queue reads of it is part of the queue. |
| Push (6719-6930, `push.py`) | one state row with a cursor, subscriptions | watch, claim, announce, send | Overlapping broker processes, ids given before their rows commit, failed sends. One announcement per event, none skipped; a subscription is dropped for cause. |
| Footprint cache (4937-4960, `footprints.py`, `app.py` 3500-3640) | bounded cache, locks, slots | get, fetch, put, drop oldest | Remote layers fail one by one, cases move meanwhile, views overlap. A passing failure is not kept as a fact. |
| Datasets, export, reproduction, archives, places (`dataset.py`, `export.py`, `repro.py`, `archives.py`, `places.py`, `umag.py`, `ids.py`) | none | pure functions of stored rows | Candidates for operators checked against a reference, where they have rules (splits, id hashing). |
| Routes, CLI, dashboard, schema migration | none of their own | | A route's guard is modelled with the call it guards. |

Components interact through the database only: the queue reads the mesh custody
(a case with a mesh on record goes only to nodes that can fetch it), the progress
events of heartbeats, and the drain flag that operators, and bursts of failures,
set; part reports and receipts check the lease; the sweep reads the blobs table.

`PROJECT.json` lists every component with its status, and every hazard at the line
where it bites with the property that would catch it, or the reason there is none yet.

## What is modelled

| Module | What it is |
|---|---|
| `CaseLife` | Abstract: the life of one case as its users are promised it (the state machine that opens `db.py`). |
| `CaseQueue` | The queue: one action per call of a node, per operator switch, and the clock. |
| `MCCaseQueue` | Values of the constants for TLC. |
| `CaseQueueProofs` | Types, with a lemma for each operation; the inductive invariant and what follows from it (ownership, results, refinement of `CaseLife`, trusted leases); what a worker may be handed (drain, failed elsewhere, needs first). |
| `CampaignLife` | Abstract: the life of a case in a campaign that operators run. `CaseLife` with a pardon and a deletion. |
| `PgQueue` | The calls as Postgres runs them: the nodes' and the operator's, each as the steps between which others come. |
| `MCPgQueue` | Values of the constants for TLC: one site under two recipes. |
| `PgQueueProofs` | Types, the inductive invariant, and what the interleavings can and cannot do. |
| `PgSessions`, `PgSessionsProofs` | Sessions of the pool: reconnects, deferred repairs, the retry of an aborted call. |
| `CaseParts` | What the database knows of a case's content: parts, blobs, receipts, fields, curves. |
| `PartStore` | The files: resumable uploads, verification, the sweep. |
| `PartCustody`, `MCPartCustody`, `PartCustodyProofs` | Both under the routes that use both, with the nodes that produce, upload and prune. |
| `NodeReleases`, `NodeReleasesProofs` | Builds, targets, canaries, files, and the nodes that follow. |
| `Accounts`, `Pairing`, `IdentityProofs` | Accounts and sessions; machines and their credentials. |
| `SignIn` | The login throttle and share links. |
| `PushWatcher`, `PushDelivery`, `PushProofs` | What a tick announces, and to whom it is delivered. |
| `GeoCache` | A picture of a case from a cache and remote layers. |
| `Curves` | The residual curve of each direction. |
| `ServicesProofs` | What is proved of `SignIn`, `GeoCache` and `Curves`. |
| `MCServices` | The services beside the queue, which share no table, composed on small instances. |

### CaseQueue, and how it corresponds to the code

`row[c]` is the row of the `cases` table: `state`, `lease` (lease_id), `worker`
(lease_worker), `attempts`, `need` (needs_case), `result` (result_uri).
Timestamps are counters: `left` is lease_expires - now (negative when expired),
`age` is now - leased_at, and `spoke` says whether this lease recorded a progress
event, which `heartbeat` asks when it decides whether to record the same line again.
The tables the queue reads back from the event log are variables of their own:
`quiet[c]`, time since the newest progress event; `cool` and `handed`, what is left of
a failure's and a hand-off's cooldown per worker; `burst`, failures of a worker
within the burst window since it was last undrained; `refunds` and `engine`, the
numbers of attempts given back. `mesh[c]` is the mesh part of the custody tables:
none, reported, or held by the broker. The nodes' side is `mem[p][c]`, the lease node p
believes it holds and for how much of the lease period it may still trust it; `disk[w]`,
the checkpoints on the machine of w, which is what it asks to resume;
and `told[c]`, the results that a node naming c was told are recorded.

A *process* is a running node; several may run under one worker id (a zombie beside
its restart), and the broker sees only the worker id.

| Action | Code |
|---|---|
| `Lease` | `POST /v1/lease`, `lease` 1971-2220: resume query, fresh query with its filters and order, `claim` with attempts and quarantine of spent cases |
| `Heartbeat`, `Refused` | `heartbeat` 2887-2961: age cap, extension, progress event; 409 when `_by_lease` finds nothing |
| `Complete` | `complete` 2965-3031, with the confirmation of a repeated report |
| `TimedOut`, `Fail` | `fail` 3114-3157: time-limit refund, engine refund, retry or quarantine, `_drain_on_burst` |
| `Release` | `release` 3209-3248, hand-offs included |
| `ReportMesh`, `MeshStored`, `MeshDropped`, `PartsReset` | the mesh part of `report_part`, `record_blob`, `drop_blob`, `reset_parts` |
| `Status` | `_release_stale_leases` 1885-1912, which every `GET /v1/status` runs |
| `SetDrain`, `Undrain` | `set_worker_drain` 2718-2726 |
| `Post` | `add_cases` 1819-1862 |
| `Crash`, `Tick` | external: a node killed without a word, and the clock |

Lost answers are modelled where the node learns something (`Lease`, `Heartbeat`,
`Complete`, and the calls that let go): the row changes and the node may or may not
hear of it. A lost request is a call not made.

### Abstractions

- A whole call is one step. That is what SQLite gives (one lock, BEGIN IMMEDIATE);
  `PgQueue` models what Postgres gives.
- Workers are registered from the start, each on a fixed host. A lease id that no
  row and no node remembers is as good as a new uuid, which bounds the set of ids.
- Which cases a node may be given by recipe and split (`RecipesOf`) and by
  its memory (`FitsOn`) are constants of the node.
- The list a node asks to resume is any part of what is on its disk; a disk is never cleared.
- complete() names its case, as all nodes since protocol 2 do; the weaker check for
  older nodes is left out. Credentials (`_lease_holder_test`, scopes) and the
  refusal of outdated builds (426) are left out of the queue.
- `max_attempts` and `lease_seconds` are the same for every case and call.
- Of custody only the mesh matters to the queue, and of telemetry nothing.
- Counters stop at the largest value any condition distinguishes (`LongAgo`,
  `MaxLeaseAge + 1`, `-StaleAfter`), so nothing is cut off by them.

### PgQueue, and how it corresponds to the code

`PgConnection` runs in autocommit: without a BEGIN every statement is its own transaction,
and a row lock ends with it. With one, a call is atomic for the rows it locks before it
decides, and for updates whose WHERE clause repeats what it decided on (READ COMMITTED
evaluates it on the row as it is when the lock is had). So a call is one step where the
code does that, and two where it does not:

| Call | Steps | Why |
|---|---|---|
| lease, complete, fail, release | one | BEGIN, then FOR UPDATE on the row, then the update |
| add_cases | one | one INSERT that does nothing if the row is there |
| heartbeat | `BeginHeartbeat`, then `Extend` or `Abandon` | no BEGIN; the extension names the lease, the abandoning update the case |
| status | `BeginStatus`, then a `Clear` for each row | no BEGIN; updates name the case |
| cancel | `BeginCancel`, `Cancel` | BEGIN, but the SELECT locks nothing and the update names the case |
| park, land audit, reopen, respec | a scan, then one write | the scan precedes BEGIN; each update repeats the state it wants |
| purge | one | what it deletes is matched by the DELETE itself |

`call[t]` is what a session t read and has not written: the operation, the cases
found, and the lease each had. `row` and `mem` are as in `CaseQueue` without
placement; `late` is how far past its lease period a lease is, `wedged` that it is
beyond the age cap without progress; `moved` is the respec link in a case's events.
A scan may find any part of what qualifies, since callers filter and limit it.
One call of respec goes to one recipe, so its cases never name each other (`BeginRespec`).

The pending half of reopen's scan asks for an error on record (6285), which is not modelled: any
pending case may be found.

Left out: placement; several processes under one worker id (`CaseQueue` has them); the count
that purge compares with `expect`, and the separate snapshots of its DELETE
statements; labels, footprints and needs. Connections, their loss, and the retry after a
deadlock are `PgSessions`.

### PgSessions

A call is a transaction of two writes, or two statements in autocommit. `link` is the
connection of a session, `inTx` and `repair` the flags `_in_tx` and `_needs_reconnect`,
`pending` what the server's open transaction holds, and `written` how often each write
was committed, so that the model can be asked about the effect of a call. Any
connection may die at any time, connecting may fail, a statement may be refused, and the
answer to a COMMIT may be lost. A deadlock is an OperationalError to the driver, so it
marks the connection as dead, too, as it does in the code (`Refuses`). Left out: nested locked
calls, which are part of the outer transaction, the order of idle sessions, a pool of
one, and any claim about a repeated autocommit call, whose first statement stands.

### CaseParts, PartStore and PartCustody

`CaseParts` has one operation for each call of `db.py` on parts, blobs, receipts, fields and
curves (3298-3655, 3944-4410); `PartStore` one for each of `partstore.py`. `PartCustody` is the
routes: an upload is seen in the store and recorded later (`landing`), a deletion is a
row and later a file (`removal`), the sweep asks the database and unlinks file by
file (`sweep`), a node is told what it may prune and deletes later (`prune`). A chunk goes
to the content that the broker expects of the part at that moment, which need not be
the one being sent; the hash finds that out. `Restart` forgets requests and
verifications and keeps files.

A node takes a case afresh (`Take`, filter 2048-2053, then 2150-2156) or takes back one it names
(`TakeBack`, 2105-2120), which is asked nothing of the mesh and forgets no curve. A node that says
nothing of continuing is one from before parts. Each node has a scratch per case (`using[n][c]`), which
may survive a lost lease and so hold another mesh than the one on record by the time it is taken back:
then a new report replaces the mesh and drops the parts, and one for the old mesh is refused. `told` remembers
the directions told of since the work on a case last began afresh.

A receipt is the broker's own (`from` is "store": `_issue_receipt` found everything held) or an
operator's word ("hand": `RecordReceipt`, 3944-3975, at either location, "broker" too). A hand receipt is
compared with the completion's hash and with nothing the broker holds, and a completion
that named no hash (`NoSha`) takes any. `custody` counts both, and so `CustodyIsTrue` says what that
is worth: the file is in the store, or an operator vouched for a copy. `ReceiptMeansHeld` is of the
broker's own. What a node may delete is answered by `case_custody` (`CompleteAtBroker`), which
asks for no receipt at all; `late[n]` remembers what an operator let go of between that answer and the
deletion, as only so much can `PruneOnlyWhenWhole` not promise.

Left out: calls are atomic as on SQLite (on Postgres record_blob, 4052, reads what is expected
before its transaction); contents all have `Size` chunks; a refusal for want of
space is an `Ask` not taken; and purge, which leaves parts,
blobs, receipts and fields behind. A build's file is no case's part (`CustodyAssumption`):
drop_blob (4219) counts rows of cases alone. `outraced` collects the files a remover unlinked after a
new row came to need them: the store and the database have no common transaction, and
the properties except those files and no others.

### NodeReleases

The catalog, the target and the one before it, canaries (`override`), blocked builds, and the
files. Setting a target is a check and a write (`CheckAim`, `Aim`), removing files a
question and an unlink (`Removing`, `Unlink`), and deleting a build is three steps: is it in use
(`CheckDelete`, `app.py` 2233), its rows (`DeleteRelease`, 2237), its files (`DeleteFiles`). Nodes ask and
switch; their side is external to `src/`. Left out: display, apply modes, nodes that declare no build,
gaps in recipes, and that promote is two transactions on Postgres. The code does not keep a deletion and an
aim apart: a build may be checked before its deletion and aimed at after, or aimed at between the check
of its deletion and the deletion, and the previous target may be deleted. Exactly such builds are
`orphaned`, and `AimsArePublished` excepts them.

### Accounts, SignIn and Pairing

`Accounts` has a request for each route in the steps that its hashing leaves open. set_password is two
statements in autocommit (5824, 5828): `ChangeWrites`, then `SessionsEnd`, or `ChangeStops` when the process
or its connection is lost between them, after which the account is `cut`: its old sessions
go on until a change of password ends them. Roles are admin or other; wrong passwords change only the
throttle.

What `SomeoneManages` and `PasswordEndsSessions` except are the races the code has: two removals that both counted
before either wrote, a login verified while the password changed, a change cut short. Their
properties say that nothing else goes wrong, not that these do not happen.
 `SignIn` is that throttle: a request charges its
keys under the lock, lets go, checks, and is forgiven if right; a key dropped by the cap of the
map starts its history over. The sliding window of 300 s is a tick of the clock; the
cookie and the times of use are left out. In `Pairing` what a transaction reads and
what it writes are two steps; rows are not forgotten after a day, and a user code is given once.

### PushWatcher and PushDelivery

A tick reads the state, a page of events and a snapshot of conditions, each on its own,
then claims by compare-and-set and announces. An event's id is given before its row
commits, and its stamp need not follow the order of ids. Conditions that read between two levels neither
fire nor clear. `PushDelivery` reads the subscriptions once and sends to each; which kinds a browser is sent
is a choice. A request to drop a subscription reads whose row it is and deletes later by the
endpoint alone (`FindsOwn`, `Unsubscribes`; `app.py` 3820-3836); one that replaces an endpoint
saves the new one first (`SavesFirst`, 3799-3805). The page switches off on the broker first, then in the
browser, and nothing in either waits for the other (`Leaves` has no guard but that the browser is there).
Assumed: note_push_delivery is whole. Left out: settings, texts, keys.

### GeoCache and Curves

`GeoCache` is one request for a picture: row, cache, lock, cache again, preview slot, remote
layers, and what of the answer is kept. Layers are external and may each be unavailable;
what they draw is left out but for its source and whether it failed. A failed buildings layer still
names GBA as its source, which a look in the cache would take for an answer (3546): that it is
not kept in the first place (`Transient`) is all that keeps it out. Which of the oldest rows a full cache drops is
a choice; a cache of size zero and payloads of older builds are left out. `Curves` has the
log of each direction's solver, which may restart, the series and the single points
posted of it in order, and the row; shapes, sizes and the lease check are left out.

## What is checked

Definitions marked *Wrong* are plausible bugs; each property below is
known to be violated by one of them, so that none is true of every queue.

| Run | Question | Instance |
|---|---|---|
| `queue_zombie` | Does the lease id keep one holder, a confirmed result and a trusted lease, whatever late, repeated and lost calls do? `OneHolder`, `ConfirmedResultStands`, `TrustedLeaseStands`, `DoneIsFinal` | one case, three processes of which two share a worker id, four lease ids, two results |
| `queue_fleet` | Do needs come first on every path, and does a draining worker get nothing new? `NeedsFirst`, `DrainedTakesNothingNew` | two cases, one needing the other, two workers on one host, two cases per call, a burst of two |
| `queue_refunds` | Do attempts stay charged and bounded, do failures go to another host, does every case live as `CaseLife` says? `TypeOK`, `LeasedIsCharged`, `FailedElsewhere`, `EveryCaseLives` | one case, every kind of failure, hand-off, mesh and drain, one older node and one small node that continues others' work |
| `queue_live` | Does a stalled lease end, is a pending case taken, does every case settle? `StalledLeaseEnds`, `PendingIsTaken`, `EverySettles` | one case, two polling nodes, two hosts, `FairSpec` |
| `queue_stranded` | Is a pending case always taken on a current fleet? It is not; see below | one case, one node that ships its mesh and one polling node that continues from the broker |
| `pg_calls` | What do interleaved calls on Postgres leave of the life of a case? `StrayOnlyOutraced`, `WorkIsLeftAlone`, `SiteMovesWhole` | one site under two recipes, each of which moves to the other, one node, one session of two-step calls, a budget of one, all operations |
| `pg_heartbeat`, `pg_cancel` | Do heartbeat and cancel act on the lease they read? They do not; see below: `HeartbeatHasItsLease`, `CancelTakesLeased` | one case, two nodes or one, one session |
| `custody` | Is what the broker says it holds there, and does a node delete only what is held? `HeldUnlessOutraced`, `ReceiptMeansHeld`, `CustodyIsTrue`, `CurvesFollowParts`, `PruneOnlyWhenWhole` | two cases whose archives are one content, one of them done before; two nodes, two meshes, one direction, one release file, two chunks, one fault |
| `custody_mesh` | Can a case hold answers of two meshes? It can; see below: `OneMesh` | one case, two nodes, two meshes |
| `services` | Does each service keep its promises? the 19 properties of the table below | one service at a time, each with two or three of everything |
| `push_skip` | Is every event read by the watcher? Not every; see below: `NothingSkipped` | one process, two events |

The bounds are small because of what the properties need to be violated: OneHolder
needs two leases of one case and two processes of a worker beside a third; a
refund is wrong on its first use or at its cap (caps of one); order, `LIMIT` and needs
need two cases; a retry budget of two separates a first attempt, a last one and a
spent one. In `PgQueue` one session with a pending write is enough to be outraced,
because the calls of nodes, purge and the clock come between as single steps; two
recipes are what respec needs. Windows are one or two ticks, which is enough to be inside, at the edge
and past each. The safety properties of the queue are moreover proved for every value.

`custody` explores under a constraint, `Few`: telemetry and uploads not at once, one content at a
time in the air, three copies on disks, one node pruning, uploads of one kind of part at a
time; no direction beside two meshes on the disks once anything is sent; one receipt by hand, of the case that is worked on, and none while an upload or a sweep is under way; scratch
of a lost lease apart from uploads and receipts by hand; and uploads only while every done case has named
its hash. What the properties need is kept: two meshes, a reset and a scratch that is taken back so that
parts are replaced, completions without a hash and receipts by hand beside those the
broker owes, two cases that share a content so that a deletion must ask, a file the releases name so that
the sweep must, and one fault so that it falls between any two steps (288,097 states).

`services` composes modules that share no variable, so interleaving them would only multiply
their states: a behaviour is one of one service, chosen at the start (534,021 states). Each may
violate its properties with two of a kind:

| Service | Properties | What the instance has |
|---|---|---|
| releases | `AimsArePublished`, `NeededFilesStay`, `NodesArrive` | two builds of which one may be bad and be deleted (blocked while nobody aims or deletes, deleted while no sweep runs), two files, one node, one old build kept |
| accounts | `SomeoneManages`, `PasswordEndsSessions` | two accounts of which one logs in again and changes its password, two requests and two sessions at once |
| pairing | `LiveTokenStands`, `DeniedStaysOut`, `OnePendingPerName` | two names, two secrets, two codes, two operators |
| watcher, watchers | `AnnouncedAtMostOnce`, `FiresOnce`, `NothingSeenSkipped` | one process with two events and a condition with a level between; two processes with one event and one condition; that event does not grow old, and one of the two ticks while it is young |
| delivery | `DroppedForCause` | two browsers, two owners, one subscription each, two failures to a drop, one request to drop one of them; an owner and a browser stay |
| sessions | `AnsweredOnce`, `ComesBackClean` | two sessions, two transactions and one call in autocommit, one retry, two mishaps |
| footprints | `NothingFrozen`, `NotAskedTwice` | two cases of which one moves, two viewers, three views, one slot, a cache of one |
| curves | `CurveIsCurrentRun` | a log of three points, two samples kept, a second direction that finds the table full |
| doors | `ChecksAreFew`, `FriendsGetIn` | two names at one address, two requests, two links of which one fits, two windows |

### Fairness

`FairSpec` assumes that time passes; that each `Polling` node that believes it holds
nothing keeps calling lease, as nodes do; and that a polling node whose lease
is gone hears so, which its next heartbeat brings. It assumes nothing
of other nodes, of a node with a live lease (it may be silent for ever, or heartbeat
the same line for ever), of answers arriving, or of anybody opening
the dashboard, so leases end by `lease()` alone.

`Fairness` of `NodeReleases` assumes of each node only that it goes on asking what to run and
switches when it can (weak fairness of `Ask(w) \/ Switch(w)`), as the loop of a node does; operators and
uploads may stop at any time. `NodesArrive` then says that a node whose wanted build stays
the same, with its file there, gets there.

`EverySettles` excludes two lives the code permits without end: a case its own
worker resumes or hands back again and again, each at no charge, and one whose progress
line keeps changing. Both are stated in the formula (`Charged`, `quiet`).

### Disagreements with the documents

**A mesh that never arrived.** docs/protocol.md:81, of a worker that is preempted or dies: "All three paths end
with the work getting done". `queue_stranded` shows a path that does not: a node
reports its mesh, and stops before the bytes reach the broker. The case is pending with a mesh on
record that the broker does not hold, and the filter at 2053 hands such a case to no
node that says it can continue from the broker, or cannot. Only the machine that holds
the scratch can resume it, and if it does not return, the case waits until an operator
calls reset_parts, as docs/fleet.md:202-213 and docs/protocol.md:355-357 say themselves.
(`queue_live` has the same fleet without mesh reports, and there every pending case is taken.)

**A heartbeat outraced.** 28 says the row lock of `_by_lease` keeps a heartbeat from
being "quietly outraced by a reclaim", and 2850 that it lasts "for the whole duration of
a heartbeat/complete/fail/release call". complete, fail and release open a transaction;
heartbeat does not, and on Postgres its lock is gone after the SELECT. In
`pg_heartbeat` a heartbeat reads a lease beyond the age cap, another node reclaims the
case, and the abandoning UPDATE, which names only the case, frees the new lease. The
extension names the lease and harms nothing, but the node is told it still holds the case.

**A cancel outraced.** 4889 promises "ValueError for one that is not leased". In
`pg_cancel` the case is completed between cancel's SELECT and its UPDATE, and the done
case goes back to the pool. On SQLite BEGIN IMMEDIATE excludes both.

**Two meshes in one case.** docs/fleet.md says "One case is never answered on two meshes", and
3260-3264 and tests/test_case_parts.py repeat it. report_part drops a case's parts when the
mesh changes, but only if one was on record (3344). In `custody_mesh` a node's report of its mesh is
lost or never made, its direction is recorded without one, it meshes anew, and the direction of the old mesh
keeps its place beside the mesh it now reports, the first on record.

**An event never read.** 6777-6780 says that reading past a row not committed yet "would skip it for
good", and tests/test_push.py:354 that it is not skipped. The reader stops below the first row it sees
that was stamped in the last seconds, and answers that row's id less one as the cursor (6796-6797), whether or
not it has seen the row of that id: in `push_skip` event 1 is still open when event 2 is seen and is young, the
cursor moves to 1, and event 1 commits behind it. `NothingSeenSkipped` says that only rows not
committed when the tick read are passed so.

## What is proved

TLAPS proves these for every set of cases, nodes, workers, hosts, lease ids and results and every
value of the limits, from `ConstantsAssumption` of `CaseQueue` (finitely many
cases, WorkerOf and HostOf total, limits natural numbers).

| Theorem | States |
|---|---|
| `TypeCorrect` | `Spec => []TypeOK`, the type invariant of `queue_refunds` |
| `HolderIsUnique`, `LeasesAreCharged`, `ConfirmationsHold`, `ResultsAreFinal` | `OneHolder`, `LeasedIsCharged`, `ConfirmedResultStands`, `DoneIsFinal` |
| `QueueImplementsLife` | `CaseQueue` implements `CaseLife` for every case |
| `TrustedLeasesStand` | `TrustedLeaseStands` |
| `DrainHolds`, `FailuresGoElsewhere`, `NeedsComeFirst` | `DrainedTakesNothingNew`, `FailedElsewhere`, `NeedsFirst` |
| `PgTypeCorrect`, `PgRowsConsistent` | `PgQueue`: `Spec => []TypeOK`, `Spec => []PgInv` |
| `PgStraysOnlyOutraced` | `StrayOnlyOutraced`: `PgQueue` implements `CampaignLife` for every case, but for rows an outraced abandoning, clearing or cancel writes |
| `PgWorkIsLeftAlone`, `PgSiteMovesWhole` | `WorkIsLeftAlone`, `SiteMovesWhole` |
| `ReleasesTypes`, `ReleasesAims`, `ReleasesFiles` | types, `AimsArePublished`, `NeededFilesStay` |
| `CustodyTypes`, `CustodyHeld`, `ReceiptsMeanHeld` | types, `HeldUnlessOutraced`, `ReceiptMeansHeld` |
| `CustodyTrue`, `PrunesWholeCases`, `CurvesFollow` | `CustodyIsTrue`, `PruneOnlyWhenWhole`, `CurvesFollowParts` |
| `SetupOnce`, `AdminRemains`, `PasswordEnds` | `FirstAccountOnly`, `SomeoneManages`, `PasswordEndsSessions` |
| `LiveTokens`, `DeniedOut`, `OnePending` | `LiveTokenStands`, `DeniedStaysOut`, `OnePendingPerName` |
| `DeliveryTypesHold`, `DroppedOnlyForCause` | types, `DroppedForCause` |
| `OnceAnnounced`, `OnceFired`, `SeenNotSkipped` | `AnnouncedAtMostOnce`, `FiresOnce`, `NothingSeenSkipped` |
| `SessionsInvariant`, `AnsweredOnceHolds`, `ComesBackCleanHolds` | `SessionsSpec => []SessionsInv`, `AnsweredOnce`, `ComesBackClean` |
| `NothingFrozenHolds`, `NotAskedTwiceHolds` | `NothingFrozen`, `NotAskedTwice` |
| `ChecksAreFewHolds`, `FriendsGetInHolds` | `ChecksAreFew`, `FriendsGetIn` |
| `CurveIsCurrentRunHolds` | `CurveIsCurrentRun` |

The rows of `PgQueue` assume `PgConstants`, and each later row the named assumption of its
module: finite sets where something is counted, and limits that are natural numbers. Each
theorem covers any number of builds, accounts, requests, codes, events and processes;
of sessions, calls, retries and mishaps; of viewers, pictures and logins; and logs and curves
of any length.

**The inductive invariant.** `OneHolder` is not inductive: it says nothing of a lease id
that a node remembers after its row was freed, and such an id could reappear. So `QueueInv`
adds that an id is remembered by one node for one case under its worker
(`LeaseOnce`), and that a row has a lease and a worker exactly while it is
leased, and a result exactly when it is done (`RowsConsistent`). `ConfirmedResultStands`
is then inductive with it.

**The argument.** Every action changes a row in one of a few ways, named in
`CaseQueueProofs`: admitted, leased, let fall, given up, finished, or its clock moved. The lemmas
`CallSteps`, `TickSteps` and `PlainSteps` prove that once for each action; that the
rows stay consistent, that done is final and that the queue refines `CaseLife` follow
from those edges without looking at the actions again. What nodes learn is handled
likewise (`MemSteps`, `Learnt`). `TrustedLeaseStands` needs that a node's trust never
outlasts the broker's lease (`TrustIsBacked`), which Tick keeps by moving both;
`FailedElsewhere` that every lease is granted outside the cooldowns and every failure
frees its row; `NeedsFirst` that whatever is on a disk was once granted with its need
done, and that done is final (`DiskNeedsMet`).

In `PgQueue` the invariant `PgInv` says that a row has a lease exactly while it is leased,
that an absent one has no history, and that an unguarded write (abandon, status,
cancel) saw a lease. The last is what makes `StrayOnlyOutraced` provable: if the row still has
the lease that was seen, it is leased, and the write is a hand-back or a giving-up; if
not, the write is outraced by definition. `StepGood` proves for each action that the rows
stay consistent and that every case lives (`Good`). That only its own write
changes a session's call (`WhoWrites`) gives the other two.

**The services.** `NodeReleasesProofs`: a build aimed at is published or orphaned (`Aims`), and a
removal under way names no file that was needed when it asked (`Harmless`); a deletion under way was
checked when nothing aimed at its build (`Unaimed`), so that what aims at it when it goes came in between;
together with the types that is inductive (`IInv`). `AccountsInv`: while no two removals have overlapped,
at most one is under way, and it leaves an admin (`OneRemoval`); the same for set-ups, of which one under way
means that there is no account yet (`OneSetup`). `PasswordEndsSessions` is inductive beside these: the second
statement of a change ends what the first made old, and one that stops between leaves the
account `cut`. `PairingInv`: what a start is about to supersede is pending and
no other start's (`Locks`); of two requests for one name one is to supersede or to wait for the
other, or they crossed (`Traced`); a request that an answer has read is not resolved since unless it is
contested (`Answering`); a request whose secret is a token's has an approved or contested
one of the same secret (`Credit`). `DeliveryInv`: a row's failures are its failed sends in a row
(`Counted`), and rows in hand of a delivery or of a request to drop one are those of the table unless
renewed (`InHandTrue`, `LeavingTrue`). `WatcherInv`
says of each tick that, unless its state was moved behind it (`outrun`), its claim will go
through only with what it read. Compare-and-set makes that enough for any number of
processes: a claim that goes through is of a state no other claim moved, or is `doubled`.

**Custody.** `HeldUnlessOutraced` is not inductive: it says nothing of a file that a
remover has already decided on. `CustodyInv` adds that what the remover read when it asked
does not name that file (`Removers`); that holds of a deletion only because a row's hash is
one of its case's own and so no build's (`Owned`). `Owned` also says that only a done case has a receipt, and that the
hash of one by hand is the completion's, if that named one. `Receipts` says of a receipt of the broker's own
that everything of the case is held; it is inductive because a done case is never leased again, so no
report changes its parts, a reset takes the part together with its row, and a deletion takes the receipt
along. `CustodyIsTrue` needs both, with `HeldUnlessOutraced` for the files. `ToldTruly` is
of a node that was told what it may delete and has not yet: its case is done, and the archive, every part on
record and every copy it was told of are still recorded as held, or were let go of since. A done case's parts
change only by a reset, and its rows go only by a deletion, which is what `late` collects; so
`PruneOnlyWhenWhole` follows from it with `HeldUnlessOutraced`. A deletion on a looser answer (that of
`custody`, which a hand receipt satisfies) would break `ToldTruly` and not `HeldUnlessOutraced`.
`CurvesFollowParts` holds across a claim because a fresh one drops the curves that no direction on record
backs, and a resumed one starts no new work, so `told` stands. `DbSteps` reduces every
step to the calls of `CaseParts`, so that the parts about the database look at those alone.

**Sessions.** `AnsweredOnce` says nothing of a transaction on its way, `ComesBackClean` nothing of
a session in use. `SessionsInv` adds what they rest on: a transaction is open at the server
exactly when the client is in one and its connection lives (`SessionAt`); it then holds the
writes of its call that went before, no more, so that a connection that drops takes all of them
with it (`CallAt`); what is committed of a call is all or nothing, all once it has its answer,
and nothing until its COMMIT is under way (`WrittenAt`); and no call has two sessions
(`OneSessionEach`). So `_locked` runs a call again only when nothing of it was kept. A COMMIT whose
answer was lost stays open: all or nothing, and the caller is told so.

**Cache, doors, curves.** `GeoInv`: a view that holds the lock of its case is the only one, and
nobody but it stores a row of that case, so what it found missing is missing when it asks, after
any wait for the preview slot (`OneHoldsLock`, `MissingStays`). `SignInInv` relates what the throttle remembers of a
key in this window to what was tried under it (`Covered`): for a login never less, because the charge comes
first, under the lock; for a link never more, because only a made-up token is charged. A key that is
dropped for want of room, or paid off by a right password, starts anew in both. `CurvesInv` says of each row
that it is a curve of the current run of what was sent (`IsCurveOf`). The lemmas under it say
where that run starts: `CutAtStart`, that the last descent of a log is the least point from which it never
goes back, which `normalize_residuals` relies on; `ReportedByAppend`, what one more
report makes of the run; `LaterReport`, that adding a point and dropping the oldest
keeps the latest `MaxSamples` of it.

TLC checked each of these invariants before it was proved.

**Only model-checked:** liveness (`StalledLeaseEnds`, `PendingIsTaken`, `EverySettles`,
`NodesArrive`), which needs fairness and ENABLED, out of reach of the prover. Every
safety property of a passing run is proved. The properties of the five runs that expect
a violation are false of the code, and no theorem states them.

## What would come next

1. Needs across respec and purge, and cases that wait for ever: a model with `needs_case`, which
   respec drops, and with purge as the statements it is on Postgres.
2. Calls of `CaseParts` split as Postgres runs them.
3. A pool of one: nothing tidies its connection, so a repair deferred out of a
   transaction (1538) is never made.

## Not modelled, and why

Formatting, routing, HTML and JavaScript, the command line, settings and their validation:
presentation, with no order that could go wrong. Schema migration: idempotent DDL at start, before any
request. Datasets, export, reproduction bundles, splits, archives and id hashing: pure functions from stored
rows to files, whose rules are text and numbers rather than states. Numeric summaries and
values of wind fields, likewise. Downloads of geodata and the services behind them, push services,
browsers, Slurm: outside the repository, present as what the code can meet of them.
