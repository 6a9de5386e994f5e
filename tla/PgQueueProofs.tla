--------------------------- MODULE PgQueueProofs ---------------------------
(***************************************************************************)
(* Proofs about PgQueue, for any number of cases, nodes and threads: its   *)
(* types, and that calls which read and write apart stray from the life of *)
(* a case only where an unguarded write was outraced.                      *)
(***************************************************************************)
EXTENDS PgQueue, TLAPS

-----------------------------------------------------------------------------
(* Rows that are consistent (RowsConsistent, of one row).                  *)

ConsistentRow ==
  {r \in Row : /\ r.state = "leased" <=> r.lease # NoLease
               /\ r.state = "absent" => r.attempts = 0 /\ r.result = NoResult}

Rows == [Cases -> ConsistentRow]

PostedRow == [NoRow EXCEPT !.state = "pending"]

LEMMA NewRow ==
  /\ NoRow \in ConsistentRow /\ PostedRow \in ConsistentRow
  /\ NoRow.state = "absent" /\ NoRow.lease = NoLease
  /\ NoRow.attempts = 0 /\ NoRow.result = NoResult
  /\ PostedRow.state = "pending" /\ PostedRow.lease = NoLease
  /\ PostedRow.attempts = 0 /\ PostedRow.result = NoResult
  <1>1. NoRow \in Row
    BY PgConstants DEF PgConstants, NoRow, Row, States
  <1>2. /\ NoRow.state = "absent" /\ NoRow.lease = NoLease
        /\ NoRow.attempts = 0 /\ NoRow.result = NoResult
    BY DEF NoRow
  <1>3. NoRow \in ConsistentRow
    BY <1>1, <1>2 DEF ConsistentRow
  <1>4. /\ PostedRow.state = "pending" /\ PostedRow.lease = NoLease
        /\ PostedRow.attempts = 0 /\ PostedRow.result = NoResult
    BY DEF PostedRow, NoRow
  <1>5. PostedRow \in Row
    BY <1>1 DEF PostedRow, Row, States
  <1>6. PostedRow \in ConsistentRow
    BY <1>4, <1>5 DEF ConsistentRow
  <1> QED BY <1>2, <1>3, <1>4, <1>6

LEMMA FreedRow ==
  ASSUME NEW r \in ConsistentRow, NEW s \in {"pending", "done", "quarantined"}
  PROVE  /\ Freed(r, s) \in ConsistentRow
         /\ Freed(r, s).state = s /\ Freed(r, s).lease = NoLease
         /\ Freed(r, s).attempts = r.attempts /\ Freed(r, s).result = r.result
  BY PgConstants DEF PgConstants, Freed, ConsistentRow, Row, States

LEMMA RefundedRow ==
  ASSUME NEW r \in ConsistentRow
  PROVE  /\ Refunded(r) \in ConsistentRow
         /\ Refunded(r).state = r.state /\ Refunded(r).lease = r.lease
         /\ Refunded(r).attempts \in {r.attempts, r.attempts - 1}
         /\ Refunded(r).attempts \in Nat /\ Refunded(r).result = r.result
  BY PgConstants DEF PgConstants, Refunded, ConsistentRow, Row

LEMMA RowParts ==
  ASSUME NEW r \in ConsistentRow
  PROVE  /\ r.state \in States /\ r.attempts \in 0..MaxAttempts /\ r.attempts \in Nat
         /\ r.lease \in LeaseIds \cup {NoLease} /\ r.result \in Results \cup {NoResult}
         /\ r.state = "leased" <=> r.lease # NoLease
         /\ r.state = "absent" => r.attempts = 0 /\ r.result = NoResult
  BY PgConstants DEF PgConstants, ConsistentRow, Row

(* Parking, and the audit, which also takes the lease.                     *)
LEMMA ParkedRow ==
  ASSUME NEW r \in ConsistentRow, r.state # "leased"
  PROVE  /\ [r EXCEPT !.state = "quarantined"] \in ConsistentRow
         /\ [r EXCEPT !.state = "quarantined"].state = "quarantined"
         /\ [r EXCEPT !.state = "quarantined"].lease = r.lease
         /\ [r EXCEPT !.state = "quarantined"].attempts = r.attempts
         /\ [r EXCEPT !.state = "quarantined"].result = r.result
  BY DEF ConsistentRow, Row, States

AuditedRow(r) == [r EXCEPT !.state = "quarantined", !.lease = NoLease]

LEMMA AuditedRows ==
  ASSUME NEW r \in ConsistentRow
  PROVE  /\ AuditedRow(r) \in ConsistentRow
         /\ AuditedRow(r).state = "quarantined" /\ AuditedRow(r).lease = NoLease
         /\ AuditedRow(r).attempts = r.attempts /\ AuditedRow(r).result = r.result
  BY PgConstants DEF PgConstants, AuditedRow, ConsistentRow, Row, States

ReopenedRow(r) == [Freed(r, "pending") EXCEPT !.attempts = 0]

LEMMA ReopenedRows ==
  ASSUME NEW r \in ConsistentRow
  PROVE  /\ ReopenedRow(r) \in ConsistentRow
         /\ ReopenedRow(r).state = "pending" /\ ReopenedRow(r).lease = NoLease
         /\ ReopenedRow(r).attempts = 0 /\ ReopenedRow(r).result = r.result
  <1> DEFINE f == Freed(r, "pending")
  <1>1. f \in Row /\ f.state = "pending" /\ f.lease = NoLease /\ f.result = r.result
    BY FreedRow DEF ConsistentRow
  <1> HIDE DEF f
  <1>2. [f EXCEPT !.attempts = 0] \in Row
    BY <1>1, PgConstants DEF PgConstants, Row
  <1>3. ReopenedRow(r) = [f EXCEPT !.attempts = 0]
    BY DEF ReopenedRow, f
  <1> QED BY <1>1, <1>2, <1>3 DEF ConsistentRow, Row

DoneRow(r, result) == [Freed(r, "done") EXCEPT !.result = result]

LEMMA DoneRows ==
  ASSUME NEW r \in ConsistentRow, NEW result \in Results
  PROVE  /\ DoneRow(r, result) \in ConsistentRow
         /\ DoneRow(r, result).state = "done" /\ DoneRow(r, result).lease = NoLease
         /\ DoneRow(r, result).attempts = r.attempts /\ DoneRow(r, result).result = result
  <1> DEFINE f == Freed(r, "done")
  <1>1. /\ f \in Row /\ f.state = "done" /\ f.lease = NoLease
        /\ f.attempts = r.attempts
    BY FreedRow DEF ConsistentRow
  <1> HIDE DEF f
  <1>2. [f EXCEPT !.result = result] \in Row
    BY <1>1 DEF Row
  <1>3. DoneRow(r, result) = [f EXCEPT !.result = result]
    BY DEF DoneRow, f
  <1> QED BY <1>1, <1>2, <1>3 DEF ConsistentRow, Row

ExtendedRow(r, late, keep) == [r EXCEPT !.late = late, !.wedged = @ /\ keep]

LEMMA ExtendedRows ==
  ASSUME NEW r \in ConsistentRow, NEW late \in 0..2, NEW keep \in BOOLEAN
  PROVE  /\ ExtendedRow(r, late, keep) \in ConsistentRow
         /\ ExtendedRow(r, late, keep).state = r.state
         /\ ExtendedRow(r, late, keep).lease = r.lease
         /\ ExtendedRow(r, late, keep).attempts = r.attempts
         /\ ExtendedRow(r, late, keep).result = r.result
  <1>1. r.wedged \in BOOLEAN BY DEF ConsistentRow, Row
  <1> DEFINE k == r.wedged /\ keep
  <1>2. k \in BOOLEAN BY <1>1, Zenon
  <1>3. ExtendedRow(r, late, keep) = [r EXCEPT !.late = late, !.wedged = k]
    BY Zenon DEF ExtendedRow
  <1> HIDE DEF k
  <1> QED BY <1>2, <1>3 DEF ConsistentRow, Row

-----------------------------------------------------------------------------
(* What a step may do to one row, and what that is in the life of its case.*)

Lived(c) == Life(c)!CampaignNext \/ UNCHANGED Life(c)!vars \/ Outraced(c)

Good == row' \in Rows /\ \A c \in Cases : Lived(c)

SameLife(c) ==
  /\ row'[c].state = row[c].state /\ row'[c].lease = row[c].lease
  /\ row'[c].attempts = row[c].attempts /\ row'[c].result = row[c].result

(* Freed, parked or audited: nothing is held, and at most one attempt      *)
(* is given back.                                                          *)
LetGoOf(c) ==
  /\ row'[c].state \in {"pending", "quarantined"} /\ row'[c].lease = NoLease
  /\ row'[c].attempts \in {row[c].attempts, row[c].attempts - 1}
  /\ row'[c].attempts \in Nat /\ row'[c].result = row[c].result

LEMMA SameIsLived == ASSUME NEW c \in Cases, SameLife(c) PROVE Lived(c)
  BY DEF SameLife, Lived, Life!vars

LEMMA LetGoIsLived ==
  ASSUME NEW c \in Cases, LetGoOf(c), row[c].state \in {"pending", "leased"},
         row[c].state = "pending" => row'[c].state = "quarantined"
  PROVE  Lived(c)
  BY DEF LetGoOf, Lived, Life!CampaignNext, Life!Next, Life!HandBack, Life!GiveUp,
     Life!Open, Life!Kept

LEMMA PostedIsLived ==
  ASSUME NEW c \in Cases, row[c] \in ConsistentRow, row[c].state = "absent",
         row'[c] = PostedRow
  PROVE  Lived(c)
  <1>1. /\ row[c].lease = NoLease /\ row[c].attempts = 0 /\ row[c].result = NoResult
    BY RowParts
  <1> QED BY <1>1, NewRow DEF Lived, Life!CampaignNext, Life!Next, Life!Admit

LEMMA ReopenedIsLived ==
  ASSUME NEW c \in Cases, row[c] \in ConsistentRow,
         row[c].state \in {"pending", "quarantined"}, row'[c] = ReopenedRow(row[c])
  PROVE  Lived(c)
  <1>1. row[c].lease = NoLease
    BY RowParts
  <1> QED BY <1>1, ReopenedRows DEF Lived, Life!CampaignNext, Life!Pardon

LEMMA DeletedIsLived ==
  ASSUME NEW c \in Cases, row[c].state # "absent", row'[c] = NoRow
  PROVE  Lived(c)
  BY NewRow DEF Lived, Life!CampaignNext, Life!Delete

(* A step that writes one row.                                             *)
LEMMA OneRow ==
  ASSUME row \in Rows, NEW c \in Cases, NEW r \in ConsistentRow,
         row' = [row EXCEPT ![c] = r], Lived(c)
  PROVE  Good
  <1>1. row' \in Rows
    BY DEF Rows
  <1>2. ASSUME NEW d \in Cases, d # c PROVE Lived(d)
    <2>1. row'[d] = row[d]
      BY <1>2 DEF Rows
    <2> QED BY <2>1, SameIsLived DEF SameLife
  <1> QED BY <1>1, <1>2 DEF Good

LEMMA WrittenRow ==
  ASSUME row \in Rows, NEW c \in Cases, NEW r, row' = [row EXCEPT ![c] = r]
  PROVE  row'[c] = r
  BY DEF Rows

LEMMA NoRows == ASSUME row \in Rows, row' = row PROVE Good
  BY SameIsLived DEF Good, SameLife

(* A step that writes any of them.                                         *)
LEMMA EveryRow ==
  ASSUME row \in Rows, row' = [c \in Cases |-> row'[c]],
         \A c \in Cases : row'[c] \in ConsistentRow, \A c \in Cases : Lived(c)
  PROVE  Good
  BY DEF Good, Rows

-----------------------------------------------------------------------------
(* Calls of one step.                                                      *)

LEMMA PostGood == ASSUME row \in Rows, NEW c \in Cases, Post(c) PROVE Good
  <1>1. row' = [row EXCEPT ![c] = PostedRow] /\ row[c] \in ConsistentRow
    BY DEF Post, PostedRow, Rows
  <1>2. Lived(c)
    BY <1>1, WrittenRow, PostedIsLived DEF Post
  <1> QED BY <1>1, <1>2, NewRow, OneRow

AgedRow(r)   == [r EXCEPT !.late = @ + 1]
WedgedRow(r) == [r EXCEPT !.wedged = TRUE]

LEMMA AgedRows ==
  ASSUME NEW r \in ConsistentRow, r.late < 2
  PROVE  /\ AgedRow(r) \in ConsistentRow
         /\ AgedRow(r).state = r.state /\ AgedRow(r).lease = r.lease
         /\ AgedRow(r).attempts = r.attempts /\ AgedRow(r).result = r.result
  BY DEF AgedRow, ConsistentRow, Row

LEMMA WedgedRows ==
  ASSUME NEW r \in ConsistentRow
  PROVE  /\ WedgedRow(r) \in ConsistentRow
         /\ WedgedRow(r).state = r.state /\ WedgedRow(r).lease = r.lease
         /\ WedgedRow(r).attempts = r.attempts /\ WedgedRow(r).result = r.result
  BY DEF WedgedRow, ConsistentRow, Row

LEMMA AgeGood == ASSUME row \in Rows, NEW c \in Cases, Age(c) PROVE Good
  <1>1. row[c] \in ConsistentRow
    BY DEF Rows
  <1>2. CASE row[c].late < 2 /\ row' = [row EXCEPT ![c].late = @ + 1]
    <2>1. row' = [row EXCEPT ![c] = AgedRow(row[c])]
      BY <1>2 DEF AgedRow
    <2>2. SameLife(c)
      BY <1>1, <1>2, <2>1, AgedRows, WrittenRow DEF SameLife
    <2> QED BY <1>1, <1>2, <2>1, <2>2, AgedRows, SameIsLived, OneRow
  <1>3. CASE row' = [row EXCEPT ![c].wedged = TRUE]
    <2>1. row' = [row EXCEPT ![c] = WedgedRow(row[c])]
      BY <1>3 DEF WedgedRow
    <2>2. SameLife(c)
      BY <1>1, <2>1, WedgedRows, WrittenRow DEF SameLife
    <2> QED BY <1>1, <2>1, <2>2, WedgedRows, SameIsLived, OneRow
  <1> QED BY <1>2, <1>3 DEF Age

LEMMA FreedOne ==
  ASSUME NEW r \in ConsistentRow, NEW s \in {"pending", "quarantined"}, NEW f,
         f = Freed(r, s) \/ f = Refunded(Freed(r, s)) \/ f = Freed(Refunded(r), s)
  PROVE  /\ f \in ConsistentRow /\ f.state = s /\ f.lease = NoLease
         /\ f.attempts \in {r.attempts, r.attempts - 1} /\ f.attempts \in Nat
         /\ f.result = r.result
  <1>1. s \in {"pending", "done", "quarantined"} /\ r.attempts \in Nat
    BY RowParts
  <1>2. CASE f = Freed(r, s)
    BY <1>1, <1>2, FreedRow
  <1>3. CASE f = Refunded(Freed(r, s))
    <2> DEFINE g == Freed(r, s)
    <2>1. /\ g \in ConsistentRow /\ g.state = s /\ g.lease = NoLease
          /\ g.attempts = r.attempts /\ g.result = r.result
      BY <1>1, FreedRow
    <2>2. f = Refunded(g)
      BY <1>3
    <2> HIDE DEF g
    <2>3. /\ f \in ConsistentRow /\ f.state = g.state /\ f.lease = g.lease
          /\ f.attempts \in {g.attempts, g.attempts - 1}
          /\ f.attempts \in Nat /\ f.result = g.result
      BY <2>1, <2>2, RefundedRow
    <2> QED BY <2>1, <2>3
  <1>4. CASE f = Freed(Refunded(r), s)
    <2> DEFINE g == Refunded(r)
    <2>1. /\ g \in ConsistentRow /\ g.attempts \in {r.attempts, r.attempts - 1}
          /\ g.attempts \in Nat /\ g.result = r.result
      BY RefundedRow
    <2>2. f = Freed(g, s)
      BY <1>4
    <2> HIDE DEF g
    <2>3. /\ f \in ConsistentRow /\ f.state = s /\ f.lease = NoLease
          /\ f.attempts = g.attempts /\ f.result = g.result
      BY <1>1, <2>1, <2>2, FreedRow
    <2> QED BY <2>1, <2>3
  <1> QED BY <1>2, <1>3, <1>4

(* A row that is leased, or out of budget, is freed.                       *)
LEMMA FreeingGood ==
  ASSUME row \in Rows, NEW c \in Cases, row[c].state \in {"pending", "leased"},
         NEW s \in {"pending", "quarantined"}, NEW f,
         row[c].state = "pending" => s = "quarantined",
         \/ f = Freed(row[c], s)
         \/ f = Refunded(Freed(row[c], s))
         \/ f = Freed(Refunded(row[c]), s),
         row' = [row EXCEPT ![c] = f]
  PROVE  Good
  <1>1. row[c] \in ConsistentRow
    BY DEF Rows
  <1>2. /\ f \in ConsistentRow /\ f.state = s /\ f.lease = NoLease
        /\ f.attempts \in {row[c].attempts, row[c].attempts - 1} /\ f.attempts \in Nat
        /\ f.result = row[c].result
    BY <1>1, FreedOne
  <1>3. row'[c] = f
    BY WrittenRow
  <1>4. LetGoOf(c)
    BY <1>2, <1>3 DEF LetGoOf
  <1>5. Lived(c)
    BY <1>2, <1>3, <1>4, LetGoIsLived
  <1> QED BY <1>2, <1>5, OneRow

LeasedRow(r, w, l, attempt) ==
  [state |-> "leased", lease |-> l, worker |-> w, late |-> 0,
   wedged |-> FALSE, attempts |-> attempt, result |-> r.result]

LEMMA LeasedRows ==
  ASSUME NEW r \in ConsistentRow, NEW w \in Workers, NEW l \in LeaseIds,
         NEW attempt \in 0..MaxAttempts
  PROVE  /\ LeasedRow(r, w, l, attempt) \in ConsistentRow
         /\ LeasedRow(r, w, l, attempt).state = "leased"
         /\ LeasedRow(r, w, l, attempt).lease = l
         /\ LeasedRow(r, w, l, attempt).attempts = attempt
         /\ LeasedRow(r, w, l, attempt).result = r.result
  BY PgConstants DEF PgConstants, LeasedRow, ConsistentRow, Row, States

LEMMA LeaseGood ==
  ASSUME row \in Rows, NEW w \in Workers, NEW c \in Cases, Lease(w, c)
  PROVE  Good
  <1>1. row[c] \in ConsistentRow
    BY DEF Rows
  <1>2. PICK resumed \in BOOLEAN :
          LET attempt == IF resumed /\ Own(w, c) THEN row[c].attempts
                                                 ELSE row[c].attempts + 1
          IN  /\ resumed \/ Claimable(c)
              /\ IF Spent(attempt)
                   THEN row' = [row EXCEPT ![c] = Freed(@, "quarantined")] /\ UNCHANGED mem
                   ELSE \E l \in UnusedLeases :
                          /\ row' = [row EXCEPT ![c] = LeasedRow(@, w, l, attempt)]
                          /\ mem' = [mem EXCEPT ![w][c] = l] \/ UNCHANGED mem
    BY Zenon DEF Lease, LeasedRow
  <1> DEFINE attempt == IF resumed /\ Own(w, c) THEN row[c].attempts ELSE row[c].attempts + 1
  <1>3. row[c].state \in {"pending", "leased"}
    BY DEF Lease, Claimable, Own
  <1>4. attempt \in {row[c].attempts, row[c].attempts + 1} /\ row[c].attempts \in 0..MaxAttempts
    BY <1>1, RowParts
  <1>5. attempt = row[c].attempts => row[c].state = "leased"
    BY <1>4 DEF Own
  <1> HIDE DEF attempt
  <1>6. CASE Spent(attempt)
    <2>1. row' = [row EXCEPT ![c] = Freed(row[c], "quarantined")]
      BY <1>2, <1>6 DEF attempt
    <2> QED BY <1>3, <2>1, FreeingGood
  <1>7. CASE ~Spent(attempt)
    <2>1. PICK l \in UnusedLeases : row' = [row EXCEPT ![c] = LeasedRow(row[c], w, l, attempt)]
      BY <1>2, <1>7 DEF attempt
    <2>2. attempt \in 0..MaxAttempts
      BY <1>4, <1>7, PgConstants DEF PgConstants, Spent
    <2>3. l \in LeaseIds \ {row[c].lease}
      BY DEF UnusedLeases
    <2>4. row'[c] = LeasedRow(row[c], w, l, attempt)
      BY <2>1, WrittenRow
    <2>5. /\ row'[c].state = "leased" /\ row'[c].lease = l
          /\ row'[c].attempts = attempt /\ row'[c].result = row[c].result
      BY <1>1, <2>2, <2>3, <2>4, LeasedRows
    <2>6. Lived(c)
      <3>1. CASE attempt = row[c].attempts + 1
        BY <1>3, <2>2, <2>3, <2>5, <3>1
           DEF Lived, Life!CampaignNext, Life!Next, Life!Grant, Life!Open
      <3>2. CASE attempt = row[c].attempts
        BY <1>5, <2>3, <2>5, <3>2 DEF Lived, Life!CampaignNext, Life!Next, Life!Resume
      <3> QED BY <1>4, <3>1, <3>2
    <2> QED BY <1>1, <2>1, <2>2, <2>3, <2>6, LeasedRows, OneRow
  <1> QED BY <1>6, <1>7

LEMMA HolderGood ==
  ASSUME row \in Rows, NEW w \in Workers, NEW c \in Cases,
         \/ \E r \in Results : Complete(w, c, r)
         \/ \E retryable, refund \in BOOLEAN : Fail(w, c, retryable, refund)
         \/ Release(w, c)
  PROVE  Good
  <1>1. row[c] \in ConsistentRow
    BY DEF Rows
  <1>2. ASSUME NEW r \in Results, Complete(w, c, r) PROVE Good
    <2>1. row' = [row EXCEPT ![c] = DoneRow(row[c], r)] /\ row[c].state = "leased"
      BY <1>2 DEF Complete, DoneRow, Live
    <2>2. row'[c] = DoneRow(row[c], r)
      BY <2>1, WrittenRow
    <2>3. Lived(c)
      BY <1>1, <2>1, <2>2, DoneRows DEF Lived, Life!CampaignNext, Life!Next, Life!Finish
    <2> QED BY <1>1, <2>1, <2>3, DoneRows, OneRow
  <1>3. ASSUME NEW retryable \in BOOLEAN, NEW refund \in BOOLEAN, Fail(w, c, retryable, refund)
        PROVE  Good
    <2>1. PICK s \in {"pending", "quarantined"} :
            \/ row' = [row EXCEPT ![c] = Freed(row[c], s)]
            \/ row' = [row EXCEPT ![c] = Freed(Refunded(row[c]), s)]
      BY <1>3 DEF Fail
    <2>2. row[c].state = "leased"
      BY <1>3 DEF Fail, Live
    <2> QED BY <2>1, <2>2, FreeingGood
  <1>4. CASE Release(w, c)
    BY <1>4, FreeingGood DEF Release, Live
  <1> QED BY <1>2, <1>3, <1>4

-----------------------------------------------------------------------------
(* Calls of two steps: the writes that do not ask again.                   *)

LEMMA Ended ==
  ASSUME TypeOK, NEW t \in Threads, call[t].op # "idle", End(t)
  PROVE  call'[t] # call[t] /\ call'[t] = Idle
  BY DEF TypeOK, End, Idle

LEMMA Found ==
  ASSUME TypeOK, NEW t \in Threads
  PROVE  /\ call[t].found \subseteq Cases /\ call[t].saw \in Snapshot
         /\ call[t].by \in Workers \cup {NoWorker}
         /\ call[t].op \in Writes \cup {"idle"}
  BY DEF TypeOK

LEMMA UpdateGood ==
  ASSUME row \in Rows, CallsSawLeases,
         NEW t \in Threads, call[t].op \in Unguarded, call'[t] # call[t],
         NEW c \in Cases, c \in call[t].found,
         NEW s \in {"pending", "quarantined"}, NEW f,
         \/ f = Freed(row[c], s)
         \/ f = Refunded(Freed(row[c], s))
         \/ f = Freed(Refunded(row[c]), s),
         Update(c, f)
  PROVE  Good
  <1>1. row[c] \in ConsistentRow
    BY DEF Rows
  <1>2. CASE row[c].state = "absent"
    <2>1. row' = row
      BY <1>2 DEF Update, Rows
    <2> QED BY <2>1, NoRows
  <1>3. CASE row[c].state # "absent"
    <2>1. row' = [row EXCEPT ![c] = f]
      BY <1>3 DEF Update, Rows
    <2>2. CASE row[c].lease = call[t].saw[c]
      <3>1. row[c].state = "leased"
        BY <1>1, <2>2, RowParts DEF CallsSawLeases
      <3> QED BY <2>1, <3>1, FreeingGood
    <2>3. CASE row[c].lease # call[t].saw[c]
      <3>1. Lived(c)
        BY <2>3 DEF Lived, Outraced
      <3>2. f \in ConsistentRow
        BY <1>1, FreedOne
      <3> QED BY <2>1, <3>1, <3>2, OneRow
    <2> QED BY <2>2, <2>3
  <1> QED BY <1>2, <1>3

LEMMA AbandonGood ==
  ASSUME TypeOK, row \in Rows, CallsSawLeases, NEW t \in Threads, Abandon(t)
  PROVE  Good
  <1>1. call'[t] # call[t] /\ call[t].op \in Unguarded
    BY Ended DEF Abandon, Unguarded
  <1>2. PICK c \in call[t].found : Update(c, Freed(row[c], "pending"))
    BY DEF Abandon
  <1> QED BY <1>1, <1>2, Found, UpdateGood

LEMMA CancelGood ==
  ASSUME TypeOK, row \in Rows, CallsSawLeases, NEW t \in Threads, Cancel(t)
  PROVE  Good
  <1>1. call'[t] # call[t] /\ call[t].op \in Unguarded
    BY Ended DEF Cancel, Unguarded
  <1>2. PICK c \in call[t].found, s \in {"pending", "quarantined"} :
          Update(c, Refunded(Freed(row[c], s)))
    BY DEF Cancel
  <1> QED BY <1>1, <1>2, Found, UpdateGood

LEMMA ClearChanges ==
  ASSUME TypeOK, NEW t \in Threads, Clear(t)
  PROVE  call'[t] # call[t]
  <1>1. PICK c \in call[t].found : call' = [call EXCEPT ![t] = Without(call[t], c)]
    BY DEF Clear
  <1>2. call[t].op # "idle"
    BY DEF Clear
  <1>3. call'[t] = Without(call[t], c)
    BY <1>1 DEF TypeOK
  <1>4. CASE call[t].found = {c}
    BY <1>2, <1>3, <1>4 DEF Without, Idle
  <1>5. CASE call[t].found # {c}
    <2>1. call'[t].found = call[t].found \ {c}
      BY <1>3, <1>5 DEF Without, TypeOK
    <2> QED BY <2>1
  <1> QED BY <1>4, <1>5

LEMMA ClearGood ==
  ASSUME TypeOK, row \in Rows, CallsSawLeases, NEW t \in Threads, Clear(t)
  PROVE  Good
  <1>1. call'[t] # call[t] /\ call[t].op \in Unguarded
    BY ClearChanges DEF Clear, Unguarded
  <1>2. PICK c \in call[t].found : Update(c, Freed(row[c], "pending"))
    BY DEF Clear
  <1> QED BY <1>1, <1>2, Found, UpdateGood

-----------------------------------------------------------------------------
(* Calls of two steps: the writes that do ask again, and the purge.        *)

LEMMA Untouched ==
  ASSUME row \in Rows, NEW c \in Cases, row'[c] = row[c]
  PROVE  row'[c] \in ConsistentRow /\ Lived(c)
  BY SameIsLived DEF Rows, SameLife

LEMMA ExtendGood ==
  ASSUME TypeOK, row \in Rows, NEW t \in Threads, Extend(t)
  PROVE  Good
  <1>1. ASSUME NEW c \in Cases PROVE row'[c] \in ConsistentRow /\ Lived(c)
    <2> DEFINE late == IF row[c].lease = call[t].saw[c] THEN 0 ELSE row[c].late
               keep == call[t].op # "progress"
    <2>1. row[c] \in ConsistentRow
      BY <1>1 DEF Rows
    <2>2. late \in 0..2 /\ keep \in BOOLEAN
      BY <2>1 DEF ConsistentRow, Row
    <2>3. row'[c] = IF c \in call[t].found THEN ExtendedRow(row[c], late, keep) ELSE row[c]
      BY <1>1 DEF Extend, ExtendedRow
    <2> HIDE DEF late, keep
    <2>4. CASE c \in call[t].found
      <3>1. row'[c] = ExtendedRow(row[c], late, keep)
        BY <2>3, <2>4
      <3>2. row'[c] \in ConsistentRow
        BY <2>1, <2>2, <3>1, ExtendedRows, Zenon
      <3> DEFINE r == ExtendedRow(row[c], late, keep)
      <3>3. /\ r.state = row[c].state /\ r.lease = row[c].lease
            /\ r.attempts = row[c].attempts /\ r.result = row[c].result
        BY <2>1, <2>2, ExtendedRows, Zenon
      <3>4. row'[c] = r
        BY <3>1
      <3> HIDE DEF r
      <3>5. SameLife(c)
        BY <3>3, <3>4 DEF SameLife
      <3> QED BY <1>1, <3>2, <3>5, SameIsLived
    <2>5. CASE c \notin call[t].found
      <3>1. row'[c] = row[c]
        BY <2>3, <2>5
      <3> QED BY <1>1, <3>1, Untouched
    <2> QED BY <2>4, <2>5
  <1>2. row' = [c \in Cases |-> row'[c]]
    BY DEF Extend
  <1> QED BY <1>1, <1>2, EveryRow

(* A case parked by a write that asked for a state without a lease.        *)
LEMMA ParkedIsLived ==
  ASSUME NEW c \in Cases, row[c] \in ConsistentRow,
         row[c].state \in {"pending", "quarantined"},
         row'[c] = [row[c] EXCEPT !.state = "quarantined"]
  PROVE  row'[c] \in ConsistentRow /\ row'[c].state = "quarantined" /\ Lived(c)
  <1>1. /\ row'[c] \in ConsistentRow /\ row'[c].state = "quarantined"
        /\ row'[c].lease = row[c].lease /\ row'[c].attempts = row[c].attempts
        /\ row'[c].result = row[c].result
    BY ParkedRow
  <1>2. row[c].lease = NoLease /\ row[c].attempts \in Nat
    BY RowParts
  <1>3. CASE row[c].state = "pending"
    <2>1. LetGoOf(c)
      BY <1>1, <1>2 DEF LetGoOf
    <2> QED BY <1>1, <1>3, <2>1, LetGoIsLived
  <1>4. CASE row[c].state = "quarantined"
    BY <1>1, <1>4, SameIsLived DEF SameLife
  <1> QED BY <1>3, <1>4

LEMMA ParkGood ==
  ASSUME row \in Rows, NEW t \in Threads, Park(t)
  PROVE  Good
  <1>1. ASSUME NEW c \in Cases PROVE row'[c] \in ConsistentRow /\ Lived(c)
    <2>1. row[c] \in ConsistentRow
      BY <1>1 DEF Rows
    <2>2. CASE c \in call[t].found /\ Parkable(c)
      <3>1. row'[c] = [row[c] EXCEPT !.state = "quarantined"] /\ row[c].state = "pending"
        BY <1>1, <2>2 DEF Park, Parkable
      <3> QED BY <1>1, <2>1, <3>1, ParkedIsLived
    <2>3. CASE ~(c \in call[t].found /\ Parkable(c))
      <3>1. row'[c] = row[c]
        BY <1>1, <2>3 DEF Park
      <3> QED BY <1>1, <3>1, Untouched
    <2> QED BY <2>2, <2>3
  <1>2. row' = [c \in Cases |-> row'[c]]
    BY DEF Park
  <1> QED BY <1>1, <1>2, EveryRow

LEMMA AuditGood ==
  ASSUME row \in Rows, NEW t \in Threads, Audit(t)
  PROVE  Good
  <1>1. ASSUME NEW c \in Cases PROVE row'[c] \in ConsistentRow /\ Lived(c)
    <2>1. row[c] \in ConsistentRow
      BY <1>1 DEF Rows
    <2>2. CASE c \in call[t].found /\ Auditable(c)
      <3>1. row'[c] = AuditedRow(row[c]) /\ row[c].state \in {"pending", "leased"}
        BY <1>1, <2>2 DEF Audit, Auditable, AuditedRow
      <3>2. row[c].attempts \in Nat
        BY <2>1, RowParts
      <3>3. LetGoOf(c) /\ row'[c].state = "quarantined"
        BY <2>1, <3>1, <3>2, AuditedRows DEF LetGoOf
      <3> QED BY <1>1, <2>1, <3>1, <3>3, AuditedRows, LetGoIsLived
    <2>3. CASE ~(c \in call[t].found /\ Auditable(c))
      <3>1. row'[c] = row[c]
        BY <1>1, <2>3 DEF Audit
      <3> QED BY <1>1, <3>1, Untouched
    <2> QED BY <2>2, <2>3
  <1>2. row' = [c \in Cases |-> row'[c]]
    BY DEF Audit
  <1> QED BY <1>1, <1>2, EveryRow

LEMMA ReopenGood ==
  ASSUME row \in Rows, NEW t \in Threads, Reopen(t)
  PROVE  Good
  <1>1. ASSUME NEW c \in Cases PROVE row'[c] \in ConsistentRow /\ Lived(c)
    <2>1. row[c] \in ConsistentRow
      BY <1>1 DEF Rows
    <2>2. CASE c \in call[t].found /\ Reopenable(call[t].op, c)
      <3>1. /\ row'[c] = ReopenedRow(row[c])
            /\ row[c].state \in {"pending", "quarantined"}
        BY <1>1, <2>2 DEF Reopen, Reopenable, ReopenedRow
      <3> QED BY <1>1, <2>1, <3>1, ReopenedRows, ReopenedIsLived
    <2>3. CASE ~(c \in call[t].found /\ Reopenable(call[t].op, c))
      <3>1. row'[c] = row[c]
        BY <1>1, <2>3 DEF Reopen
      <3> QED BY <1>1, <3>1, Untouched
    <2> QED BY <2>2, <2>3
  <1>2. row' = [c \in Cases |-> row'[c]]
    BY DEF Reopen
  <1> QED BY <1>1, <1>2, EveryRow

LEMMA RespecGood ==
  ASSUME row \in Rows, NEW t \in Threads, Respec(t)
  PROVE  Good
  <1>1. ASSUME NEW c \in Cases PROVE row'[c] \in ConsistentRow /\ Lived(c)
    <2>1. row[c] \in ConsistentRow
      BY <1>1 DEF Rows
    <2>2. CASE c \in call[t].found /\ Movable(c)
      <3>1. /\ row'[c] = [row[c] EXCEPT !.state = "quarantined"]
            /\ row[c].state \in {"pending", "quarantined"}
        BY <1>1, <2>2 DEF Respec, Movable
      <3> QED BY <1>1, <2>1, <3>1, ParkedIsLived
    <2>3. CASE /\ ~(c \in call[t].found /\ Movable(c))
               /\ row[c].state = "absent" /\ \E d \in Moves(t) : MovesTo[d] = c
      <3>1. row'[c] = PostedRow
        BY <1>1, <2>3 DEF Respec, PostedRow
      <3> QED BY <1>1, <2>1, <2>3, <3>1, NewRow, PostedIsLived
    <2>4. CASE /\ ~(c \in call[t].found /\ Movable(c))
               /\ ~(row[c].state = "absent" /\ \E d \in Moves(t) : MovesTo[d] = c)
      <3>1. row'[c] = row[c]
        BY <1>1, <2>4 DEF Respec
      <3> QED BY <1>1, <3>1, Untouched
    <2> QED BY <2>2, <2>3, <2>4
  <1>2. row' = [c \in Cases |-> row'[c]]
    BY DEF Respec
  <1> QED BY <1>1, <1>2, EveryRow

LEMMA PurgeGood ==
  ASSUME row \in Rows, NEW among \in SUBSET Cases, NEW s \in States \cup {"any"},
         Purge(among, s)
  PROVE  Good
  <1> DEFINE gone == {c \in among : row[c].state # "absent" /\ (s = "any" \/ row[c].state = s)}
  <1>1. row' = [c \in Cases |-> IF c \in gone THEN NoRow ELSE row[c]]
    BY DEF Purge
  <1>2. ASSUME NEW c \in Cases PROVE row'[c] \in ConsistentRow /\ Lived(c)
    <2>1. CASE c \in gone
      <3>1. row'[c] = NoRow /\ row[c].state # "absent"
        BY <1>1, <1>2, <2>1
      <3> QED BY <1>2, <3>1, NewRow, DeletedIsLived
    <2>2. CASE c \notin gone
      <3>1. row'[c] = row[c]
        BY <1>1, <1>2, <2>2
      <3> QED BY <1>2, <3>1, Untouched
    <2> QED BY <2>1, <2>2
  <1>3. row' = [c \in Cases |-> row'[c]]
    BY <1>1
  <1> QED BY <1>2, <1>3, EveryRow

-----------------------------------------------------------------------------
(* What the calls remember: only leased cases, where nothing is asked      *)
(* again.                                                                  *)

CallRecord == [op : Writes \cup {"idle"}, by : Workers \cup {NoWorker},
               found : SUBSET Cases, saw : Snapshot]

SoundCall == {k \in CallRecord :
                k.op \in Unguarded => \A c \in k.found : k.saw[c] # NoLease}

Calls == [Threads -> SoundCall]

IInv == /\ row \in Rows /\ call \in Calls
        /\ mem \in [Workers -> Snapshot] /\ moved \in [Cases -> BOOLEAN]

LEMMA Parts == TypeOK /\ PgInv <=> IInv
  <1>1. ASSUME TypeOK, PgInv PROVE IInv
    <2>1. row \in Rows
      BY <1>1 DEF TypeOK, PgInv, RowsConsistent, Rows, ConsistentRow
    <2>2. call \in Calls
      BY <1>1 DEF TypeOK, PgInv, CallsSawLeases, Calls, SoundCall, CallRecord
    <2> QED BY <1>1, <2>1, <2>2 DEF IInv, TypeOK
  <1>2. ASSUME IInv PROVE TypeOK /\ PgInv
    <2>1. row \in [Cases -> Row] /\ RowsConsistent
      BY <1>2 DEF IInv, Rows, ConsistentRow, RowsConsistent
    <2>2. call \in [Threads -> CallRecord] /\ CallsSawLeases
      BY <1>2 DEF IInv, Calls, SoundCall, CallsSawLeases
    <2> QED BY <1>2, <2>1, <2>2 DEF IInv, TypeOK, PgInv, CallRecord
  <1> QED BY <1>1, <1>2

LEMMA IdleSound == Idle \in SoundCall
  <1>1. Nothing \in Snapshot
    BY DEF Nothing, Snapshot
  <1>2. Idle \in CallRecord
    BY <1>1 DEF Idle, CallRecord
  <1> QED BY <1>2 DEF Idle, SoundCall, Unguarded

LEMMA EndCalls ==
  ASSUME call \in Calls, NEW t \in Threads, End(t)
  PROVE  call' \in Calls
  BY IdleSound DEF End, Calls

LEMMA BeginCalls ==
  ASSUME row \in Rows, call \in Calls, NEW t \in Threads, NEW op \in Writes,
         NEW w \in Workers \cup {NoWorker}, NEW S \in SUBSET Cases,
         op \in Unguarded => \A c \in S : row[c].state = "leased",
         Begin(t, op, w, S)
  PROVE  call' \in Calls
  <1> DEFINE saw == [c \in Cases |-> IF c \in S THEN row[c].lease ELSE NoLease]
             k   == [op |-> op, by |-> w, found |-> S, saw |-> saw]
  <1>1. \A c \in Cases : row[c] \in ConsistentRow
    BY DEF Rows
  <1>2. saw \in Snapshot
    BY <1>1, RowParts DEF Snapshot
  <1>3. op \in Unguarded => \A c \in S : saw[c] # NoLease
    BY <1>1, RowParts
  <1>4. call' = [call EXCEPT ![t] = k]
    BY DEF Begin
  <1> HIDE DEF saw
  <1>5. k \in CallRecord
    BY <1>2 DEF CallRecord
  <1>6. k \in SoundCall
    BY <1>3, <1>5 DEF SoundCall
  <1> HIDE DEF k
  <1> QED BY <1>4, <1>6 DEF Calls

LEMMA ScanCalls ==
  ASSUME row \in Rows, call \in Calls, NEW t \in Threads,
         NEW op \in Writes \ Unguarded, NEW Q \in SUBSET Cases, Scan(t, op, Q)
  PROVE  call' \in Calls /\ UNCHANGED <<row, mem, moved>>
  <1>1. PICK S \in SUBSET Q : Begin(t, op, NoWorker, S)
    BY DEF Scan
  <1>2. call' \in Calls
    BY <1>1, BeginCalls
  <1> QED BY <1>1, <1>2 DEF Begin

LEMMA ReadCalls ==
  ASSUME row \in Rows, call \in Calls, NEW t \in Threads, Reads(t)
  PROVE  call' \in Calls /\ UNCHANGED <<row, mem, moved>>
  <1>1. ASSUME NEW w \in Workers, NEW c \in Cases, NEW new \in BOOLEAN,
               BeginHeartbeat(t, w, c, new)
        PROVE  call' \in Calls /\ UNCHANGED <<row, mem, moved>>
    <2>1. row[c].state = "leased"
      BY <1>1 DEF BeginHeartbeat, Live
    <2>2. PICK op \in {"progress", "abandon", "extend"} : Begin(t, op, w, {c})
      BY <1>1 DEF BeginHeartbeat
    <2>3. op \in Writes
      BY DEF Writes
    <2>4. {c} \in SUBSET Cases /\ \A d \in {c} : row[d].state = "leased"
      BY <1>1, <2>1
    <2>5. call' \in Calls
      BY <1>1, <2>2, <2>3, <2>4, BeginCalls
    <2> QED BY <2>2, <2>5 DEF Begin
  <1>2. CASE BeginStatus(t)
    <2>1. Begin(t, "status", NoWorker,
                {c \in Cases : row[c].state = "leased" /\ row[c].late = 2})
      BY <1>2 DEF BeginStatus
    <2>2. "status" \in Writes
      BY DEF Writes, AllOps
    <2>3. call' \in Calls
      BY <2>1, <2>2, BeginCalls
    <2> QED BY <2>1, <2>3 DEF Begin
  <1>3. ASSUME NEW c \in Cases, BeginCancel(t, c)
        PROVE  call' \in Calls /\ UNCHANGED <<row, mem, moved>>
    <2>1. row[c].state = "leased" /\ Begin(t, "cancel", NoWorker, {c})
      BY <1>3 DEF BeginCancel
    <2>2. "cancel" \in Writes
      BY DEF Writes, AllOps
    <2>3. {c} \in SUBSET Cases /\ \A d \in {c} : row[d].state = "leased"
      BY <1>3, <2>1
    <2>4. call' \in Calls
      BY <2>1, <2>2, <2>3, BeginCalls
    <2> QED BY <2>1, <2>4 DEF Begin
  <1>4. CASE BeginPark(t)
    <2>1. Scan(t, "park", {c \in Cases : Parkable(c)})
      BY <1>4 DEF BeginPark
    <2>2. "park" \in Writes \ Unguarded
      BY DEF Writes, AllOps, Unguarded
    <2>3. {c \in Cases : Parkable(c)} \in SUBSET Cases
      OBVIOUS
    <2> QED BY <2>1, <2>2, <2>3, ScanCalls
  <1>5. CASE BeginAudit(t)
    <2>1. Begin(t, "audit", NoWorker, {c \in OffLand : Auditable(c)})
      BY <1>5 DEF BeginAudit
    <2>2. "audit" \in Writes \ Unguarded
      BY DEF Writes, AllOps, Unguarded
    <2>3. {c \in OffLand : Auditable(c)} \in SUBSET Cases
      BY PgConstants DEF PgConstants
    <2>4. call' \in Calls
      BY <2>1, <2>2, <2>3, BeginCalls
    <2> QED BY <2>1, <2>4 DEF Begin
  <1>6. ASSUME NEW op \in {"reopen", "pardon"}, BeginReopen(t, op)
        PROVE  call' \in Calls /\ UNCHANGED <<row, mem, moved>>
    <2>1. PICK Q \in SUBSET Cases : Scan(t, op, Q)
      BY <1>6 DEF BeginReopen
    <2>2. op \in Writes \ Unguarded
      BY <1>6 DEF Writes, AllOps, Unguarded
    <2> QED BY <2>1, <2>2, ScanCalls
  <1>7. CASE BeginRespec(t)
    <2>1. PICK S \in SUBSET Cases : Begin(t, "respec", NoWorker, S)
      BY <1>7 DEF BeginRespec
    <2>2. "respec" \in Writes \ Unguarded
      BY DEF Writes, AllOps, Unguarded
    <2>3. call' \in Calls
      BY <2>1, <2>2, BeginCalls
    <2> QED BY <2>1, <2>3 DEF Begin
  <1> QED BY <1>1, <1>2, <1>3, <1>4, <1>5, <1>6, <1>7 DEF Reads

LEMMA ClearCalls ==
  ASSUME call \in Calls, NEW t \in Threads, Clear(t)
  PROVE  call' \in Calls
  <1>1. PICK c \in call[t].found : call' = [call EXCEPT ![t] = Without(call[t], c)]
    BY DEF Clear
  <1> DEFINE k == call[t]
             n == [k EXCEPT !.found = @ \ {c}, !.saw[c] = NoLease]
  <1>2. k \in SoundCall /\ k \in CallRecord /\ k.saw \in Snapshot /\ k.op = "status"
    BY DEF Calls, SoundCall, CallRecord, Clear
  <1>3. Without(k, c) = IF k.found = {c} THEN Idle ELSE n
    BY DEF Without
  <1>4. [k.saw EXCEPT ![c] = NoLease] \in Snapshot
    BY <1>2 DEF Snapshot
  <1>5. n \in CallRecord
    BY <1>2, <1>4 DEF CallRecord
  <1>6. \A d \in n.found : n.saw[d] # NoLease
    BY <1>2, <1>5 DEF CallRecord, SoundCall, Unguarded, Snapshot
  <1>7. Without(k, c) \in SoundCall
    BY <1>3, <1>5, <1>6, IdleSound DEF SoundCall
  <1> HIDE DEF k, n
  <1> QED BY <1>1, <1>7 DEF Calls, k

-----------------------------------------------------------------------------
(* What the nodes remember, and what cases were moved.                     *)

Minds == [Workers -> Snapshot]

LEMMA ForgetMinds ==
  ASSUME mem \in Minds, NEW w \in Workers, NEW c \in Cases, Forget(w, c)
  PROVE  mem' \in Minds
  BY DEF Forget, Minds, Snapshot

LEMMA NodeMinds ==
  ASSUME mem \in Minds, NEW w \in Workers, NEW c \in Cases, NodeCall(w, c)
  PROVE  mem' \in Minds /\ UNCHANGED <<moved, call>>
  <1>1. CASE Lease(w, c)
    <2>1. \/ UNCHANGED mem
          \/ \E l \in UnusedLeases : mem' = [mem EXCEPT ![w][c] = l]
      BY <1>1, Zenon DEF Lease
    <2>2. UnusedLeases \subseteq LeaseIds
      BY DEF UnusedLeases
    <2>3. mem' \in Minds
      BY <2>1, <2>2 DEF Minds, Snapshot
    <2> QED BY <1>1, <2>3 DEF Lease
  <1>2. ASSUME NEW r \in Results, Complete(w, c, r)
        PROVE  mem' \in Minds /\ UNCHANGED <<moved, call>>
    BY <1>2, ForgetMinds DEF Complete, LetGo
  <1>3. ASSUME NEW retryable \in BOOLEAN, NEW refund \in BOOLEAN,
               Fail(w, c, retryable, refund)
        PROVE  mem' \in Minds /\ UNCHANGED <<moved, call>>
    BY <1>3, ForgetMinds DEF Fail, LetGo
  <1>4. CASE Release(w, c)
    BY <1>4, ForgetMinds DEF Release, LetGo
  <1>5. CASE Refused(w, c)
    BY <1>5, ForgetMinds DEF Refused
  <1> QED BY <1>1, <1>2, <1>3, <1>4, <1>5 DEF NodeCall

LEMMA NodeGood ==
  ASSUME row \in Rows, NEW w \in Workers, NEW c \in Cases, NodeCall(w, c)
  PROVE  Good
  <1>1. CASE Refused(w, c)
    BY <1>1, NoRows DEF Refused
  <1> QED BY <1>1, LeaseGood, HolderGood DEF NodeCall

LEMMA AbandonMinds ==
  ASSUME TypeOK, mem \in Minds, NEW t \in Threads, Abandon(t)
  PROVE  mem' \in Minds
  <1>1. PICK c \in call[t].found : Forget(call[t].by, c) \/ UNCHANGED mem
    BY DEF Abandon
  <1>2. CASE call[t].by \in Workers
    BY <1>1, <1>2, Found, ForgetMinds
  <1>3. CASE call[t].by \notin Workers
    BY <1>1, <1>3 DEF Forget, Minds
  <1> QED BY <1>2, <1>3

LEMMA WrittenGood ==
  ASSUME IInv, NEW t \in Threads, Written(t)
  PROVE  Good /\ IInv'
  <1> USE DEF Minds
  <1>1. /\ row \in Rows /\ call \in Calls /\ mem \in Minds
        /\ moved \in [Cases -> BOOLEAN]
    BY DEF IInv
  <1>2. TypeOK /\ CallsSawLeases
    BY Parts DEF PgInv
  <1>3. Good
    BY <1>1, <1>2, ExtendGood, AbandonGood, ClearGood, CancelGood, ParkGood, AuditGood,
       ReopenGood, RespecGood DEF Written
  <1>4. call' \in Calls
    BY <1>1, EndCalls, ClearCalls
       DEF Written, Extend, Abandon, Cancel, Park, Audit, Reopen, Respec
  <1>5. mem' \in Minds
    BY <1>1, <1>2, AbandonMinds
       DEF Written, Extend, Clear, Cancel, Park, Audit, Reopen, Respec
  <1>6. moved' \in [Cases -> BOOLEAN]
    <2>1. CASE Respec(t)
      <3>1. moved' = [c \in Cases |-> moved[c] \/ c \in Moves(t)]
        BY <2>1 DEF Respec
      <3>2. \A c \in Cases : (moved[c] \/ c \in Moves(t)) \in BOOLEAN
        BY Zenon
      <3> QED BY <3>1, <3>2
    <2>2. CASE UNCHANGED moved
      BY <1>1, <2>2
    <2> QED BY <2>1, <2>2
       DEF Written, Extend, Abandon, Clear, Cancel, Park, Audit, Reopen
  <1> QED BY <1>3, <1>4, <1>5, <1>6 DEF IInv, Good

LEMMA StepGood ==
  ASSUME IInv, Next
  PROVE  Good /\ IInv'
  <1> USE DEF Minds
  <1>1. /\ row \in Rows /\ call \in Calls /\ mem \in Minds
        /\ moved \in [Cases -> BOOLEAN]
    BY DEF IInv
  <1>2. ASSUME NEW c \in Cases, Post(c) \/ Age(c) PROVE Good /\ IInv'
    <2>1. Good
      BY <1>1, <1>2, PostGood, AgeGood
    <2> QED BY <1>1, <1>2, <2>1 DEF Good, IInv, Post, Age
  <1>3. ASSUME NEW w \in Workers, NEW c \in Cases, NodeCall(w, c) PROVE Good /\ IInv'
    <2>1. Good
      BY <1>1, <1>3, NodeGood
    <2> QED BY <1>1, <1>3, <2>1, NodeMinds DEF Good, IInv
  <1>4. ASSUME NEW w \in Workers, Crash(w) PROVE Good /\ IInv'
    <2>1. Good
      BY <1>1, <1>4, NoRows DEF Crash
    <2>2. mem' \in Minds
      BY <1>1, <1>4, PgConstants DEF PgConstants, Crash, Nothing, Snapshot
    <2> QED BY <1>1, <1>4, <2>1, <2>2 DEF Good, IInv, Crash
  <1>5. ASSUME NEW t \in Threads, Reads(t) PROVE Good /\ IInv'
    <2>1. call' \in Calls /\ UNCHANGED <<row, mem, moved>>
      BY <1>1, <1>5, ReadCalls
    <2>2. Good
      BY <1>1, <2>1, NoRows
    <2> QED BY <1>1, <2>1, <2>2 DEF Good, IInv
  <1>6. ASSUME NEW t \in Threads, Written(t) PROVE Good /\ IInv'
    BY <1>6, WrittenGood
  <1>7. ASSUME NEW among \in SUBSET Cases, NEW s \in States \cup {"any"}, Purge(among, s)
        PROVE  Good /\ IInv'
    <2>1. Good
      BY <1>1, <1>7, PurgeGood
    <2>2. moved' \in [Cases -> BOOLEAN] /\ UNCHANGED <<mem, call>>
      BY <1>1, <1>7 DEF Purge
    <2> QED BY <1>1, <2>1, <2>2 DEF Good, IInv
  <1> QED BY <1>2, <1>3, <1>4, <1>5, <1>6, <1>7 DEF Next

LEMMA InitInv == Init => IInv
  <1> SUFFICES ASSUME Init PROVE IInv
    OBVIOUS
  <1>1. row \in Rows
    BY NewRow DEF Init, Rows
  <1>2. call \in Calls
    BY IdleSound DEF Init, Calls
  <1>3. mem \in [Workers -> Snapshot]
    BY DEF Init, Nothing, Snapshot
  <1> QED BY <1>1, <1>2, <1>3 DEF Init, IInv

LEMMA Invariant == Spec => []IInv
  <1>1. IInv /\ UNCHANGED vars => IInv'
    BY DEF IInv, vars
  <1>2. IInv /\ [Next]_vars => IInv'
    BY <1>1, StepGood
  <1> QED BY InitInv, <1>2, PTL DEF Spec

-----------------------------------------------------------------------------
(* The statement-level queue keeps its types: no interleaving charges a    *)
(* case beyond its budget, or leaves a value no single call would write.   *)
THEOREM PgTypeCorrect == Spec => []TypeOK
  <1>1. IInv => TypeOK
    BY Parts
  <1> QED BY <1>1, Invariant, PTL

(* A row has a lease exactly while it is leased, whichever calls met on    *)
(* it.                                                                     *)
THEOREM PgRowsConsistent == Spec => []PgInv
  <1>1. IInv => PgInv
    BY Parts
  <1> QED BY <1>1, Invariant, PTL

(* Postgres strays from the life of a case only in rows that an unguarded  *)
(* write (heartbeat's abandoning, status, cancel) met changed.             *)
THEOREM PgStraysOnlyOutraced == Spec => StrayOnlyOutraced
  <1>1. Init => \A c \in Cases : Life(c)!Init
    BY NewRow DEF Init, Life!Init
  <1>2. IInv /\ [Next]_vars
          => [\A c \in Cases : \/ Life(c)!CampaignNext
                               \/ UNCHANGED Life(c)!vars
                               \/ Outraced(c)]_vars
    BY StepGood DEF Good, Lived
  <1> QED BY <1>1, <1>2, Invariant, PTL DEF Spec, StrayOnlyOutraced

-----------------------------------------------------------------------------
(* Only a thread's own write changes the call it is in.                    *)

LEMMA WhoReads ==
  ASSUME call \in Calls, NEW t \in Threads, NEW u \in Threads, Reads(u),
         call[t].op # "idle"
  PROVE  call'[t] = call[t]
  <1>1. call[u] = Idle /\ \E k : call' = [call EXCEPT ![u] = k]
    BY DEF Reads, BeginHeartbeat, BeginStatus, BeginCancel, BeginPark, BeginAudit,
           BeginReopen, BeginRespec, Scan, Begin
  <1>2. u # t
    BY <1>1 DEF Idle
  <1> QED BY <1>1, <1>2 DEF Calls

LEMMA WhoWrites ==
  ASSUME IInv, Next, NEW t \in Threads, call[t].op # "idle", call'[t] # call[t]
  PROVE  Written(t)
  <1>1. call \in Calls /\ call' # call
    BY DEF IInv
  <1>2. PICK u \in Threads : Reads(u) \/ Written(u)
    BY <1>1, Zenon DEF Next, Post, Age, NodeCall, Lease, Complete, Fail, Release, Refused,
       Crash, Purge
  <1>3. ~Reads(u)
    BY <1>1, WhoReads
  <1>4. \E k : call' = [call EXCEPT ![u] = k]
    BY <1>2, <1>3 DEF Written, Extend, Abandon, Clear, Cancel, Park, Audit, Reopen, Respec, End
  <1>5. u = t
    BY <1>1, <1>4 DEF Calls
  <1> QED BY <1>2, <1>3, <1>5

(* park, reopen and respec never touch a case that is leased or done when  *)
(* they write, whatever they read.                                         *)
THEOREM PgWorkIsLeftAlone == Spec => WorkIsLeftAlone
  <1>1. ASSUME IInv, Next, NEW t \in Threads,
               call[t].op \in {"park", "reopen", "pardon", "respec"}, call'[t] # call[t],
               NEW c \in Cases, row[c].state \in {"leased", "done"}
        PROVE  row'[c] = row[c]
    <2>1. Written(t)
      BY <1>1, WhoWrites
    <2>2. CASE Park(t)
      BY <1>1, <2>2 DEF Park, Parkable
    <2>3. CASE Reopen(t)
      BY <1>1, <2>3 DEF Reopen, Reopenable
    <2>4. CASE Respec(t)
      BY <1>1, <2>4 DEF Respec, Movable
    <2> QED BY <1>1, <2>1, <2>2, <2>3, <2>4
       DEF Written, Extend, Abandon, Clear, Cancel, Audit
  <1>2. IInv /\ [Next]_vars
          => [\A t \in Threads :
               call[t].op \in {"park", "reopen", "pardon", "respec"} /\ call'[t] # call[t]
                 => \A c \in Cases : row[c].state \in {"leased", "done"}
                      => row'[c] = row[c]]_vars
    BY <1>1
  <1> QED BY <1>2, Invariant, PTL DEF Spec, WorkIsLeftAlone

(* A case that respec posts replaces one that the same write parks.        *)
THEOREM PgSiteMovesWhole == Spec => SiteMovesWhole
  <1>1. ASSUME IInv, Next, NEW t \in Threads, call[t].op = "respec", call'[t] # call[t],
               NEW c \in Cases, row[c].state = "absent", row'[c].state # "absent"
        PROVE  \E d \in call[t].found : MovesTo[d] = c /\ row'[d].state = "quarantined"
    <2>1. Written(t)
      BY <1>1, WhoWrites
    <2>2. Respec(t)
      BY <1>1, <2>1 DEF Written, Extend, Abandon, Clear, Cancel, Park, Audit, Reopen
    <2>3. PICK d \in Moves(t) : MovesTo[d] = c
      BY <1>1, <2>2 DEF Respec, Movable
    <2>4. d \in call[t].found /\ Movable(d) /\ d \in Cases
      BY <1>1, <2>3, Parts, Found DEF Moves
    <2>5. row'[d] = [row[d] EXCEPT !.state = "quarantined"] /\ row[d] \in Row
      BY <1>1, <2>2, <2>4 DEF Respec, IInv, Rows, ConsistentRow
    <2>6. row'[d].state = "quarantined"
      BY <2>5 DEF Row
    <2> QED BY <2>3, <2>4, <2>6
  <1>2. IInv /\ [Next]_vars
          => [\A t \in Threads :
               call[t].op = "respec" /\ call'[t] # call[t]
                 => \A c \in Cases : row[c].state = "absent" /\ row'[c].state # "absent"
                      => \E d \in call[t].found :
                           MovesTo[d] = c /\ row'[d].state = "quarantined"]_vars
    BY <1>1
  <1> QED BY <1>2, Invariant, PTL DEF Spec, SiteMovesWhole
=============================================================================
