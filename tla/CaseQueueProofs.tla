-------------------------- MODULE CaseQueueProofs --------------------------
(***************************************************************************)
(* Proofs about CaseQueue, for any number of cases, nodes, workers and     *)
(* lease ids and any values of the time limits: its types; its safety,     *)
(* from an inductive invariant; and where it lets a case go.               *)
(***************************************************************************)
EXTENDS CaseQueue, FiniteSetTheorems, TLAPS

-----------------------------------------------------------------------------
(* The row updates.                                                        *)

LEMMA WindowsAreNat == LongAgo \in Nat /\ NeverSpoke \in Nat /\ NeverSpoke = LongAgo + 1
  BY ConstantsAssumption DEF ConstantsAssumption, LongAgo, NeverSpoke

LEMMA LimitsAreNat ==
  /\ LeaseTTL \in Nat /\ StaleAfter \in Nat \ {0} /\ MaxLeaseAge \in Nat
  /\ MaxAttempts \in Nat \ {0} /\ StallAfter \in Nat
  /\ FailCooldown \in Nat /\ HandoffCooldown \in Nat /\ BurstWindow \in Nat
  /\ TimeoutRefunds \in Nat /\ EngineRefunds \in Nat
  BY ConstantsAssumption DEF ConstantsAssumption

(* A freed row holds nothing, and keeps its charge, need and result.       *)
LEMMA FreedRow ==
  ASSUME NEW r \in Row, NEW s \in States
  PROVE  /\ Freed(r, s) \in Row
         /\ Freed(r, s).state = s /\ Freed(r, s).lease = NoLease
         /\ Freed(r, s).worker = NoWorker
         /\ Freed(r, s).attempts = r.attempts
         /\ Freed(r, s).need = r.need /\ Freed(r, s).result = r.result
  BY LimitsAreNat DEF Freed, Row

LEMMA RefundedRow ==
  ASSUME NEW r \in Row
  PROVE  /\ Refunded(r) \in Row
         /\ Refunded(r).state = r.state /\ Refunded(r).lease = r.lease
         /\ Refunded(r).worker = r.worker /\ Refunded(r).need = r.need
         /\ Refunded(r).result = r.result
         /\ r.attempts > 0 => Refunded(r).attempts = r.attempts - 1
         /\ r.attempts = 0 => Refunded(r).attempts = 0
  BY LimitsAreNat DEF Refunded, Row

LEMMA ClaimedRow ==
  ASSUME NEW r \in Row, NEW w \in Workers, NEW l \in LeaseIds,
         NEW a \in 0..MaxAttempts
  PROVE  /\ Claimed(r, w, l, a) \in Row
         /\ Claimed(r, w, l, a).state = "leased" /\ Claimed(r, w, l, a).lease = l
         /\ Claimed(r, w, l, a).worker = w /\ Claimed(r, w, l, a).left = LeaseTTL
         /\ Claimed(r, w, l, a).attempts = a
         /\ Claimed(r, w, l, a).need = r.need /\ Claimed(r, w, l, a).result = r.result
  BY LimitsAreNat DEF Claimed, Row, States
-----------------------------------------------------------------------------
(* What lease() may do: R the resumes and F the fresh cases it took up, G  *)
(* those it granted, under ids.                                            *)

LeaseStep(p, R, F, G, ids) ==
  /\ R \subseteq disk[WorkerOf[p]] \cap Resumable(p)
  /\ F \subseteq Fresh(p) \ R
  /\ drain[WorkerOf[p]] => F = {}
  /\ G = {c \in R \cup F : ~Spent(p, c, R)}
  /\ ids \in [G -> UnusedLeases]
  /\ \A c, d \in G : ids[c] = ids[d] => c = d
  /\ Grant(p, R, F, ids)
  /\ Learn(p, G, ids) \/ UNCHANGED node
  /\ UNCHANGED <<quiet, refunds, engine, handed, burst, drain, mesh, told>>

LEMMA NothingOfNone ==
  ASSUME NEW S, NEW T \in SUBSET Cases, S \subseteq T, Cardinality(S) <= 0
  PROVE  S = {}
  <1>1. IsFiniteSet(S)
    BY FS_Subset, ConstantsAssumption DEF ConstantsAssumption
  <1>2. Cardinality(S) = 0
    BY <1>1, FS_CardinalityType
  <1> QED BY <1>1, <1>2, FS_EmptySet

LEMMA LeaseSteps ==
  ASSUME NEW p \in Procs, Lease(p)
  PROVE  \E R, F, G, ids : LeaseStep(p, R, F, G, ids)
  <1>1. PICK count \in 1..MaxCount, asked \in SUBSET disk[WorkerOf[p]] :
          /\ Cardinality(asked) <= count
          /\ LET R    == asked \cap Resumable(p)
                 gotR == {c \in R : ~Spent(p, c, R)}
                 room == IF drain[WorkerOf[p]] THEN 0 ELSE count - Cardinality(gotR)
             IN  \E F \in SUBSET (Fresh(p) \ R) :
                   LET granted == gotR \cup {c \in F : ~Spent(p, c, R)}
                   IN  /\ R \cup F # {}
                       /\ FirstOf(p, F, Fresh(p) \ R, room)
                       /\ \E ids \in [granted -> UnusedLeases] :
                            /\ \A c, d \in granted : ids[c] = ids[d] => c = d
                            /\ Grant(p, R, F, ids)
                            /\ \/ Learn(p, granted, ids)
                               \/ UNCHANGED node
    BY DEF Lease
  <1> DEFINE R == asked \cap Resumable(p)
             gotR == {c \in R : ~Spent(p, c, R)}
             room == IF drain[WorkerOf[p]] THEN 0 ELSE count - Cardinality(gotR)
  <1>2. PICK F \in SUBSET (Fresh(p) \ R) :
          LET granted == gotR \cup {c \in F : ~Spent(p, c, R)}
          IN  /\ FirstOf(p, F, Fresh(p) \ R, room)
              /\ \E ids \in [granted -> UnusedLeases] :
                   /\ \A c, d \in granted : ids[c] = ids[d] => c = d
                   /\ Grant(p, R, F, ids)
                   /\ \/ Learn(p, granted, ids)
                      \/ UNCHANGED node
    BY <1>1, Zenon
  <1> DEFINE G == {c \in R \cup F : ~Spent(p, c, R)}
  <1>3. G = gotR \cup {c \in F : ~Spent(p, c, R)}
    OBVIOUS
  <1>4. PICK ids \in [G -> UnusedLeases] :
          /\ \A c, d \in G : ids[c] = ids[d] => c = d
          /\ Grant(p, R, F, ids)
          /\ Learn(p, G, ids) \/ UNCHANGED node
    BY <1>2, <1>3, Zenon
  <1>5. drain[WorkerOf[p]] => F = {}
    <2> SUFFICES ASSUME drain[WorkerOf[p]] PROVE F = {}
      OBVIOUS
    <2>1. Cardinality(F) <= 0 /\ F \subseteq Fresh(p) \ R
      BY <1>2 DEF FirstOf
    <2>2. Fresh(p) \ R \in SUBSET Cases
      BY ConstantsAssumption DEF ConstantsAssumption, Fresh
    <2> QED BY <2>1, <2>2, NothingOfNone
  <1>6. UNCHANGED <<quiet, refunds, engine, handed, burst, drain, mesh, told>>
    BY DEF Lease
  <1>7. LeaseStep(p, R, F, G, ids)
    BY <1>4, <1>5, <1>6 DEF LeaseStep
  <1> QED BY <1>7, Zenon

(* What lease() makes of one row: a case it granted, one it found spent,   *)
(* and every other.                                                        *)
LEMMA GrantedRows ==
  ASSUME TypeOK, NEW p \in Procs, NEW R, NEW F, NEW G, NEW ids,
         LeaseStep(p, R, F, G, ids), NEW c \in Cases
  PROVE  /\ c \in G =>
              /\ row'[c] = Claimed(row[c], WorkerOf[p], ids[c], AttemptOf(p, c, R))
              /\ AttemptOf(p, c, R) \in 0..MaxAttempts
              /\ ids[c] \in UnusedLeases
         /\ c \in (R \cup F) \ G => row'[c] = Freed(row[c], "quarantined")
         /\ c \notin R \cup F => row'[c] = row[c]
         /\ c \in R \cup F => /\ Claimable(c) \/ (c \in R /\ Own(p, c))
                             /\ ~FailedHere(p, c)
         /\ G \subseteq R \cup F
  <1>1. /\ R \subseteq Resumable(p) /\ F \subseteq Fresh(p)
        /\ G = {d \in R \cup F : ~Spent(p, d, R)}
        /\ ids \in [G -> UnusedLeases]
        /\ Grant(p, R, F, ids)
    BY DEF LeaseStep
  <1>2. c \in R \cup F => /\ Claimable(c) \/ (c \in R /\ Own(p, c))
                        /\ ~FailedHere(p, c)
    BY <1>1 DEF Resumable, Fresh
  <1>3. row'[c] = IF c \in G
                    THEN Claimed(row[c], WorkerOf[p], ids[c], AttemptOf(p, c, R))
                    ELSE IF c \in (R \cup F) \ G THEN Freed(row[c], "quarantined")
                                               ELSE row[c]
    <2> DEFINE spent == {d \in R \cup F : Spent(p, d, R)}
               granted == (R \cup F) \ spent
    <2>1. row' = [d \in Cases |->
                   IF d \in granted
                     THEN Claimed(row[d], WorkerOf[p], ids[d], AttemptOf(p, d, R))
                     ELSE IF d \in spent THEN Freed(row[d], "quarantined")
                                         ELSE row[d]]
      BY <1>1 DEF Grant
    <2>2. granted = G /\ spent = (R \cup F) \ G
      BY <1>1
    <2> HIDE DEF spent, granted
    <2> QED BY <2>1, <2>2
  <1>4. c \in G => AttemptOf(p, c, R) \in 0..MaxAttempts
    <2>1. row[c].attempts \in 0..MaxAttempts
      BY DEF TypeOK, Row
    <2>2. c \in G => ~Spent(p, c, R)
      BY <1>1
    <2> QED BY <2>1, <2>2, LimitsAreNat DEF Spent, AttemptOf
  <1> QED BY <1>1, <1>2, <1>3, <1>4

-----------------------------------------------------------------------------
(* Types.                                                                  *)

LEMMA MemExcept ==
  ASSUME TypeOK, NEW p, NEW c, NEW b \in Belief
  PROVE  [mem EXCEPT ![p][c] = b] \in [Procs -> [Cases -> Belief]]
  BY DEF TypeOK

LEMMA CountersExcept ==
  ASSUME NEW n \in Nat, NEW f \in [Workers -> [Cases -> 0..n]], NEW w, NEW c
  PROVE  [f EXCEPT ![w][c] = n] \in [Workers -> [Cases -> 0..n]]
  <1>1. n \in 0..n
    OBVIOUS
  <1> DEFINE S == 0..n
  <1>2. f \in [Workers -> [Cases -> S]] /\ n \in S
    BY <1>1
  <1>3. [f EXCEPT ![w][c] = n] \in [Workers -> [Cases -> S]]
    <2> HIDE DEF S
    <2> QED BY <1>2
  <1> QED BY <1>3

LEMMA HeardTypes ==
  /\ \A l \in LeaseIds \cup {NoLease} : Heard(l) \in Belief
  /\ Forgotten \in Belief
  BY LimitsAreNat DEF Heard, Forgotten, Belief

LEMMA InitTypes == Init => TypeOK
  <1> SUFFICES ASSUME Init PROVE TypeOK
    OBVIOUS
  <1>1. NoRow \in Row
    BY LimitsAreNat DEF NoRow, Row, States
  <1> QED BY <1>1, HeardTypes, LimitsAreNat, WindowsAreNat DEF Init, TypeOK

LEMMA LeaseTypes ==
  ASSUME TypeOK, NEW p \in Procs, Lease(p)
  PROVE  TypeOK'
  <1>1. PICK R, F, G, ids : LeaseStep(p, R, F, G, ids)
    BY LeaseSteps
  <1> DEFINE w == WorkerOf[p]
  <1>2. w \in Workers
    BY ConstantsAssumption DEF ConstantsAssumption
  <1>3. ASSUME NEW c \in Cases PROVE row'[c] \in Row
    <2>1. row[c] \in Row
      BY DEF TypeOK
    <2>2. CASE c \in G
      BY <1>1, <1>2, <2>1, <2>2, GrantedRows, ClaimedRow DEF UnusedLeases
    <2>3. CASE c \notin G
      BY <1>1, <2>1, <2>3, GrantedRows, FreedRow DEF States
    <2> QED BY <2>2, <2>3
  <1>4. row' \in [Cases -> Row]
    BY <1>1, <1>3 DEF LeaseStep, Grant
  <1>5. cool' \in [Workers -> [Cases -> 0..FailCooldown]]
    BY <1>1, LimitsAreNat DEF LeaseStep, Grant, TypeOK
  <1>6. mem' \in [Procs -> [Cases -> Belief]] /\ disk' \in [Workers -> SUBSET Cases]
    <2>1. CASE UNCHANGED node
      BY <2>1 DEF TypeOK, node
    <2>2. CASE Learn(p, G, ids)
      <3>1. G \subseteq Cases /\ ids \in [G -> UnusedLeases]
        BY <1>1, ConstantsAssumption DEF ConstantsAssumption, LeaseStep, Resumable, Fresh
      <3>2. ASSUME NEW c \in G PROVE Heard(ids[c]) \in Belief
        BY <3>1, HeardTypes DEF UnusedLeases
      <3> QED BY <2>2, <1>2, <3>1, <3>2 DEF Learn, TypeOK
    <2> QED BY <1>1, <2>1, <2>2 DEF LeaseStep
  <1> QED BY <1>1, <1>4, <1>5, <1>6 DEF LeaseStep, TypeOK

LEMMA ForgetTypes ==
  ASSUME TypeOK, NEW p \in Procs, NEW c \in Cases, LetGo(p, c)
  PROVE  mem' \in [Procs -> [Cases -> Belief]] /\ disk' = disk
  <1>1. mem' = [mem EXCEPT ![p][c] = Forgotten] \/ UNCHANGED mem
    BY DEF LetGo, Forget
  <1>2. [mem EXCEPT ![p][c] = Forgotten] \in [Procs -> [Cases -> Belief]]
    BY MemExcept, HeardTypes
  <1>3. mem \in [Procs -> [Cases -> Belief]] /\ disk' = disk
    BY DEF TypeOK, LetGo
  <1> QED BY <1>1, <1>2, <1>3

LEMMA HeartbeatTypes ==
  ASSUME TypeOK, NEW p \in Procs, NEW c \in Cases, NEW line \in Lines,
         Heartbeat(p, c, line)
  PROVE  TypeOK'
  <1>1. row[c] \in Row
    BY DEF TypeOK
  <1>2. row' \in [Cases -> Row] /\ quiet' \in [Cases -> 0..NeverSpoke]
        /\ mem' \in [Procs -> [Cases -> Belief]] /\ disk' = disk
    <2>1. CASE row[c].age > MaxLeaseAge /\ ~StillProgressing(c, line)
      <3>1. /\ row' = [row EXCEPT ![c] = Freed(row[c], "pending")]
            /\ LetGo(p, c) /\ UNCHANGED quiet
        BY <2>1 DEF Heartbeat
      <3> QED BY <1>1, <3>1, FreedRow, ForgetTypes DEF TypeOK, States
    <2>2. CASE ~(row[c].age > MaxLeaseAge /\ ~StillProgressing(c, line))
      <3> DEFINE recorded == line = "new" \/ (line = "same" /\ ~row[c].spoke)
      <3>1. /\ row' = [row EXCEPT ![c].left = LeaseTTL, ![c].spoke = @ \/ recorded]
            /\ quiet' = IF recorded THEN [quiet EXCEPT ![c] = 0] ELSE quiet
            /\ \/ mem' = [mem EXCEPT ![p][c] = Heard(mem[p][c].lease)]
               \/ UNCHANGED mem
            /\ UNCHANGED disk
        BY <2>2 DEF Heartbeat
      <3>2. quiet' \in [Cases -> 0..NeverSpoke]
        BY <3>1, WindowsAreNat DEF TypeOK
      <3>3. mem' \in [Procs -> [Cases -> Belief]]
        <4>1. mem[p][c] \in Belief
          BY DEF TypeOK
        <4>2. Heard(mem[p][c].lease) \in Belief
          BY <4>1, HeardTypes DEF Belief
        <4>3. mem' = [mem EXCEPT ![p][c] = Heard(mem[p][c].lease)] \/ UNCHANGED mem
          BY <3>1
        <4>4. [mem EXCEPT ![p][c] = Heard(mem[p][c].lease)] \in [Procs -> [Cases -> Belief]]
          BY <4>2, MemExcept
        <4>5. mem \in [Procs -> [Cases -> Belief]]
          BY DEF TypeOK
        <4> QED BY <4>3, <4>4, <4>5
      <3>4. row' \in [Cases -> Row]
        <4>1. [row[c] EXCEPT !.left = LeaseTTL] \in Row
          BY <1>1, LimitsAreNat DEF Row
        <4>2. [[row[c] EXCEPT !.left = LeaseTTL] EXCEPT !.spoke = (row[c].spoke \/ recorded)] \in Row
          BY <1>1, <4>1 DEF Row
        <4>3. row' = [row EXCEPT ![c] = [[row[c] EXCEPT !.left = LeaseTTL]
                                         EXCEPT !.spoke = (row[c].spoke \/ recorded)]]
          BY <1>1, <3>1 DEF TypeOK, Row
        <4> QED BY <4>2, <4>3 DEF TypeOK
      <3> QED BY <3>1, <3>2, <3>3, <3>4
    <2> QED BY <2>1, <2>2
  <1> QED BY <1>2 DEF Heartbeat, TypeOK

LEMMA CompleteTypes ==
  ASSUME TypeOK, NEW p \in Procs, NEW c \in Cases, NEW r \in Results,
         Complete(p, c, r)
  PROVE  TypeOK'
  <1>1. row[c] \in Row
    BY DEF TypeOK
  <1>2. [Freed(row[c], "done") EXCEPT !.result = r] \in Row
    BY <1>1, FreedRow DEF Row, States
  <1>3. row' \in [Cases -> Row]
    BY <1>2 DEF Complete, TypeOK
  <1>4. mem' \in [Procs -> [Cases -> Belief]]
    <2>1. mem' = [mem EXCEPT ![p][c] = Forgotten] \/ UNCHANGED mem
      BY DEF Complete, Forget
    <2>2. [mem EXCEPT ![p][c] = Forgotten] \in [Procs -> [Cases -> Belief]]
      BY MemExcept, HeardTypes
    <2> QED BY <2>1, <2>2 DEF TypeOK
  <1>5. told' \in [Cases -> SUBSET Results]
    <2>1. told' = [told EXCEPT ![c] = told[c] \cup {r}] \/ UNCHANGED told
      BY DEF Complete
    <2>2. told \in [Cases -> SUBSET Results]
      BY DEF TypeOK
    <2>3. told[c] \cup {r} \in SUBSET Results
      BY <2>2
    <2>4. [told EXCEPT ![c] = told[c] \cup {r}] \in [Cases -> SUBSET Results]
      BY <2>2, <2>3
    <2> QED BY <2>1, <2>2, <2>4
  <1> QED BY <1>3, <1>4, <1>5 DEF Complete, TypeOK, trail

LEMMA TimedOutTypes ==
  ASSUME TypeOK, NEW p \in Procs, NEW c \in Cases, NEW error, TimedOut(p, c, error)
  PROVE  TypeOK'
  <1>1. row[c] \in Row
    BY DEF TypeOK
  <1>2. Refunded(Freed(row[c], "pending")) \in Row
    BY <1>1, FreedRow, RefundedRow DEF States
  <1>3. row' \in [Cases -> Row]
    BY <1>2 DEF TimedOut, TypeOK
  <1>4. refunds' \in [Cases -> 0..TimeoutRefunds]
    BY LimitsAreNat DEF TimedOut, RefundTimeout, TypeOK
  <1> QED BY <1>3, <1>4, ForgetTypes DEF TimedOut, TypeOK

LEMMA FailTypes ==
  ASSUME TypeOK, NEW p \in Procs, NEW c \in Cases, NEW error, NEW retryable \in BOOLEAN,
         Fail(p, c, error, retryable)
  PROVE  TypeOK'
  <1> DEFINE w == row[c].worker
             r == IF retryable /\ RefundEngine(c, error) THEN Refunded(row[c]) ELSE row[c]
             s == IF retryable /\ r.attempts < MaxAttempts THEN "pending" ELSE "quarantined"
  <1>1. row[c] \in Row
    BY DEF TypeOK
  <1>2. r \in Row
    BY <1>1, RefundedRow
  <1>3. s \in States
    BY DEF States
  <1>4. Freed(r, s) \in Row
    BY <1>2, <1>3, FreedRow
  <1>5. /\ row' = [row EXCEPT ![c] = Freed(r, s)]
        /\ cool' = [cool EXCEPT ![w][c] = FailCooldown]
        /\ burst' = [burst EXCEPT ![w][c] = BurstWindow]
        /\ drain' = [drain EXCEPT ![w] = drain[w] \/ Bursting(w, burst')]
    BY DEF Fail
  <1>6. row' \in [Cases -> Row]
    BY <1>4, <1>5 DEF TypeOK
  <1>7. cool' \in [Workers -> [Cases -> 0..FailCooldown]]
    <2>1. FailCooldown \in 0..FailCooldown
      BY LimitsAreNat
    <2>2. cool \in [Workers -> [Cases -> 0..FailCooldown]]
      BY DEF TypeOK
    <2> QED BY <1>5, <2>1, <2>2, CountersExcept, LimitsAreNat
  <1>8. burst' \in [Workers -> [Cases -> 0..BurstWindow]]
    <2>1. BurstWindow \in 0..BurstWindow
      BY LimitsAreNat
    <2>2. burst \in [Workers -> [Cases -> 0..BurstWindow]]
      BY DEF TypeOK
    <2> QED BY <1>5, <2>1, <2>2, CountersExcept, LimitsAreNat
  <1>9. drain' \in [Workers -> BOOLEAN]
    <2>1. (drain[w] \/ Bursting(w, burst')) \in BOOLEAN
      OBVIOUS
    <2> QED BY <1>5, <2>1 DEF TypeOK
  <1>10. engine' \in [Cases -> 0..EngineRefunds]
    BY LimitsAreNat DEF Fail, TypeOK
  <1> QED BY <1>6, <1>7, <1>8, <1>9, <1>10, ForgetTypes DEF Fail, TypeOK

LEMMA ReleaseTypes ==
  ASSUME TypeOK, NEW p \in Procs, NEW c \in Cases, NEW handoff \in BOOLEAN,
         Release(p, c, handoff)
  PROVE  TypeOK'
  <1>1. row[c] \in Row
    BY DEF TypeOK
  <1>2. Refunded(Freed(row[c], "pending")) \in Row
    BY <1>1, FreedRow, RefundedRow DEF States
  <1>3. row' \in [Cases -> Row]
    BY <1>2 DEF Release, TypeOK
  <1>4. handed' \in [Workers -> [Cases -> 0..HandoffCooldown]]
    <2>1. handed' = [handed EXCEPT ![row[c].worker][c] = HandoffCooldown] \/ UNCHANGED handed
      BY DEF Release
    <2>2. handed \in [Workers -> [Cases -> 0..HandoffCooldown]]
      BY DEF TypeOK
    <2>3. [handed EXCEPT ![row[c].worker][c] = HandoffCooldown]
            \in [Workers -> [Cases -> 0..HandoffCooldown]]
      BY <2>2, CountersExcept, LimitsAreNat
    <2> QED BY <2>1, <2>2, <2>3
  <1> QED BY <1>3, <1>4, ForgetTypes DEF Release, TypeOK

LEMMA TickTypes ==
  ASSUME TypeOK, Tick
  PROVE  TypeOK'
  <1>1. row' \in [Cases -> Row]
    <2> SUFFICES ASSUME NEW c \in Cases PROVE row'[c] \in Row
      BY DEF Tick
    <2>1. row[c] \in Row
      BY DEF TypeOK
    <2> DEFINE left == IF row[c].left > 0 - StaleAfter THEN row[c].left - 1 ELSE row[c].left
               age  == Older(row[c].age, MaxLeaseAge + 1)
    <2>2. left \in (0 - StaleAfter)..LeaseTTL /\ age \in 0..(MaxLeaseAge + 1)
      BY <2>1, LimitsAreNat DEF Row, Older
    <2>3. row'[c] = row[c] \/ row'[c] = [row[c] EXCEPT !.left = left, !.age = age]
      BY DEF Tick
    <2>4. [row[c] EXCEPT !.left = left] \in Row
      BY <2>1, <2>2 DEF Row
    <2>5. [[row[c] EXCEPT !.left = left] EXCEPT !.age = age] \in Row
      BY <2>2, <2>4 DEF Row
    <2>6. [row[c] EXCEPT !.left = left, !.age = age]
            = [[row[c] EXCEPT !.left = left] EXCEPT !.age = age]
      <3> HIDE DEF left, age
      <3> QED BY <2>1 DEF Row
    <2> HIDE DEF left, age
    <2> QED BY <2>1, <2>3, <2>5, <2>6
  <1>2. quiet' \in [Cases -> 0..NeverSpoke]
    <2> SUFFICES ASSUME NEW c \in Cases PROVE quiet'[c] \in 0..NeverSpoke
      BY DEF Tick
    <2>1. quiet'[c] = IF quiet[c] = NeverSpoke THEN NeverSpoke ELSE Older(quiet[c], LongAgo)
      BY DEF Tick
    <2>2. quiet[c] \in 0..NeverSpoke
      BY DEF TypeOK
    <2> QED BY <2>1, <2>2, WindowsAreNat DEF Older
  <1>3. ASSUME NEW n \in Nat, NEW f \in [Workers -> [Cases -> 0..n]]
        PROVE CountDown(f) \in [Workers -> [Cases -> 0..n]]
    BY DEF CountDown, Sooner
  <1>4. /\ cool' \in [Workers -> [Cases -> 0..FailCooldown]]
        /\ handed' \in [Workers -> [Cases -> 0..HandoffCooldown]]
        /\ burst' \in [Workers -> [Cases -> 0..BurstWindow]]
    BY <1>3, LimitsAreNat DEF Tick, TypeOK
  <1>5. mem' \in [Procs -> [Cases -> Belief]]
    <2> SUFFICES ASSUME NEW p \in Procs, NEW c \in Cases PROVE mem'[p][c] \in Belief
      BY DEF Tick
    <2>1. mem[p][c] \in Belief
      BY DEF TypeOK
    <2> DEFINE trust == IF mem[p][c].trust >= 0 THEN mem[p][c].trust - 1 ELSE mem[p][c].trust
    <2>2. mem'[p][c] = [mem[p][c] EXCEPT !.trust = trust]
      BY DEF Tick
    <2>3. trust \in (-1)..LeaseTTL
      BY <2>1, LimitsAreNat DEF Belief
    <2> QED BY <2>1, <2>2, <2>3 DEF Belief
  <1> QED BY <1>1, <1>2, <1>4, <1>5 DEF Tick, TypeOK

LEMMA PostTypes ==
  ASSUME TypeOK, NEW S \in SUBSET Cases, Post(S)
  PROVE  TypeOK'
  <1>1. ASSUME NEW c \in Cases
        PROVE [[NoRow EXCEPT !.state = "pending"] EXCEPT !.need = NeedOf[c]] \in Row
    <2>1. NoRow \in Row /\ NeedOf[c] \in Cases \cup {NoCase}
      BY LimitsAreNat, ConstantsAssumption DEF ConstantsAssumption, NoRow, Row, States
    <2>2. [NoRow EXCEPT !.state = "pending"] \in Row
      BY <2>1 DEF Row, States
    <2> QED BY <2>1, <2>2 DEF Row
  <1>2. row' \in [Cases -> Row]
    BY <1>1 DEF Post, TypeOK
  <1> QED BY <1>2 DEF Post, TypeOK, trail, node

LEMMA StatusTypes ==
  ASSUME TypeOK, Status
  PROVE  TypeOK'
  <1>1. ASSUME NEW c \in Cases PROVE row[c] \in Row /\ Freed(row[c], "pending") \in Row
    BY FreedRow DEF TypeOK, States
  <1>2. row' \in [Cases -> Row]
    BY <1>1 DEF Status
  <1> QED BY <1>2 DEF Status, TypeOK, trail, node

LEMMA RefusedTypes ==
  ASSUME TypeOK, NEW p \in Procs, NEW c \in Cases, Refused(p, c)
  PROVE  TypeOK'
  <1>1. mem' = [mem EXCEPT ![p][c] = Forgotten]
    BY DEF Refused, Forget
  <1>2. [mem EXCEPT ![p][c] = Forgotten] \in [Procs -> [Cases -> Belief]]
    BY MemExcept, HeardTypes
  <1> QED BY <1>1, <1>2 DEF Refused, TypeOK, trail

LEMMA CrashTypes ==
  ASSUME TypeOK, NEW p \in Procs, Crash(p)
  PROVE  TypeOK'
  <1>1. [d \in Cases |-> Forgotten] \in [Cases -> Belief]
    BY HeardTypes
  <1> QED BY <1>1 DEF Crash, TypeOK, trail

LEMMA MeshTypes ==
  ASSUME TypeOK, NEW c \in Cases,
         \/ \E p \in Procs : ReportMesh(p, c)
         \/ MeshStored(c) \/ MeshDropped(c) \/ PartsReset(c)
  PROVE  TypeOK'
  BY DEF ReportMesh, MeshStored, MeshDropped, PartsReset, SetMesh, TypeOK, trail, node

LEMMA DrainTypes ==
  ASSUME TypeOK, NEW w \in Workers, SetDrain(w) \/ Undrain(w)
  PROVE  TypeOK'
  <1>1. CASE SetDrain(w)
    BY <1>1 DEF SetDrain, TypeOK, trail, node
  <1>2. CASE Undrain(w)
    <2>1. [d \in Cases |-> 0] \in [Cases -> 0..BurstWindow]
      BY LimitsAreNat
    <2> QED BY <1>2, <2>1 DEF Undrain, TypeOK, node
  <1> QED BY <1>1, <1>2

LEMMA NextTypes == TypeOK /\ [Next]_vars => TypeOK'
  <1> SUFFICES ASSUME TypeOK, [Next]_vars PROVE TypeOK'
    OBVIOUS
  <1>1. CASE UNCHANGED vars
    BY <1>1 DEF vars, trail, node, TypeOK
  <1>2. ASSUME NEW p \in Procs, NEW c \in Cases, NodeCall(p, c) PROVE TypeOK'
    BY <1>2, RefusedTypes, HeartbeatTypes, CompleteTypes, TimedOutTypes, FailTypes,
       ReleaseTypes, MeshTypes DEF NodeCall
  <1>3. CASE Next
    <2>1. Resettable \subseteq Cases /\ Drainable \subseteq Workers
      BY ConstantsAssumption DEF ConstantsAssumption
    <2> QED BY <1>2, <1>3, <2>1, LeaseTypes, CrashTypes, MeshTypes, DrainTypes, PostTypes,
               StatusTypes, TickTypes DEF Next
  <1> QED BY <1>1, <1>3

(* Every variable keeps its type; in particular no case is ever charged    *)
(* more attempts than its budget, and no counter leaves its window.        *)
THEOREM TypeCorrect == Spec => []TypeOK
  <1> QED BY InitTypes, NextTypes, PTL DEF Spec

-----------------------------------------------------------------------------
(***************************************************************************)
(* Safety: the inductive invariant, that every case has the life CaseLife  *)
(* promises, and what the nodes may rely on.  Each step is first reduced   *)
(* to what it makes of one row (Edge) and of the leases nodes remember;    *)
(* the properties then follow from the edges.                              *)
(***************************************************************************)
(* What a step may make of one row.                                        *)

SameNeed(c)   == row'[c].need = row[c].need
SameResult(c) == row'[c].result = row[c].result
NoHolder(c)   == row'[c].lease = NoLease /\ row'[c].worker = NoWorker
Kept(c)       == row'[c].attempts \in {row[c].attempts, row[c].attempts - 1}

Still(c) ==
  /\ row'[c].state = row[c].state /\ row'[c].lease = row[c].lease
  /\ row'[c].worker = row[c].worker /\ row'[c].attempts = row[c].attempts
  /\ SameNeed(c) /\ SameResult(c)

Admitted(c) ==
  /\ row[c].state = "absent" /\ row'[c].state = "pending"
  /\ NoHolder(c) /\ row'[c].attempts = 0 /\ row'[c].result = NoResult

Leased(c) ==
  /\ row[c].state \in {"pending", "leased"} /\ row'[c].state = "leased"
  /\ row'[c].lease \in UnusedLeases /\ row'[c].worker \in Workers
  /\ \/ row'[c].attempts = row[c].attempts + 1
     \/ row[c].state = "leased" /\ row'[c].attempts = row[c].attempts
  /\ SameNeed(c) /\ SameResult(c)

LetFall(c) ==
  /\ row[c].state = "leased" /\ row'[c].state \in {"pending", "quarantined"}
  /\ NoHolder(c) /\ Kept(c) /\ SameNeed(c) /\ SameResult(c)

GivenUp(c) ==
  /\ row[c].state = "pending" /\ row'[c].state = "quarantined"
  /\ NoHolder(c) /\ Kept(c) /\ SameNeed(c) /\ SameResult(c)

Finished(c) ==
  /\ row[c].state = "leased" /\ row'[c].state = "done"
  /\ NoHolder(c) /\ row'[c].attempts = row[c].attempts
  /\ SameNeed(c) /\ row'[c].result \in Results

(* A call grants nothing but a lease's time; a tick takes time; lease()    *)
(* makes new leases.                                                       *)
Handled(c) ==
  \/ Still(c) /\ row'[c].left \in {row[c].left, LeaseTTL}
  \/ Admitted(c) \/ LetFall(c) \/ GivenUp(c) \/ Finished(c)
Plain(c) == Handled(c) \/ Still(c)
Edge(c)  == Plain(c) \/ Leased(c)

LEMMA FreedEdge ==
  ASSUME TypeOK, NEW c \in Cases, row[c].state = "leased",
         NEW s \in {"pending", "quarantined"},
         row'[c] = Freed(row[c], s) \/ row'[c] = Refunded(Freed(row[c], s))
  PROVE  LetFall(c)
  <1>1. row[c] \in Row /\ row[c].attempts \in Nat
    BY LimitsAreNat DEF TypeOK, Row
  <1>2. s \in States
    BY DEF States
  <1> QED BY <1>1, <1>2, FreedRow, RefundedRow
          DEF LetFall, NoHolder, Kept, SameNeed, SameResult

LEMMA LeaseEdges ==
  ASSUME TypeOK, NEW p \in Procs, Lease(p), NEW c \in Cases
  PROVE  Edge(c)
  <1>1. PICK R, F, G, ids : LeaseStep(p, R, F, G, ids)
    BY LeaseSteps
  <1>2. row[c] \in Row /\ WorkerOf[p] \in Workers
    BY ConstantsAssumption DEF TypeOK, ConstantsAssumption
  <1>3. CASE c \in G
    <2>1. /\ row'[c] = Claimed(row[c], WorkerOf[p], ids[c], AttemptOf(p, c, R))
          /\ AttemptOf(p, c, R) \in 0..MaxAttempts
          /\ ids[c] \in UnusedLeases
          /\ Claimable(c) \/ (c \in R /\ Own(p, c))
      BY <1>1, <1>3, GrantedRows
    <2>2. ids[c] \in LeaseIds
      BY <2>1 DEF UnusedLeases
    <2>3. row[c].state \in {"pending", "leased"}
      BY <2>1 DEF Claimable, Expired, Wedged, Own
    <2>4. \/ AttemptOf(p, c, R) = row[c].attempts + 1
          \/ row[c].state = "leased" /\ AttemptOf(p, c, R) = row[c].attempts
      BY DEF AttemptOf, Own
    <2>5. Leased(c)
      BY <1>2, <2>1, <2>2, <2>3, <2>4, ClaimedRow DEF Leased, SameNeed, SameResult
    <2> QED BY <2>5 DEF Edge
  <1>4. CASE c \in (R \cup F) \ G
    <2>1. row'[c] = Freed(row[c], "quarantined") /\ (Claimable(c) \/ Own(p, c))
      BY <1>1, <1>4, GrantedRows
    <2>2. row[c].state \in {"pending", "leased"}
      BY <2>1 DEF Claimable, Expired, Wedged, Own
    <2>3. LetFall(c) \/ GivenUp(c)
      BY <1>2, <2>1, <2>2, FreedRow DEF LetFall, GivenUp, NoHolder, Kept, SameNeed,
         SameResult, States
    <2> QED BY <2>3 DEF Edge, Plain, Handled
  <1>5. CASE c \notin R \cup F
    <2>1. row'[c] = row[c]
      BY <1>1, <1>5, GrantedRows
    <2> QED BY <2>1 DEF Edge, Plain, Handled, Still, SameNeed, SameResult
  <1> QED BY <1>3, <1>4, <1>5

LEMMA NodeCallSteps ==
  ASSUME TypeOK, NEW p \in Procs, NEW d \in Cases, NodeCall(p, d), NEW c \in Cases
  PROVE  Handled(c)
  <1>0. row[c] \in Row /\ row \in [Cases -> Row]
    BY DEF TypeOK
  <1>1. CASE row'[c] = row[c]
    BY <1>1 DEF Handled, Still, SameNeed, SameResult
  <1>2. ASSUME NEW line \in Lines, Heartbeat(p, d, line) PROVE Handled(c)
    <2>1. CASE row[d].age > MaxLeaseAge /\ ~StillProgressing(d, line)
      <3>1. row[d].state = "leased" /\ row' = [row EXCEPT ![d] = Freed(row[d], "pending")]
        BY <1>2, <2>1 DEF Heartbeat, Live
      <3>2. c # d => row'[c] = row[c]
        BY <3>1, <1>0
      <3>3. c = d => LetFall(c)
        BY <3>1, <1>0, FreedEdge
      <3> QED BY <1>1, <3>2, <3>3 DEF Handled
    <2>2. CASE ~(row[d].age > MaxLeaseAge /\ ~StillProgressing(d, line))
      <3>1. \E b : row' = [row EXCEPT ![d].left = LeaseTTL, ![d].spoke = b]
        BY <1>2, <2>2 DEF Heartbeat
      <3>2. Still(c) /\ row'[c].left \in {row[c].left, LeaseTTL}
        BY <3>1, <1>0 DEF Still, SameNeed, SameResult, Row
      <3> QED BY <3>2 DEF Handled
    <2> QED BY <2>1, <2>2
  <1>3. ASSUME NEW r \in Results, Complete(p, d, r) PROVE Handled(c)
    <2>1. CASE ~Live(p, d) \/ c # d
      BY <1>0, <1>1, <1>3, <2>1 DEF Complete
    <2>2. CASE Live(p, d) /\ c = d
      <3>1. row'[c] = [Freed(row[c], "done") EXCEPT !.result = r] /\ row[c].state = "leased"
        BY <1>0, <1>3, <2>2 DEF Complete, Live
      <3>2. Freed(row[c], "done") \in Row
        BY <1>0, FreedRow DEF States
      <3>3. Finished(c)
        BY <1>0, <3>1, <3>2, FreedRow DEF Finished, NoHolder, SameNeed, Row, States
      <3> QED BY <3>3 DEF Handled
    <2> QED BY <2>1, <2>2
  <1>4. ASSUME NEW error, TimedOut(p, d, error) PROVE Handled(c)
    <2>1. row[d].state = "leased" /\ row' = [row EXCEPT ![d] = Refunded(Freed(row[d], "pending"))]
      BY <1>4 DEF TimedOut, Live
    <2>2. c # d => row'[c] = row[c]
      BY <2>1, <1>0
    <2>3. c = d => LetFall(c)
      BY <2>1, <1>0, FreedEdge
    <2> QED BY <1>1, <2>2, <2>3 DEF Handled
  <1>5. ASSUME NEW error, NEW retryable \in BOOLEAN, Fail(p, d, error, retryable)
        PROVE Handled(c)
    <2> DEFINE r == IF retryable /\ RefundEngine(d, error) THEN Refunded(row[d]) ELSE row[d]
               s == IF retryable /\ r.attempts < MaxAttempts THEN "pending" ELSE "quarantined"
    <2>1. row[d].state = "leased" /\ row' = [row EXCEPT ![d] = Freed(r, s)]
      BY <1>5 DEF Fail, Live
    <2>2. c # d => row'[c] = row[c]
      BY <2>1, <1>0
    <2>3. c = d => LetFall(c)
      <3>1. row[d] \in Row /\ row[d].attempts \in Nat
        BY <1>0, LimitsAreNat DEF Row
      <3>2. /\ r \in Row /\ r.need = row[d].need /\ r.result = row[d].result
            /\ r.attempts \in {row[d].attempts, row[d].attempts - 1}
        BY <3>1, RefundedRow
      <3>3. s \in States /\ s \in {"pending", "quarantined"}
        BY DEF States
      <3> HIDE DEF r, s
      <3>4. c = d => row'[c] = Freed(r, s)
        BY <2>1, <1>0
      <3> QED BY <2>1, <3>2, <3>3, <3>4, FreedRow DEF LetFall, NoHolder, Kept, SameNeed, SameResult
    <2> QED BY <1>1, <2>2, <2>3 DEF Handled
  <1>6. ASSUME NEW handoff \in BOOLEAN, Release(p, d, handoff) PROVE Handled(c)
    <2>1. row[d].state = "leased" /\ row' = [row EXCEPT ![d] = Refunded(Freed(row[d], "pending"))]
      BY <1>6 DEF Release, Live
    <2>2. c # d => row'[c] = row[c]
      BY <2>1, <1>0
    <2>3. c = d => LetFall(c)
      BY <2>1, <1>0, FreedEdge
    <2> QED BY <1>1, <2>2, <2>3 DEF Handled
  <1>7. CASE Refused(p, d) \/ ReportMesh(p, d)
    BY <1>1, <1>7 DEF Refused, ReportMesh
  <1> QED BY <1>2, <1>3, <1>4, <1>5, <1>6, <1>7 DEF NodeCall

LEMMA CallSteps ==
  ASSUME TypeOK, [Next]_vars, ~Tick, ~\E p \in Procs : Lease(p), NEW c \in Cases
  PROVE  Handled(c)
  <1>0. row[c] \in Row
    BY DEF TypeOK
  <1>1. CASE row'[c] = row[c]
    BY <1>1 DEF Handled, Still, SameNeed, SameResult
  <1>2. CASE UNCHANGED vars \/ \E p \in Procs : Crash(p)
    BY <1>1, <1>2 DEF vars, Crash
  <1>3. CASE \/ \E d \in Cases : MeshStored(d) \/ MeshDropped(d) \/ PartsReset(d)
             \/ \E w \in Workers : SetDrain(w) \/ Undrain(w)
    BY <1>1, <1>3 DEF MeshStored, MeshDropped, PartsReset, SetMesh, SetDrain, Undrain
  <1>4. ASSUME NEW S \in SUBSET Cases, Post(S) PROVE Handled(c)
    <2>1. \/ row'[c] = row[c]
          \/ /\ row[c].state = "absent"
             /\ row'[c] = [NoRow EXCEPT !.state = "pending", !.need = NeedOf[c]]
      BY <1>4 DEF Post
    <2>2. CASE /\ row[c].state = "absent"
               /\ row'[c] = [NoRow EXCEPT !.state = "pending", !.need = NeedOf[c]]
      BY <2>2 DEF Handled, Admitted, NoHolder, NoRow
    <2> QED BY <1>1, <2>1, <2>2
  <1>5. CASE Status
    <2>1. row'[c] = row[c] \/ (row[c].state = "leased" /\ row'[c] = Freed(row[c], "pending"))
      BY <1>5 DEF Status, Stale
    <2> QED BY <1>1, <2>1, FreedEdge DEF Handled
  <1>6. Resettable \subseteq Cases /\ Drainable \subseteq Workers
    BY ConstantsAssumption DEF ConstantsAssumption
  <1>7. CASE Next
    BY <1>2, <1>3, <1>4, <1>5, <1>6, <1>7, NodeCallSteps DEF Next
  <1> QED BY <1>2, <1>7

LEMMA TickSteps ==
  ASSUME TypeOK, Tick, NEW c \in Cases
  PROVE  /\ Still(c)
         /\ row'[c].state = "leased" => row'[c].left >= row[c].left - 1
         /\ row'[c].state = "leased" /\ row[c].left > 0 - StaleAfter
              => row'[c].left = row[c].left - 1
  <1>0. row[c] \in Row /\ row[c].left \in Int
    BY LimitsAreNat DEF TypeOK, Row
  <1> DEFINE left == IF row[c].left > 0 - StaleAfter THEN row[c].left - 1 ELSE row[c].left
             age  == Older(row[c].age, MaxLeaseAge + 1)
  <1>1. row[c].state # "leased" => row'[c] = row[c]
    BY DEF Tick
  <1>2. row[c].state = "leased" => row'[c] = [row[c] EXCEPT !.left = left, !.age = age]
    BY DEF Tick
  <1>3. left >= row[c].left - 1 /\ (row[c].left > 0 - StaleAfter => left = row[c].left - 1)
    BY <1>0
  <1> HIDE DEF left, age
  <1>4. row[c].state = "leased" => Still(c) /\ row'[c].left = left
    BY <1>0, <1>2 DEF Still, SameNeed, SameResult, Row
  <1>5. row[c].state # "leased" => Still(c) /\ row'[c].state # "leased"
    BY <1>1 DEF Still, SameNeed, SameResult
  <1> QED BY <1>3, <1>4, <1>5

LEMMA PlainSteps ==
  ASSUME TypeOK, [Next]_vars, ~\E p \in Procs : Lease(p), NEW c \in Cases
  PROVE  Plain(c)
  BY CallSteps, TickSteps DEF Plain

LEMMA Edges ==
  ASSUME TypeOK, [Next]_vars, NEW c \in Cases
  PROVE  Edge(c)
  BY PlainSteps, LeaseEdges DEF Edge

-----------------------------------------------------------------------------
(* What a step may make of what the nodes remember.                        *)

Unlearnt(p, c)  == mem'[p][c] = mem[p][c] \/ mem'[p][c] = Forgotten
Refreshed(p, c) == mem'[p][c] = Heard(mem[p][c].lease) /\ row'[c].left = LeaseTTL
Ticked(p, c)    == Tick /\ mem'[p][c] = [mem[p][c] EXCEPT !.trust = IF @ >= 0 THEN @ - 1 ELSE @]

LEMMA MemSteps ==
  ASSUME TypeOK, [Next]_vars, ~\E p \in Procs : Lease(p),
         NEW p \in Procs, NEW c \in Cases
  PROVE  Unlearnt(p, c) \/ Refreshed(p, c) \/ Ticked(p, c)
  <1>0. mem \in [Procs -> [Cases -> Belief]] /\ row \in [Cases -> Row]
    BY DEF TypeOK
  <1>1. ASSUME UNCHANGED mem PROVE Unlearnt(p, c)
    BY <1>1 DEF Unlearnt
  <1>2. ASSUME NEW q \in Procs, NEW d \in Cases, Forget(q, d) PROVE Unlearnt(p, c)
    BY <1>0, <1>2 DEF Forget, Unlearnt
  <1>3. ASSUME NEW q \in Procs, NEW d \in Cases, NodeCall(q, d)
        PROVE  Unlearnt(p, c) \/ Refreshed(p, c)
    <2>1. ASSUME NEW line \in Lines, Heartbeat(q, d, line)
          PROVE  Unlearnt(p, c) \/ Refreshed(p, c)
      <3>1. CASE row[d].age > MaxLeaseAge /\ ~StillProgressing(d, line)
        BY <1>1, <1>2, <2>1, <3>1 DEF Heartbeat, LetGo
      <3>2. CASE ~(row[d].age > MaxLeaseAge /\ ~StillProgressing(d, line))
        <4>1. /\ \E b : row' = [row EXCEPT ![d].left = LeaseTTL, ![d].spoke = b]
              /\ mem' = [mem EXCEPT ![q][d] = Heard(mem[q][d].lease)] \/ UNCHANGED mem
          BY <2>1, <3>2 DEF Heartbeat
        <4>2. \/ mem'[p][c] = mem[p][c]
              \/ q = p /\ d = c /\ mem'[p][c] = Heard(mem[p][c].lease)
          BY <1>0, <4>1
        <4>3. row'[d].left = LeaseTTL
          BY <1>0, <4>1 DEF Row
        <4> QED BY <4>2, <4>3 DEF Unlearnt, Refreshed
      <3> QED BY <3>1, <3>2
    <2>2. ASSUME ~\E line \in Lines : Heartbeat(q, d, line)
          PROVE  Forget(q, d) \/ UNCHANGED mem
      BY <1>3, <2>2 DEF NodeCall, Refused, Complete, TimedOut, Fail, Release, ReportMesh,
         LetGo, node
    <2> QED BY <1>1, <1>2, <2>1, <2>2
  <1>4. ASSUME NEW q \in Procs, Crash(q) PROVE Unlearnt(p, c)
    BY <1>0, <1>4 DEF Crash, Unlearnt
  <1>5. CASE UNCHANGED vars
    BY <1>1, <1>5 DEF vars, node
  <1>6. CASE \/ \E d \in Cases : MeshStored(d) \/ MeshDropped(d) \/ PartsReset(d)
             \/ \E w \in Workers : SetDrain(w) \/ Undrain(w)
             \/ (\E S \in SUBSET Cases : Post(S)) \/ Status
    BY <1>1, <1>6 DEF MeshStored, MeshDropped, PartsReset, SetMesh, SetDrain, Undrain,
       Post, Status, node
  <1>7. CASE Tick
    BY <1>7 DEF Tick, Ticked
  <1>8. Resettable \subseteq Cases /\ Drainable \subseteq Workers
    BY ConstantsAssumption DEF ConstantsAssumption
  <1>9. CASE Next
    BY <1>3, <1>4, <1>6, <1>7, <1>8, <1>9 DEF Next
  <1> QED BY <1>5, <1>9

LEMMA NothingLearnt ==
  ASSUME TypeOK, [Next]_vars, ~\E p \in Procs : Lease(p),
         NEW p \in Procs, NEW c \in Cases
  PROVE  mem'[p][c].lease \in {mem[p][c].lease, NoLease}
  <1>1. mem[p][c] \in Belief
    BY DEF TypeOK
  <1>2. CASE Unlearnt(p, c)
    BY <1>2 DEF Unlearnt, Forgotten
  <1>3. CASE Refreshed(p, c)
    BY <1>3 DEF Refreshed, Heard
  <1>4. CASE Ticked(p, c)
    BY <1>1, <1>4 DEF Ticked, Belief
  <1> QED BY <1>2, <1>3, <1>4, MemSteps

(* A lease call makes its caller remember the leases it granted, or, when  *)
(* the answer is lost, nobody; and each granted row is its caller's.       *)
Remembers(p, G, ids) ==
  \A q \in Procs, c \in Cases :
    \/ mem'[q][c] = mem[q][c]
    \/ q = p /\ c \in G /\ mem'[q][c] = Heard(ids[c])

Grants(p, G, ids) ==
  /\ \A c \in G : /\ c \in Cases /\ ids[c] \in UnusedLeases
                 /\ row'[c].lease = ids[c] /\ row'[c].worker = WorkerOf[p]
                 /\ row'[c].left = LeaseTTL
  /\ \A c \in Cases \ G : row'[c] = row[c] \/ row'[c].lease = NoLease
  /\ \A c, d \in G : ids[c] = ids[d] => c = d

LEMMA Learnt ==
  ASSUME TypeOK, NEW p \in Procs, NEW R, NEW F, NEW G, NEW ids, LeaseStep(p, R, F, G, ids)
  PROVE  Remembers(p, G, ids) /\ Grants(p, G, ids)
  <1>1. G \subseteq Cases
    BY ConstantsAssumption DEF ConstantsAssumption, LeaseStep, Resumable, Fresh
  <1>2. Learn(p, G, ids) \/ UNCHANGED node
    BY DEF LeaseStep
  <1>3. ASSUME NEW q \in Procs, NEW c \in Cases
        PROVE  mem'[q][c] = mem[q][c] \/ (q = p /\ c \in G /\ mem'[q][c] = Heard(ids[c]))
    BY <1>2 DEF Learn, node, TypeOK
  <1>4. ASSUME NEW c \in G
        PROVE  /\ ids[c] \in UnusedLeases
               /\ row'[c].lease = ids[c] /\ row'[c].worker = WorkerOf[p]
               /\ row'[c].left = LeaseTTL
    <2>1. row[c] \in Row /\ WorkerOf[p] \in Workers /\ c \in Cases
      BY <1>1, ConstantsAssumption DEF TypeOK, ConstantsAssumption
    <2>2. /\ row'[c] = Claimed(row[c], WorkerOf[p], ids[c], AttemptOf(p, c, R))
          /\ AttemptOf(p, c, R) \in 0..MaxAttempts
          /\ ids[c] \in UnusedLeases
      BY <2>1, GrantedRows
    <2> QED BY <2>1, <2>2, ClaimedRow DEF UnusedLeases
  <1>5. ASSUME NEW c \in Cases \ G PROVE row'[c] = row[c] \/ row'[c].lease = NoLease
    <2>1. row'[c] = row[c] \/ row'[c] = Freed(row[c], "quarantined")
      BY <1>5, GrantedRows
    <2>2. row[c] \in Row
      BY DEF TypeOK
    <2> QED BY <2>1, <2>2, FreedRow DEF States
  <1>6. \A c, d \in G : ids[c] = ids[d] => c = d
    BY DEF LeaseStep
  <1> QED BY <1>1, <1>3, <1>4, <1>5, <1>6 DEF Remembers, Grants
-----------------------------------------------------------------------------
(* The inductive invariant.                                                *)

LEMMA InitInv == Init => QueueInv
  BY ConstantsAssumption
  DEF ConstantsAssumption, Init, QueueInv, RowsConsistent, LeaseOnce, ConfirmedResultStands,
      NoRow, Holding, Forgotten

LEMMA RowsKept ==
  ASSUME TypeOK, RowsConsistent, [Next]_vars
  PROVE  RowsConsistent'
  <1> SUFFICES ASSUME NEW c \in Cases
               PROVE  /\ row'[c].state = "leased" <=> row'[c].lease # NoLease
                      /\ row'[c].state = "leased" <=> row'[c].worker # NoWorker
                      /\ row'[c].state = "leased" => row'[c].attempts >= 1
                      /\ row'[c].state = "done" <=> row'[c].result # NoResult
                      /\ row'[c].state = "absent" => row'[c].attempts = 0
    BY DEF RowsConsistent
  <1>1. /\ row[c].state = "leased" <=> row[c].lease # NoLease
        /\ row[c].state = "leased" <=> row[c].worker # NoWorker
        /\ row[c].state = "leased" => row[c].attempts >= 1
        /\ row[c].state = "done" <=> row[c].result # NoResult
        /\ row[c].state = "absent" => row[c].attempts = 0
    BY DEF RowsConsistent
  <1>2. row[c].attempts \in Nat
    BY LimitsAreNat DEF TypeOK, Row
  <1>3. NoLease \notin UnusedLeases /\ NoWorker \notin Workers /\ NoResult \notin Results
    BY ConstantsAssumption DEF ConstantsAssumption, UnusedLeases
  <1> QED BY <1>1, <1>2, <1>3, Edges
          DEF Edge, Plain, Handled, Still, Admitted, Leased, LetFall, GivenUp, Finished, NoHolder,
              SameResult

LEMMA OnceKept ==
  ASSUME TypeOK, RowsConsistent, LeaseOnce, [Next]_vars
  PROVE  LeaseOnce'
  <1>1. CASE ~\E p \in Procs : Lease(p)
    <2>1. ASSUME NEW c \in Cases
          PROVE  \/ row'[c].lease = row[c].lease /\ row'[c].worker = row[c].worker
                 \/ row'[c].lease = NoLease
      BY <1>1, PlainSteps
      DEF Plain, Handled, Still, Admitted, LetFall, GivenUp, Finished, NoHolder
    <2>2. ASSUME NEW p \in Procs, NEW c \in Cases
          PROVE  mem'[p][c].lease \in {mem[p][c].lease, NoLease}
      BY <1>1, NothingLearnt
    <2> QED BY <2>1, <2>2 DEF LeaseOnce, Holding
  <1>2. ASSUME NEW p \in Procs, Lease(p) PROVE LeaseOnce'
    <2>1. PICK R, F, G, ids : LeaseStep(p, R, F, G, ids)
      BY <1>2, LeaseSteps
    <2>0. Remembers(p, G, ids) /\ Grants(p, G, ids)
      BY <2>1, Learnt
    <2>2. /\ \A c \in G : /\ c \in Cases /\ ids[c] \in UnusedLeases
                         /\ row'[c].lease = ids[c] /\ row'[c].worker = WorkerOf[p]
                         /\ row'[c].left = LeaseTTL
          /\ \A c \in Cases \ G : row'[c] = row[c] \/ row'[c].lease = NoLease
          /\ \A c, d \in G : ids[c] = ids[d] => c = d
      BY <2>0 DEF Grants
    <2>7. \A q \in Procs, c \in Cases :
            mem'[q][c] = mem[q][c] \/ (q = p /\ c \in G /\ mem'[q][c].lease = ids[c])
      <3>1. \A q \in Procs, c \in Cases :
              mem'[q][c] = mem[q][c] \/ (q = p /\ c \in G /\ mem'[q][c] = Heard(ids[c]))
        BY <2>0 DEF Remembers
      <3>2. \A l : Heard(l).lease = l
        BY DEF Heard
      <3> QED BY <3>1, <3>2
    <2>3. ASSUME NEW l \in UnusedLeases
          PROVE  /\ l # NoLease
                 /\ \A c \in Cases : l # row[c].lease
                 /\ \A q \in Procs, c \in Cases : l # mem[q][c].lease
      BY ConstantsAssumption DEF ConstantsAssumption, UnusedLeases
    <2>4. \A c, d \in Cases :
            row'[c].lease = row'[d].lease /\ row'[c].lease # NoLease => c = d
      BY <2>2, <2>3 DEF LeaseOnce
    <2>5. \A q, r \in Procs, c, d \in Cases :
            mem'[q][c].lease # NoLease /\ mem'[q][c].lease = mem'[r][d].lease
              => q = r /\ c = d
      BY <2>2, <2>3, <2>7 DEF LeaseOnce, Holding
    <2>6. \A q \in Procs, c, d \in Cases :
            mem'[q][c].lease # NoLease /\ row'[d].lease = mem'[q][c].lease
              => c = d /\ row'[d].worker = WorkerOf[q]
      BY <2>2, <2>3, <2>7 DEF LeaseOnce, Holding
    <2> QED BY <2>4, <2>5, <2>6 DEF LeaseOnce, Holding
  <1> QED BY <1>1, <1>2

LEMMA ToldSteps ==
  ASSUME TypeOK, [Next]_vars, NEW c \in Cases
  PROVE  \/ told'[c] = told[c]
         \/ \E p \in Procs, r \in Results : Complete(p, c, r) /\ told'[c] = told[c] \cup {r}
  <1>0. told \in [Cases -> SUBSET Results]
    BY DEF TypeOK
  <1>1. ASSUME NEW p \in Procs, NEW d \in Cases, NEW r \in Results, Complete(p, d, r)
        PROVE  told'[c] = told[c] \/ (d = c /\ told'[c] = told[c] \cup {r})
    BY <1>0, <1>1 DEF Complete
  <1>2. ASSUME NEW p \in Procs, NEW d \in Cases, NodeCall(p, d),
               ~\E r \in Results : Complete(p, d, r)
        PROVE  told' = told
    BY <1>2 DEF NodeCall, Refused, Heartbeat, TimedOut, Fail, Release, ReportMesh
  <1>3. ASSUME NEW p \in Procs, Lease(p) \/ Crash(p) PROVE told' = told
    BY <1>3 DEF Lease, Crash
  <1>4. CASE \/ \E d \in Cases : MeshStored(d) \/ MeshDropped(d) \/ PartsReset(d)
             \/ \E w \in Workers : SetDrain(w) \/ Undrain(w)
             \/ (\E S \in SUBSET Cases : Post(S)) \/ Status \/ Tick
    BY <1>4 DEF MeshStored, MeshDropped, PartsReset, SetMesh, SetDrain, Undrain, Post,
       Status, Tick
  <1>5. Resettable \subseteq Cases /\ Drainable \subseteq Workers
    BY ConstantsAssumption DEF ConstantsAssumption
  <1>6. CASE Next
    BY <1>1, <1>2, <1>3, <1>4, <1>5, <1>6 DEF Next
  <1>7. CASE UNCHANGED vars
    BY <1>7 DEF vars
  <1> QED BY <1>6, <1>7

LEMMA ConfirmedKept ==
  ASSUME TypeOK, RowsConsistent, ConfirmedResultStands, [Next]_vars
  PROVE  ConfirmedResultStands'
  <1> SUFFICES ASSUME NEW c \in Cases, NEW r \in told'[c]
               PROVE  row'[c].state = "done" /\ row'[c].result = r
    BY DEF ConfirmedResultStands
  <1>1. CASE r \in told[c]
    <2>1. row[c].state = "done" /\ row[c].result = r
      BY <1>1 DEF ConfirmedResultStands
    <2> QED BY <2>1, Edges
            DEF Edge, Plain, Handled, Still, Admitted, Leased, LetFall, GivenUp, Finished, SameResult
  <1>2. CASE r \notin told[c]
    <2>1. PICK p \in Procs : Complete(p, c, r)
      BY <1>2, ToldSteps
    <2>2. CASE Live(p, c)
      <3>1. row'[c] = [Freed(row[c], "done") EXCEPT !.result = r] /\ row[c] \in Row
        BY <2>1, <2>2 DEF Complete, TypeOK
      <3>2. Freed(row[c], "done") \in Row /\ Freed(row[c], "done").state = "done"
        BY <3>1, FreedRow DEF States
      <3> QED BY <3>1, <3>2 DEF Row
    <2>3. CASE ~Live(p, c)
      BY <2>1, <2>3 DEF Complete, Recorded
    <2> QED BY <2>2, <2>3
  <1> QED BY <1>1, <1>2

LEMMA QueueInvHolds == Spec => []QueueInv
  <1>1. QueueInv /\ TypeOK /\ [Next]_vars => QueueInv'
    BY RowsKept, OnceKept, ConfirmedKept DEF QueueInv
  <1> QED BY <1>1, InitInv, TypeCorrect, PTL DEF Spec

(* Of all the nodes that remember a lease of a case -- zombies, restarted  *)
(* nodes, nodes that lost an answer -- _by_lease answers at most one as    *)
(* its holder, and under its own worker id.                                *)
THEOREM HolderIsUnique == Spec => []OneHolder
  <1>1. QueueInv => OneHolder
    <2> SUFFICES ASSUME LeaseOnce, NEW c \in Cases, NEW p \in Procs, NEW q \in Procs,
                        Live(p, c), Live(q, c)
                 PROVE  p = q /\ row[c].worker = WorkerOf[p]
      BY DEF QueueInv, OneHolder
    <2>1. mem[p][c].lease = mem[q][c].lease /\ row[c].lease = mem[p][c].lease /\ Holding(p, c)
      BY DEF Live
    <2> QED BY <2>1 DEF LeaseOnce
  <1> QED BY <1>1, QueueInvHolds, PTL

(* A leased case was charged, and within its budget: the floor of zero     *)
(* under the refunds of fail() and release() is never reached.             *)
THEOREM LeasesAreCharged == Spec => []LeasedIsCharged
  <1>1. QueueInv /\ TypeOK => LeasedIsCharged
    BY LimitsAreNat DEF QueueInv, RowsConsistent, TypeOK, Row, LeasedIsCharged
  <1> QED BY <1>1, QueueInvHolds, TypeCorrect, PTL

(* complete() confirms a result only if it is, and then stays, the result  *)
(* of the case.                                                            *)
THEOREM ConfirmationsHold == Spec => []ConfirmedResultStands
  <1>1. QueueInv => ConfirmedResultStands
    BY DEF QueueInv
  <1> QED BY <1>1, QueueInvHolds, PTL

(* No call of the queue changes a done case or its result.                 *)
THEOREM ResultsAreFinal == Spec => DoneIsFinal
  <1>1. ASSUME TypeOK, [Next]_vars, NEW c \in Cases, row[c].state = "done"
        PROVE  row'[c].state = "done" /\ row'[c].result = row[c].result
    BY <1>1, Edges
    DEF Edge, Plain, Handled, Still, Admitted, Leased, LetFall, GivenUp, Finished, SameResult
  <1>2. TypeOK /\ [Next]_vars =>
          [\A c \in Cases : row[c].state = "done"
             => row'[c].state = "done" /\ row'[c].result = row[c].result]_vars
    BY <1>1
  <1> QED BY <1>2, TypeCorrect, PTL DEF Spec, DoneIsFinal

-----------------------------------------------------------------------------
(* Every case has the life CaseLife promises.                              *)

(* Each call of the queue, whatever else it does, moves each case along an *)
(* edge of the state machine that opens db.py, or not at all.              *)
THEOREM QueueImplementsLife == Spec => EveryCaseLives
  <1>1. ASSUME Init, NEW c \in Cases PROVE Life(c)!Init
    BY <1>1 DEF Init, NoRow, Life!Init
  <1>2. ASSUME TypeOK, TypeOK', RowsConsistent, [Next]_vars, NEW c \in Cases
        PROVE  Life(c)!Next \/ UNCHANGED Life(c)!vars
    <2>1. row[c].attempts \in Nat /\ row'[c].attempts \in 0..MaxAttempts
      BY <1>2, LimitsAreNat DEF TypeOK, Row
    <2>2. /\ row[c].state = "leased" => row[c].lease # NoLease
          /\ row[c].state = "absent" => /\ row[c].lease = NoLease /\ row[c].attempts = 0
                                        /\ row[c].result = NoResult
      BY <1>2 DEF RowsConsistent
    <2>3. CASE Still(c)
      BY <2>3 DEF Still, SameResult, Life!vars
    <2>4. CASE Admitted(c)
      BY <2>2, <2>4 DEF Admitted, NoHolder, Life!Next, Life!Admit
    <2>5. CASE Leased(c)
      <3>1. row'[c].lease \in LeaseIds \ {row[c].lease}
        BY <2>5 DEF Leased, UnusedLeases
      <3> QED BY <2>1, <2>5, <3>1 DEF Leased, SameResult, Life!Next, Life!Grant, Life!Resume,
              Life!Open
    <2>6. CASE LetFall(c) \/ GivenUp(c)
      BY <2>1, <2>6 DEF LetFall, GivenUp, NoHolder, Kept, SameResult, Life!Next,
         Life!HandBack, Life!GiveUp, Life!Kept, Life!Open
    <2>7. CASE Finished(c)
      BY <2>7 DEF Finished, NoHolder, Life!Next, Life!Finish
    <2> QED BY <1>2, <2>3, <2>4, <2>5, <2>6, <2>7, Edges DEF Edge, Plain, Handled
  <1>3. Init => \A c \in Cases : Life(c)!Init
    BY <1>1
  <1>4. TypeOK /\ TypeOK' /\ QueueInv /\ [Next]_vars =>
          [\A c \in Cases : Life(c)!Next \/ UNCHANGED Life(c)!vars]_vars
    BY <1>2 DEF QueueInv
  <1> QED BY <1>3, <1>4, TypeCorrect, QueueInvHolds, PTL DEF Spec, EveryCaseLives

-----------------------------------------------------------------------------
(* What a node may rely on while it trusts its lease.                      *)

LEMMA TrustKept ==
  ASSUME TypeOK, RowsConsistent, LeaseOnce, TrustIsBacked, [Next]_vars
  PROVE  TrustIsBacked'
  <1>1. TypeOK' /\ RowsConsistent'
    BY NextTypes, RowsKept
  <1> SUFFICES ASSUME NEW p \in Procs, NEW c \in Cases, Live(p, c)', mem'[p][c].trust >= 0
               PROVE  mem'[p][c].trust <= row'[c].left
    BY DEF TrustIsBacked, Trusts
  <1>2. /\ mem'[p][c].lease # NoLease /\ row'[c].state = "leased"
        /\ row'[c].lease = mem'[p][c].lease /\ row'[c].lease # NoLease
    BY DEF Live, Holding
  <1>3. /\ mem'[p][c].trust \in Int /\ mem'[p][c].trust <= LeaseTTL
        /\ mem[p][c] \in Belief /\ mem[p][c].trust \in Int /\ row'[c].left \in Int
        /\ mem[p][c].trust <= LeaseTTL /\ row[c].left \in Int /\ 0 - StaleAfter < 0
    BY <1>1, LimitsAreNat DEF TypeOK, Row, Belief
  <1>4. CASE row'[c].left = LeaseTTL
    BY <1>3, <1>4
  <1>5. ASSUME row'[c].lease = row[c].lease, mem'[p][c].lease = mem[p][c].lease,
               mem[p][c].trust >= 0
        PROVE  mem[p][c].trust <= row[c].left
    <2>1. row[c].state = "leased"
      BY <1>2, <1>5 DEF RowsConsistent
    <2>2. Live(p, c)
      BY <1>2, <1>5, <2>1 DEF Live, Holding
    <2> QED BY <1>5, <2>2 DEF TrustIsBacked, Trusts
  <1>6. ASSUME NEW q \in Procs, Lease(q) PROVE mem'[p][c].trust <= row'[c].left
    <2>1. PICK R, F, G, ids : LeaseStep(q, R, F, G, ids)
      BY <1>6, LeaseSteps
    <2>2. Remembers(q, G, ids) /\ Grants(q, G, ids)
      BY <2>1, Learnt
    <2>3. CASE c \in G
      BY <1>4, <2>2, <2>3 DEF Grants
    <2>4. CASE c \notin G
      <3>1. row'[c] = row[c] /\ mem'[p][c] = mem[p][c]
        BY <1>2, <2>2, <2>4 DEF Grants, Remembers
      <3> QED BY <1>5, <3>1
    <2> QED BY <2>3, <2>4
  <1>7. CASE Tick
    <2>1. /\ Still(c) /\ row'[c].left >= row[c].left - 1
          /\ row[c].left > 0 - StaleAfter => row'[c].left = row[c].left - 1
      BY <1>2, <1>7, TickSteps
    <2>2. mem'[p][c] = [mem[p][c] EXCEPT !.trust = IF @ >= 0 THEN @ - 1 ELSE @]
      BY <1>7 DEF Tick
    <2>3. /\ mem'[p][c].lease = mem[p][c].lease
          /\ mem'[p][c].trust = IF mem[p][c].trust >= 0 THEN mem[p][c].trust - 1
                                                       ELSE mem[p][c].trust
      BY <1>3, <2>2 DEF Belief
    <2>4. mem[p][c].trust >= 0 /\ mem'[p][c].trust = mem[p][c].trust - 1
      BY <1>3, <2>3
    <2>5. mem[p][c].trust <= row[c].left
      BY <1>5, <2>1, <2>3, <2>4 DEF Still
    <2> QED BY <1>3, <2>1, <2>4, <2>5
  <1>8. CASE ~Tick /\ ~\E q \in Procs : Lease(q)
    <2>1. Still(c) /\ row'[c].left \in {row[c].left, LeaseTTL}
      BY <1>2, <1>8, CallSteps
      DEF Handled, Admitted, LetFall, GivenUp, Finished
    <2>2. CASE Unlearnt(p, c)
      <3>1. mem'[p][c] = mem[p][c]
        BY <1>2, <2>2 DEF Unlearnt, Forgotten
      <3> QED BY <1>4, <1>5, <2>1, <3>1 DEF Still
    <2>3. CASE Refreshed(p, c)
      BY <1>4, <2>3 DEF Refreshed
    <2>4. ~Ticked(p, c)
      BY <1>8 DEF Ticked
    <2> QED BY <1>8, <2>2, <2>3, <2>4, MemSteps
  <1> QED BY <1>6, <1>7, <1>8

LEMMA TrustHolds == Spec => []TrustIsBacked
  <1>1. Init => TrustIsBacked
    BY DEF Init, TrustIsBacked, Trusts, Live, Holding, Forgotten
  <1>2. QueueInv /\ TypeOK /\ TrustIsBacked /\ [Next]_vars => TrustIsBacked'
    BY TrustKept DEF QueueInv
  <1> QED BY <1>1, <1>2, TypeCorrect, QueueInvHolds, PTL DEF Spec

(* A node inside the lease period of the last answer it heard loses its    *)
(* case to no other worker, by lease(), heartbeat() or status(), unless    *)
(* lease() finds the case wedged.                                          *)
THEOREM TrustedLeasesStand == Spec => TrustedLeaseStands
  <1>1. ASSUME TypeOK, QueueInv, TrustIsBacked, [Next]_vars, NEW p \in Procs, NEW c \in Cases,
               Trusts(p, c), row'[c].lease \notin {row[c].lease, NoLease}
        PROVE  row'[c].worker = WorkerOf[p] \/ Wedged(c)
    <2>1. PICK q \in Procs : Lease(q)
      <3>1. Plain(c) => row'[c].lease \in {row[c].lease, NoLease}
        BY DEF Plain, Handled, Still, Admitted, LetFall, GivenUp, Finished, NoHolder
      <3> QED BY <1>1, <3>1, PlainSteps
    <2>2. PICK R, F, G, ids : LeaseStep(q, R, F, G, ids)
      BY <2>1, LeaseSteps
    <2>3. Grants(q, G, ids)
      BY <1>1, <2>2, Learnt
    <2>4. c \in G
      BY <1>1, <2>3 DEF Grants
    <2>5. Claimable(c) \/ Own(q, c)
      BY <1>1, <2>2, <2>4, GrantedRows
    <2>6. row'[c].worker = WorkerOf[q]
      BY <2>3, <2>4 DEF Grants
    <2>7. row[c].state = "leased" /\ row[c].worker = WorkerOf[p]
      BY <1>1 DEF Trusts, Live, QueueInv, LeaseOnce
    <2>8. ~Expired(c)
      <3>1. mem[p][c].trust <= row[c].left /\ mem[p][c].trust >= 0
        BY <1>1 DEF TrustIsBacked, Trusts
      <3>2. mem[p][c].trust \in Int /\ row[c].left \in Int
        BY <1>1, LimitsAreNat DEF TypeOK, Row, Belief
      <3> QED BY <3>1, <3>2 DEF Expired
    <2> QED BY <2>5, <2>6, <2>7, <2>8 DEF Claimable, Own
  <1>2. TypeOK /\ QueueInv /\ TrustIsBacked /\ [Next]_vars =>
          [\A p \in Procs, c \in Cases :
             Trusts(p, c) /\ row'[c].lease \notin {row[c].lease, NoLease}
               => row'[c].worker = WorkerOf[p] \/ Wedged(c)]_vars
    BY <1>1
  <1> QED BY <1>2, TypeCorrect, QueueInvHolds, TrustHolds, PTL DEF Spec, TrustedLeaseStands

-----------------------------------------------------------------------------
(***************************************************************************)
(* Where the queue lets a case go: not back to the host it failed on, not  *)
(* before the case it is built on, and to no draining worker.              *)
(***************************************************************************)
(* Of a lease call, only a case it granted is leased to its caller, and it *)
(* was one of its resumes or of its fresh cases.                           *)
LEMMA PlacedByLease ==
  ASSUME TypeOK, RowsConsistent, NEW p \in Procs, NEW R, NEW F, NEW G, NEW ids,
         LeaseStep(p, R, F, G, ids), NEW c \in Cases
  PROVE  /\ c \in G => /\ row'[c].state = "leased" /\ row'[c].worker = WorkerOf[p]
                       /\ row'[c].need = row[c].need /\ ~FailedHere(p, c)
                       /\ c \in disk[WorkerOf[p]] \/ NeedMet(c)
                       /\ Own(p, c) \/ ~drain[WorkerOf[p]]
                       /\ \A w \in Workers : cool'[w][c] = cool[w][c]
         /\ c \notin G => \/ row'[c].state # "leased" /\ row'[c].worker = NoWorker
                          \/ row'[c] = row[c] /\ \A w \in Workers : cool'[w][c] = cool[w][c]
  <1>1. row[c] \in Row /\ WorkerOf[p] \in Workers
    BY ConstantsAssumption DEF TypeOK, ConstantsAssumption
  <1>2. cool' = [w \in Workers |-> [d \in Cases |->
                   IF d \in {e \in R \cup F : Spent(p, e, R)} /\ row[d].worker = w
                     THEN FailCooldown ELSE cool[w][d]]]
    BY DEF LeaseStep, Grant
  <1>3. G = {d \in R \cup F : ~Spent(p, d, R)}
    BY DEF LeaseStep
  <1>4. CASE c \in G
    <2>1. /\ row'[c] = Claimed(row[c], WorkerOf[p], ids[c], AttemptOf(p, c, R))
          /\ AttemptOf(p, c, R) \in 0..MaxAttempts
          /\ ids[c] \in UnusedLeases /\ ~FailedHere(p, c)
      BY <1>4, GrantedRows
    <2>2. row'[c].state = "leased" /\ row'[c].worker = WorkerOf[p] /\ row'[c].need = row[c].need
      BY <1>1, <2>1, ClaimedRow DEF UnusedLeases
    <2>3. \A w \in Workers : cool'[w][c] = cool[w][c]
      BY <1>2, <1>3, <1>4
    <2>4. CASE c \in F
      BY <1>4, <2>1, <2>2, <2>3, <2>4 DEF LeaseStep, Fresh
    <2>5. CASE c \in R
      BY <1>4, <2>1, <2>2, <2>3, <2>5 DEF LeaseStep, Resumable
    <2> QED BY <1>3, <1>4, <2>4, <2>5
  <1>5. CASE c \in (R \cup F) \ G
    <2>1. row'[c] = Freed(row[c], "quarantined")
      BY <1>5, GrantedRows
    <2> QED BY <1>1, <1>5, <2>1, FreedRow DEF States
  <1>6. CASE c \notin R \cup F
    <2>1. row'[c] = row[c] /\ c \notin G
      BY <1>3, <1>6, GrantedRows
    <2>2. \A w \in Workers : cool'[w][c] = cool[w][c]
      BY <1>2, <1>6
    <2> QED BY <2>1, <2>2
  <1> QED BY <1>4, <1>5, <1>6

(* A draining worker is granted only cases it already holds: lease() gives *)
(* it no fresh case, and of its own only those still leased to it.         *)
THEOREM DrainHolds == Spec => DrainedTakesNothingNew
  <1>1. ASSUME TypeOK, QueueInv, [Next]_vars, NEW c \in Cases, NEW w \in Workers,
               drain[w], row'[c].worker = w
        PROVE  row[c].worker = w
    <2>1. w # NoWorker
      BY ConstantsAssumption DEF ConstantsAssumption
    <2>2. CASE Plain(c)
      BY <1>1, <2>1, <2>2
      DEF Plain, Handled, Still, Admitted, LetFall, GivenUp, Finished, NoHolder
    <2>3. ASSUME NEW p \in Procs, Lease(p) PROVE row[c].worker = w
      <3>1. PICK R, F, G, ids : LeaseStep(p, R, F, G, ids)
        BY <2>3, LeaseSteps
      <3>2. RowsConsistent
        BY <1>1 DEF QueueInv
      <3>3. CASE c \in G
        BY <1>1, <3>1, <3>2, <3>3, PlacedByLease DEF Own
      <3>4. CASE c \notin G
        BY <1>1, <2>1, <3>1, <3>2, <3>4, PlacedByLease
      <3> QED BY <3>3, <3>4
    <2> QED BY <1>1, <2>2, <2>3, PlainSteps
  <1>2. TypeOK /\ QueueInv /\ [Next]_vars =>
          [\A c \in Cases, w \in Workers :
             drain[w] /\ row'[c].worker = w => row[c].worker = w]_vars
    BY <1>1
  <1> QED BY <1>2, TypeCorrect, QueueInvHolds, PTL DEF Spec, DrainedTakesNothingNew

-----------------------------------------------------------------------------
(* Three chances, three machines.                                          *)

(* What no lease call does to a cooldown: it counts down, or it starts     *)
(* with the case's failure.                                                *)
LEMMA CoolSteps ==
  ASSUME TypeOK, [Next]_vars, ~\E p \in Procs : Lease(p),
         NEW w \in Workers, NEW c \in Cases, row'[c].state = "leased", cool[w][c] = 0
  PROVE  cool'[w][c] = 0
  <1>0. /\ cool \in [Workers -> [Cases -> 0..FailCooldown]] /\ row[c] \in Row
        /\ row \in [Cases -> Row]
    BY DEF TypeOK
  <1>1. CASE UNCHANGED cool
    BY <1>1
  <1>2. ASSUME NEW p \in Procs, NEW d \in Cases, NodeCall(p, d) PROVE cool'[w][c] = 0
    <2>1. ASSUME NEW error, NEW retryable \in BOOLEAN, Fail(p, d, error, retryable)
          PROVE  cool'[w][c] = 0
      <3>1. cool' = [cool EXCEPT ![row[d].worker][d] = FailCooldown]
        BY <2>1 DEF Fail
      <3> DEFINE r == IF retryable /\ RefundEngine(d, error) THEN Refunded(row[d]) ELSE row[d]
                 s == IF retryable /\ r.attempts < MaxAttempts THEN "pending"
                                                              ELSE "quarantined"
      <3>2. row' = [row EXCEPT ![d] = Freed(r, s)] /\ s # "leased"
        BY <2>1 DEF Fail
      <3> HIDE DEF r, s
      <3>3. c # d
        BY <1>0, <3>2 DEF Freed
      <3> QED BY <1>0, <3>1, <3>3
    <2>2. CASE Refused(p, d) \/ ReportMesh(p, d) \/ \E r \in Results : Complete(p, d, r)
      BY <1>1, <2>2 DEF Refused, Complete, ReportMesh, trail
    <2>3. CASE \/ \E line \in Lines : Heartbeat(p, d, line)
               \/ \E error \in FailureKinds : TimedOut(p, d, error)
               \/ \E handoff \in BOOLEAN : Release(p, d, handoff)
      BY <1>1, <2>3 DEF Heartbeat, TimedOut, Release
    <2> QED BY <1>2, <2>1, <2>2, <2>3 DEF NodeCall
  <1>3. CASE Tick
    <2>1. cool'[w][c] = Sooner(cool[w][c])
      BY <1>3 DEF Tick, CountDown
    <2> QED BY <2>1 DEF Sooner
  <1>4. CASE \/ \E d \in Cases : MeshStored(d) \/ MeshDropped(d) \/ PartsReset(d)
             \/ \E v \in Workers : SetDrain(v) \/ Undrain(v)
             \/ (\E p \in Procs : Crash(p)) \/ (\E S \in SUBSET Cases : Post(S))
             \/ Status \/ UNCHANGED vars
    BY <1>1, <1>4 DEF MeshStored, MeshDropped, PartsReset, SetMesh, SetDrain, Undrain, Crash,
       Post, Status, vars, trail
  <1>5. Resettable \subseteq Cases /\ Drainable \subseteq Workers
    BY ConstantsAssumption DEF ConstantsAssumption
  <1>6. CASE Next
    BY <1>2, <1>3, <1>4, <1>5, <1>6 DEF Next
  <1> QED BY <1>4, <1>6

LEMMA ElsewhereKept ==
  ASSUME TypeOK, RowsConsistent, FailedElsewhere, [Next]_vars
  PROVE  FailedElsewhere'
  <1> SUFFICES ASSUME NEW c \in Cases, NEW w \in Workers, row'[c].state = "leased",
                      HostOf[w] = HostOf[row'[c].worker]
               PROVE  cool'[w][c] = 0
    BY DEF FailedElsewhere
  <1>1. cool[w][c] \in Nat
    BY LimitsAreNat DEF TypeOK
  <1>2. CASE ~\E p \in Procs : Lease(p)
    <2>1. Still(c)
      BY <1>2, PlainSteps DEF Plain, Handled, Admitted, LetFall, GivenUp, Finished
    <2>2. cool[w][c] = 0
      BY <2>1 DEF Still, FailedElsewhere
    <2> QED BY <1>2, <2>2, CoolSteps
  <1>3. ASSUME NEW p \in Procs, Lease(p) PROVE cool'[w][c] = 0
    <2>1. PICK R, F, G, ids : LeaseStep(p, R, F, G, ids)
      BY <1>3, LeaseSteps
    <2>2. CASE c \in G
      <3>1. /\ row'[c].worker = WorkerOf[p] /\ ~FailedHere(p, c)
            /\ cool'[w][c] = cool[w][c]
        BY <2>1, <2>2, PlacedByLease
      <3> QED BY <1>1, <3>1 DEF FailedHere, Housemates
    <2>3. CASE c \notin G
      <3>1. row'[c] = row[c] /\ cool'[w][c] = cool[w][c]
        BY <2>1, <2>3, PlacedByLease
      <3> QED BY <3>1 DEF FailedElsewhere
    <2> QED BY <2>2, <2>3
  <1> QED BY <1>2, <1>3

(* While a host's failure of a case is recent, by fail() or by a lease     *)
(* found spent, no worker of that host is handed the case or keeps it.     *)
THEOREM FailuresGoElsewhere == Spec => []FailedElsewhere
  <1>1. Init => FailedElsewhere
    BY DEF Init, NoRow, FailedElsewhere
  <1>2. QueueInv /\ TypeOK /\ FailedElsewhere /\ [Next]_vars => FailedElsewhere'
    BY ElsewhereKept DEF QueueInv
  <1> QED BY <1>1, <1>2, TypeCorrect, QueueInvHolds, PTL DEF Spec

-----------------------------------------------------------------------------
(* A case waits for what it is built on.                                   *)

(* What was met stays met: a done case stays done, and a posted case's     *)
(* need is never rewritten.                                                *)
LEMMA NeedStaysMet ==
  ASSUME TypeOK, [Next]_vars, NEW c \in Cases, row[c].state # "absent", NeedMet(c)
  PROVE  row'[c].state # "absent" /\ NeedMet(c)'
  <1>1. row'[c].state # "absent" /\ row'[c].need = row[c].need
    BY Edges
    DEF Edge, Plain, Handled, Still, Admitted, Leased, LetFall, GivenUp, Finished, SameNeed
  <1>2. CASE row[c].need = NoCase
    BY <1>1, <1>2 DEF NeedMet
  <1>3. CASE row[c].need # NoCase
    <2>1. row[c].need \in Cases /\ row[row[c].need].state = "done"
      BY <1>3 DEF TypeOK, Row, NeedMet
    <2>2. row'[row[c].need].state = "done"
      BY <2>1, Edges
      DEF Edge, Plain, Handled, Still, Admitted, Leased, LetFall, GivenUp, Finished
    <2> QED BY <1>1, <2>2 DEF NeedMet
  <1> QED BY <1>2, <1>3

NeedsInv == NeedsFirst /\ DiskNeedsMet

LEMMA GrantsMeetNeeds ==
  ASSUME TypeOK, RowsConsistent, DiskNeedsMet, NEW p \in Procs, NEW R, NEW F, NEW G, NEW ids,
         LeaseStep(p, R, F, G, ids), NEW c \in G
  PROVE  c \in Cases /\ row[c].state # "absent" /\ NeedMet(c)
  <1>1. G \subseteq Cases /\ G \subseteq R \cup F /\ WorkerOf[p] \in Workers
    BY ConstantsAssumption DEF ConstantsAssumption, LeaseStep, Resumable, Fresh
  <1>2. Claimable(c) \/ Own(p, c)
    BY <1>1, GrantedRows
  <1>3. c \in disk[WorkerOf[p]] \/ NeedMet(c)
    BY <1>1, PlacedByLease
  <1> QED BY <1>1, <1>2, <1>3 DEF DiskNeedsMet, Claimable, Own, Expired, Wedged

LEMMA NeedsKept ==
  ASSUME TypeOK, RowsConsistent, NeedsInv, [Next]_vars
  PROVE  NeedsInv'
  <1>0. NeedsFirst /\ DiskNeedsMet /\ disk \in [Workers -> SUBSET Cases]
    BY DEF NeedsInv, TypeOK
  <1>1. ASSUME NEW c \in Cases, row[c].state = "leased" PROVE NeedMet(c)
    BY <1>0, <1>1 DEF NeedsFirst, NeedMet
  <1>2. ASSUME NEW c \in Cases, row'[c].state = "leased"
        PROVE  row'[c].need # NoCase => row'[row'[c].need].state = "done"
    <2>1. row[c].state # "absent" /\ NeedMet(c)
      <3>1. CASE ~\E p \in Procs : Lease(p)
        <4>1. row[c].state = "leased"
          BY <1>2, <3>1, PlainSteps
          DEF Plain, Handled, Still, Admitted, LetFall, GivenUp, Finished
        <4> QED BY <1>1, <4>1
      <3>2. ASSUME NEW p \in Procs, Lease(p) PROVE row[c].state # "absent" /\ NeedMet(c)
        <4>1. PICK R, F, G, ids : LeaseStep(p, R, F, G, ids)
          BY <3>2, LeaseSteps
        <4>2. CASE c \in G
          BY <1>0, <4>1, <4>2, GrantsMeetNeeds
        <4>3. CASE c \notin G
          <5>1. row[c].state = "leased"
            BY <1>2, <4>1, <4>3, PlacedByLease
          <5> QED BY <1>1, <5>1
        <4> QED BY <4>2, <4>3
      <3> QED BY <3>1, <3>2
    <2>2. NeedMet(c)'
      BY <2>1, NeedStaysMet
    <2> QED BY <2>2 DEF NeedMet
  <1>3. ASSUME NEW w \in Workers, NEW c \in disk'[w]
        PROVE  row'[c].state # "absent" /\ NeedMet(c)'
    <2>1. c \in Cases /\ row[c].state # "absent" /\ NeedMet(c)
      <3>1. CASE c \in disk[w]
        BY <1>0, <3>1 DEF DiskNeedsMet
      <3>2. CASE c \notin disk[w]
        <4>1. PICK p \in Procs : Lease(p)
          <5>1. ~UNCHANGED disk
            BY <3>2, <1>3
          <5>2. Resettable \subseteq Cases /\ Drainable \subseteq Workers
            BY ConstantsAssumption DEF ConstantsAssumption
          <5>3. ASSUME NEW p \in Procs, NEW d \in Cases, NodeCall(p, d) PROVE UNCHANGED disk
            BY <5>3 DEF NodeCall, Refused, Heartbeat, Complete, TimedOut, Fail, Release,
               ReportMesh, LetGo, node
          <5>4. (\/ \E p \in Procs : Crash(p)
                 \/ \E d \in Cases : MeshStored(d) \/ MeshDropped(d) \/ PartsReset(d)
                 \/ \E v \in Workers : SetDrain(v) \/ Undrain(v)
                 \/ (\E S \in SUBSET Cases : Post(S)) \/ Status \/ Tick \/ UNCHANGED vars)
                => UNCHANGED disk
            BY DEF Crash, MeshStored, MeshDropped, PartsReset, SetMesh, SetDrain, Undrain, Post,
               Status, Tick, vars, node
          <5> QED BY <5>1, <5>2, <5>3, <5>4 DEF Next
        <4>2. PICK R, F, G, ids : LeaseStep(p, R, F, G, ids)
          BY <4>1, LeaseSteps
        <4>3. c \in G
          <5>1. Learn(p, G, ids) \/ UNCHANGED node
            BY <4>2 DEF LeaseStep
          <5>2. disk' = [disk EXCEPT ![WorkerOf[p]] = disk[WorkerOf[p]] \cup G]
                \/ UNCHANGED disk
            BY <5>1 DEF Learn, node
          <5> QED BY <1>0, <1>3, <3>2, <5>2
        <4> QED BY <1>0, <4>2, <4>3, GrantsMeetNeeds
      <3> QED BY <3>1, <3>2
    <2> QED BY <2>1, NeedStaysMet
  <1>4. NeedsFirst'
    BY <1>2 DEF NeedsFirst
  <1>5. DiskNeedsMet'
    BY <1>3 DEF DiskNeedsMet
  <1> QED BY <1>4, <1>5 DEF NeedsInv

(* Nothing is worked on before the case it needs is done, though lease()   *)
(* checks needs for fresh cases only and hands resumes out unchecked.      *)
THEOREM NeedsComeFirst == Spec => []NeedsFirst
  <1>1. Init => NeedsInv
    BY DEF Init, NoRow, NeedsInv, NeedsFirst, DiskNeedsMet
  <1>2. QueueInv /\ TypeOK /\ NeedsInv /\ [Next]_vars => NeedsInv'
    BY NeedsKept DEF QueueInv
  <1>3. NeedsInv => NeedsFirst
    BY DEF NeedsInv
  <1> QED BY <1>1, <1>2, <1>3, TypeCorrect, QueueInvHolds, PTL DEF Spec
=============================================================================
