-------------------------- MODULE PgSessionsProofs --------------------------
(***************************************************************************)
(* Proofs about module PgSessions: a call that was answered is committed   *)
(* once and one that failed not at all, and a session comes back with no   *)
(* transaction open, for every number of sessions, calls, retries and      *)
(* faults.                                                                 *)
(*                                                                         *)
(* The inductive invariant says of each session what its server holds open *)
(* and how far its call has come (SessionAt), and of each call outside     *)
(* autocommit what of it is committed (WrittenAt).                         *)
(***************************************************************************)
EXTENDS PgSessions, TLAPS

Going == Statements \cup {"aborted", "raised", "unheard", "again", "leaves", "unsure", "done"}
Over  == {"called", "answered", "failed", "unknown"}

(* The type invariant.                                                     *)
SessionsTypeOK ==
  /\ link \in [Sessions -> {"none", "up", "dead", "closed"}]
  /\ inTx \in [Sessions -> BOOLEAN]
  /\ repair \in [Sessions -> BOOLEAN]
  /\ pending \in [Sessions -> [open : BOOLEAN, holds : SUBSET (Calls \X Writes)]]
  /\ holder \in [Sessions -> Calls \cup {"nobody"}]
  /\ call \in [Calls -> [at : Going \cup Over, attempt : Nat]]
  /\ written \in [Calls -> [Writes -> 0 .. 2]]
  /\ mishaps \in Nat

(* What the server holds of a transaction before its next statement.       *)
Before(c, at) ==
  IF at = "1" THEN {} ELSE IF at = "2" THEN {<<c, 1>>} ELSE {<<c, 1>>, <<c, 2>>}

(* A transaction is open on the server exactly when the client is in one   *)
(* and the connection lives; it then holds the writes of the call so far.  *)
SessionAt(s) ==
  /\ pending[s].open <=> inTx[s] /\ link[s] = "up"
  /\ ~pending[s].open => pending[s].holds = {}
  /\ holder[s] = "nobody" => ~inTx[s]
  /\ holder[s] # "nobody" => call[holder[s]].at \in Going
  /\ \A e \in pending[s].holds : e[1] = holder[s]

CallAt(s) ==
  holder[s] \notin Autocommit \cup {"nobody"} =>
    LET at == call[holder[s]].at
    IN /\ at = "begin" => ~inTx[s]
       /\ at \in {"1", "2", "commit"} =>
            inTx[s] /\ (pending[s].open => pending[s].holds = Before(holder[s], at))
       /\ at = "unheard" => link[s] # "up"

(* All of a call is committed once it has its answer, and nothing of it    *)
(* while its COMMIT is not under way, or after it failed; and in between   *)
(* all of it or nothing.                                                   *)
Settled == {"done", "answered"}
Open    == {"unheard", "unsure", "unknown"}

WrittenAt(c) ==
  c \notin Autocommit =>
    /\ \E n \in 0 .. 1 : \A w \in Writes : written[c][w] = n
    /\ call[c].at \in Settled => \A w \in Writes : written[c][w] = 1
    /\ call[c].at \notin Settled \cup Open => \A w \in Writes : written[c][w] = 0

OneSessionEach ==
  \A r, s \in Sessions : holder[r] = holder[s] => r = s \/ holder[s] = "nobody"

SessionsInv ==
  /\ SessionsTypeOK
  /\ \A s \in Sessions : SessionAt(s) /\ CallAt(s)
  /\ \A c \in Calls : WrittenAt(c)
  /\ OneSessionEach

-----------------------------------------------------------------------------
(* Where a call goes, and what a lost connection leaves, are of their type.*)
LEMMA MovesType ==
  ASSUME SessionsTypeOK, NEW c \in Calls, NEW at \in Going \cup Over, Moves(c, at)
  PROVE  call' \in [Calls -> [at : Going \cup Over, attempt : Nat]]
BY DEF SessionsTypeOK, Moves

LEMMA DropsType ==
  ASSUME SessionsTypeOK, NEW s \in Sessions, NEW to \in {"up", "dead", "closed"}, Drops(s, to)
  PROVE  /\ link' \in [Sessions -> {"none", "up", "dead", "closed"}]
         /\ pending' \in [Sessions -> [open : BOOLEAN, holds : SUBSET (Calls \X Writes)]]
BY DEF SessionsTypeOK, Drops, Closed

(* What no step of a call c on a session s changes: the other sessions and *)
(* the other calls.                                                        *)
ElsewhereSame(c, s) ==
  /\ \A r \in Sessions \ {s} : /\ link'[r] = link[r] /\ inTx'[r] = inTx[r]
                               /\ pending'[r] = pending[r] /\ holder'[r] = holder[r]
  /\ \A d \in Calls \ {c} : call'[d] = call[d] /\ written'[d] = written[d]

(* The step of a call on its own session keeps the invariant when it keeps *)
(* the types and what is said of that session and that call.               *)
LEMMA OwnStep ==
  ASSUME SessionsInv, NEW c \in Calls, NEW s \in Sessions,
         holder[s] = c \/ (holder[s] = "nobody" /\ call[c].at = "called"),
         holder'[s] \in {c, "nobody"}, ElsewhereSame(c, s),
         SessionsTypeOK', SessionAt(s)', CallAt(s)', WrittenAt(c)'
  PROVE  SessionsInv'
<1> USE SessionsAssumption DEF SessionsAssumption
<1>1. \A r \in Sessions \ {s} : holder[r] # c
  <2> SUFFICES ASSUME NEW r \in Sessions \ {s}, holder[r] = c PROVE FALSE
    OBVIOUS
  <2>1. CASE holder[s] = c
    BY <2>1 DEF SessionsInv, OneSessionEach
  <2>2. CASE call[c].at = "called"
    <3>1. call[c].at \in Going
      BY DEF SessionsInv, SessionAt
    <3>. QED BY <2>2, <3>1 DEF Going, Statements
  <2>. QED BY <2>1, <2>2
<1>2. \A r \in Sessions \ {s} : SessionAt(r)' /\ CallAt(r)'
  <2> SUFFICES ASSUME NEW r \in Sessions \ {s} PROVE SessionAt(r)' /\ CallAt(r)'
    OBVIOUS
  <2>1. /\ link'[r] = link[r] /\ inTx'[r] = inTx[r]
        /\ pending'[r] = pending[r] /\ holder'[r] = holder[r]
    BY DEF ElsewhereSame
  <2>2. holder[r] # "nobody" => call'[holder[r]] = call[holder[r]]
    BY <1>1 DEF ElsewhereSame, SessionsInv, SessionsTypeOK
  <2>3. SessionAt(r) /\ CallAt(r)
    BY DEF SessionsInv
  <2>. QED BY <2>1, <2>2, <2>3 DEF SessionAt, CallAt
<1>3. \A d \in Calls \ {c} : WrittenAt(d)'
  BY DEF SessionsInv, ElsewhereSame, WrittenAt
<1>4. OneSessionEach'
  BY <1>1 DEF SessionsInv, OneSessionEach, ElsewhereSame
<1>. QED BY <1>2, <1>3, <1>4 DEF SessionsInv

LEMMA SessionsInitInv == SessionsInit => SessionsInv
<1> USE SessionsAssumption DEF SessionsAssumption
<1> SUFFICES ASSUME SessionsInit PROVE SessionsInv
  OBVIOUS
<1>1. SessionsTypeOK
  BY DEF SessionsInit, SessionsTypeOK, Going, Over, Closed, Writes
<1>2. \A s \in Sessions : SessionAt(s) /\ CallAt(s)
  BY DEF SessionsInit, SessionAt, CallAt, Closed
<1>3. \A c \in Calls : WrittenAt(c)
  BY DEF SessionsInit, WrittenAt, Settled, Open
<1>. QED BY <1>1, <1>2, <1>3 DEF SessionsInv, OneSessionEach, SessionsInit

-----------------------------------------------------------------------------
(* The steps of one session.                                               *)

LEMMA DiesKeeps ==
  ASSUME SessionsInv, NEW s \in Sessions, Dies(s)
  PROVE  SessionsInv'
<1>1. SessionsTypeOK'
  BY DEF SessionsInv, SessionsTypeOK, Dies, Drops, Mishap, Closed
<1>2. \A r \in Sessions : SessionAt(r)' /\ CallAt(r)'
  <2> SUFFICES ASSUME NEW r \in Sessions PROVE SessionAt(r)' /\ CallAt(r)'
    OBVIOUS
  <2>1. SessionAt(r) /\ CallAt(r)
    BY DEF SessionsInv
  <2>2. CASE r = s
    <3>1. link'[r] = "dead" /\ pending'[r] = Closed
      BY <2>2 DEF Dies, Drops, SessionsInv, SessionsTypeOK
    <3>. QED BY <2>1, <3>1 DEF Dies, SessionAt, CallAt, Closed
  <2>3. CASE r # s
    <3>1. link'[r] = link[r] /\ pending'[r] = pending[r]
      BY <2>3 DEF Dies, Drops, SessionsInv, SessionsTypeOK
    <3>. QED BY <2>1, <3>1 DEF Dies, SessionAt, CallAt
  <2>. QED BY <2>2, <2>3
<1>. QED BY <1>1, <1>2 DEF SessionsInv, Dies, WrittenAt, OneSessionEach

LEMMA AcquiresKeeps ==
  ASSUME SessionsInv, NEW c \in Calls, NEW s \in Sessions, Acquires(c, s)
  PROVE  SessionsInv'
<1> USE SessionsAssumption DEF SessionsAssumption
<1>1. SessionsTypeOK'
  BY DEF SessionsInv, SessionsTypeOK, Acquires, Moves, FirstOf, Going, Statements
<1>2. /\ holder[s] = "nobody" /\ holder'[s] = c
      /\ call[c].at = "called" /\ call'[c].at = FirstOf(c)
      /\ link'[s] = IF link[s] = "none" THEN "up" ELSE link[s]
  BY DEF SessionsInv, SessionsTypeOK, Acquires, Free, Moves
<1>3. ElsewhereSame(c, s)
  BY DEF ElsewhereSame, SessionsInv, SessionsTypeOK, Acquires, Moves
<1>4. SessionAt(s)
  BY DEF SessionsInv
<1>5. SessionAt(s)'
  BY <1>2, <1>4 DEF SessionAt, Acquires, FirstOf, Going, Statements
<1>6. CallAt(s)'
  BY <1>2, <1>4 DEF SessionAt, CallAt, Acquires, FirstOf
<1>7. WrittenAt(c)'
  BY <1>2 DEF SessionsInv, WrittenAt, Settled, Open, Acquires, FirstOf
<1>. QED BY <1>1, <1>2, <1>3, <1>5, <1>6, <1>7, OwnStep

LEMMA CannotConnectKeeps ==
  ASSUME SessionsInv, NEW c \in Calls, CannotConnect(c)
  PROVE  SessionsInv'
<1>1. SessionsTypeOK'
  BY DEF SessionsInv, SessionsTypeOK, CannotConnect, Mishap, Moves, Over
<1>2. call[c].at = "called" /\ call'[c].at = "failed" /\ \A d \in Calls \ {c} : call'[d] = call[d]
  BY DEF SessionsInv, SessionsTypeOK, CannotConnect, Moves
<1>3. \A s \in Sessions : SessionAt(s)' /\ CallAt(s)'
  <2> SUFFICES ASSUME NEW s \in Sessions PROVE SessionAt(s)' /\ CallAt(s)'
    OBVIOUS
  <2>1. SessionAt(s) /\ CallAt(s)
    BY DEF SessionsInv
  <2>2. holder[s] # c
    BY <1>2, <2>1, SessionsAssumption DEF SessionAt, Going, Statements, SessionsAssumption
  <2>3. holder[s] # "nobody" => call'[holder[s]] = call[holder[s]]
    BY <1>2, <2>2 DEF SessionsInv, SessionsTypeOK
  <2>. QED BY <2>1, <2>3 DEF SessionAt, CallAt, CannotConnect
<1>4. \A d \in Calls : WrittenAt(d)'
  BY <1>2 DEF SessionsInv, WrittenAt, Settled, Open, CannotConnect
<1>. QED BY <1>1, <1>3, <1>4 DEF SessionsInv, CannotConnect, OneSessionEach

LEMMA RepairsKeeps ==
  ASSUME SessionsInv, NEW c \in Calls, NEW s \in Sessions, Repairs(c, s)
  PROVE  SessionsInv'
<1> USE SessionsAssumption DEF SessionsAssumption
<1>1. SessionsTypeOK'
  <2>1. \E to \in {"up", "closed"} : Drops(s, to)
    BY DEF Repairs
  <2>2. call' \in [Calls -> [at : Going \cup Over, attempt : Nat]]
    BY MovesType DEF Repairs, Going, SessionsInv, SessionsTypeOK
  <2>3. mishaps' \in Nat
    BY DEF SessionsInv, SessionsTypeOK, Repairs, Mishap
  <2>6. repair' = repair \/ repair' = [repair EXCEPT ![s] = FALSE]
    BY DEF Repairs
  <2>7. repair' \in [Sessions -> BOOLEAN]
    BY <2>6 DEF SessionsInv, SessionsTypeOK
  <2>4. SessionsTypeOK /\ UNCHANGED <<inTx, holder, written>>
    BY DEF SessionsInv, Repairs
  <2>5. /\ link' \in [Sessions -> {"none", "up", "dead", "closed"}]
        /\ pending' \in [Sessions -> [open : BOOLEAN, holds : SUBSET (Calls \X Writes)]]
    BY <2>1, <2>4, DropsType
  <2>. QED BY <2>2, <2>3, <2>4, <2>5, <2>7 DEF SessionsTypeOK
<1>2. /\ holder[s] = c /\ holder'[s] = c /\ ~inTx[s] /\ inTx' = inTx /\ written' = written
      /\ pending'[s] = Closed /\ call[c].at \in Statements
      /\ call'[c].at = call[c].at \/ call'[c].at = "raised"
  BY DEF SessionsInv, SessionsTypeOK, Repairs, Runs, MustRepair, Drops, Moves
<1>3. ElsewhereSame(c, s)
  BY DEF ElsewhereSame, SessionsInv, SessionsTypeOK, Repairs, Drops, Moves
<1>4. SessionAt(s) /\ CallAt(s) /\ WrittenAt(c)
  BY DEF SessionsInv
<1>5. SessionAt(s)'
  BY <1>2, <1>4 DEF SessionAt, Going, Closed
<1>6. CallAt(s)'
  BY <1>2, <1>4 DEF CallAt, Statements
<1>7. WrittenAt(c)'
  BY <1>2, <1>4 DEF WrittenAt, Settled, Open, Statements
<1>. QED BY <1>1, <1>2, <1>3, <1>5, <1>6, <1>7, OwnStep

LEMMA RefusesKeeps ==
  ASSUME SessionsInv, NEW c \in Calls, NEW s \in Sessions,
         NEW why \in {"aborted", "raised"}, Refuses(c, s, why)
  PROVE  SessionsInv'
<1> USE SessionsAssumption DEF SessionsAssumption
<1>1. SessionsTypeOK'
  <2>1. call' \in [Calls -> [at : Going \cup Over, attempt : Nat]]
    BY MovesType DEF Refuses, Going, SessionsInv
  <2>2. link' \in [Sessions -> {"none", "up", "dead", "closed"}]
    BY DEF SessionsInv, SessionsTypeOK, Refuses
  <2>3. mishaps' \in Nat
    BY DEF SessionsInv, SessionsTypeOK, Refuses, Mishap
  <2>6. repair' = [repair EXCEPT ![s] = repair[s] \/ (why = "aborted" /\ inTx[s])]
    BY DEF Refuses
  <2>7. (repair[s] \/ (why = "aborted" /\ inTx[s])) \in BOOLEAN
    OBVIOUS
  <2>8. repair' \in [Sessions -> BOOLEAN]
    BY <2>6, <2>7, Zenon DEF SessionsInv, SessionsTypeOK
  <2> DEFINE empty == [open |-> pending[s].open, holds |-> {}]
  <2>9. pending' = [pending EXCEPT ![s] = empty] /\ empty \in [open : BOOLEAN, holds : SUBSET (Calls \X Writes)]
    <3>1. pending[s] \in [open : BOOLEAN, holds : SUBSET (Calls \X Writes)]
      BY DEF SessionsInv, SessionsTypeOK
    <3>2. empty \in [open : BOOLEAN, holds : SUBSET (Calls \X Writes)]
      BY <3>1
    <3>3. [pending[s] EXCEPT !.holds = {}] = empty
      BY <3>1
    <3>4. pending' = [pending EXCEPT ![s] = [pending[s] EXCEPT !.holds = {}]]
      BY DEF Refuses
    <3>. QED BY <3>2, <3>3, <3>4
  <2>4. pending' \in [Sessions -> [open : BOOLEAN, holds : SUBSET (Calls \X Writes)]]
    <3> HIDE DEF empty
    <3>. QED BY <2>9 DEF SessionsInv, SessionsTypeOK
  <2>5. SessionsTypeOK /\ UNCHANGED <<inTx, holder, written>>
    BY DEF SessionsInv, Refuses
  <2>. QED BY <2>1, <2>2, <2>3, <2>4, <2>5, <2>8 DEF SessionsTypeOK
<1>2. /\ holder[s] = c /\ holder'[s] = c /\ inTx' = inTx /\ written' = written
      /\ pending'[s].open = pending[s].open /\ pending'[s].holds = {}
      /\ link[s] = "up" /\ (inTx[s] => link'[s] = "up")
      /\ call[c].at \in Statements /\ call'[c].at = why
  BY DEF SessionsInv, SessionsTypeOK, Refuses, Runs, Moves
<1>3. ElsewhereSame(c, s)
  BY DEF ElsewhereSame, SessionsInv, SessionsTypeOK, Refuses, Moves
<1>4. SessionAt(s) /\ CallAt(s) /\ WrittenAt(c)
  BY DEF SessionsInv
<1>5. SessionAt(s)'
  BY <1>2, <1>4 DEF SessionAt, Going
<1>6. CallAt(s)'
  BY <1>2, <1>4 DEF CallAt
<1>7. WrittenAt(c)'
  BY <1>2, <1>4 DEF WrittenAt, Settled, Open, Statements
<1>. QED BY <1>1, <1>2, <1>3, <1>5, <1>6, <1>7, OwnStep

LEMMA FindsDeadKeeps ==
  ASSUME SessionsInv, NEW c \in Calls, NEW s \in Sessions, FindsDead(c, s)
  PROVE  SessionsInv'
<1> USE SessionsAssumption DEF SessionsAssumption
<1>1. SessionsTypeOK'
  <2>1. \E to \in {"up", "closed"} : Drops(s, to)
    BY DEF FindsDead
  <2>2. call' \in [Calls -> [at : Going \cup Over, attempt : Nat]]
    BY MovesType DEF FindsDead, Going, SessionsInv
  <2>3. mishaps' \in Nat
    BY DEF SessionsInv, SessionsTypeOK, FindsDead, Mishap
  <2>6. repair' = repair \/ repair' = [repair EXCEPT ![s] = TRUE]
    BY DEF FindsDead
  <2>7. repair' \in [Sessions -> BOOLEAN]
    BY <2>6 DEF SessionsInv, SessionsTypeOK
  <2>4. SessionsTypeOK /\ UNCHANGED <<inTx, holder, written>>
    BY DEF SessionsInv, FindsDead
  <2>5. /\ link' \in [Sessions -> {"none", "up", "dead", "closed"}]
        /\ pending' \in [Sessions -> [open : BOOLEAN, holds : SUBSET (Calls \X Writes)]]
    BY <2>1, <2>4, DropsType
  <2>. QED BY <2>2, <2>3, <2>4, <2>5, <2>7 DEF SessionsTypeOK
<1>2. /\ holder[s] = c /\ holder'[s] = c /\ inTx' = inTx /\ written' = written
      /\ pending'[s] = Closed /\ (inTx[s] => link'[s] = "closed")
      /\ call[c].at \in Statements /\ call'[c].at = "raised"
  BY DEF SessionsInv, SessionsTypeOK, FindsDead, Drops, Runs, Moves
<1>3. ElsewhereSame(c, s)
  BY DEF ElsewhereSame, SessionsInv, SessionsTypeOK, FindsDead, Drops, Moves
<1>4. SessionAt(s) /\ CallAt(s) /\ WrittenAt(c)
  BY DEF SessionsInv
<1>5. SessionAt(s)'
  BY <1>2, <1>4 DEF SessionAt, Going, Closed
<1>6. CallAt(s)'
  BY <1>2, <1>4 DEF CallAt
<1>7. WrittenAt(c)'
  BY <1>2, <1>4 DEF WrittenAt, Settled, Open, Statements
<1>. QED BY <1>1, <1>2, <1>3, <1>5, <1>6, <1>7, OwnStep

LEMMA CommitUnheardKeeps ==
  ASSUME SessionsInv, NEW c \in Calls, NEW s \in Sessions, CommitUnheard(c, s)
  PROVE  SessionsInv'
<1> USE SessionsAssumption DEF SessionsAssumption
<1>1. /\ holder[s] = c /\ holder' = holder /\ inTx' = inTx
      /\ pending'[s] = Closed /\ link'[s] = "closed"
      /\ call'[c].at = "unheard" /\ repair' = [repair EXCEPT ![s] = TRUE]
      /\ mishaps' = mishaps + 1
  BY DEF SessionsInv, SessionsTypeOK, CommitUnheard, Runs, Drops, Moves, Mishap
<1>2. \A d \in Calls, w \in Writes :
        written'[d][w] = IF <<d, w>> \in pending[s].holds THEN Once(written[d][w]) ELSE written[d][w]
  BY DEF CommitUnheard
<1>3. written' \in [Calls -> [Writes -> 0 .. 2]]
  BY DEF SessionsInv, SessionsTypeOK, CommitUnheard, Once
<1>4. SessionAt(s) /\ SessionsTypeOK
  BY DEF SessionsInv
<1>5. SessionsTypeOK'
  <2>1. /\ link' \in [Sessions -> {"none", "up", "dead", "closed"}]
        /\ pending' \in [Sessions -> [open : BOOLEAN, holds : SUBSET (Calls \X Writes)]]
    BY <1>4, DropsType DEF CommitUnheard
  <2>2. call' \in [Calls -> [at : Going \cup Over, attempt : Nat]]
    BY <1>4, MovesType DEF CommitUnheard, Going
  <2>3. repair' \in [Sessions -> BOOLEAN] /\ mishaps' \in Nat
    BY <1>1, <1>4 DEF SessionsTypeOK
  <2>. QED BY <1>1, <1>3, <1>4, <2>1, <2>2, <2>3 DEF SessionsTypeOK
<1>6. \A d \in Calls \ {c} : written'[d] = written[d]
  <2> SUFFICES ASSUME NEW d \in Calls \ {c} PROVE written'[d] = written[d]
    OBVIOUS
  <2>1. \A w \in Writes : written'[d][w] = written[d][w]
    BY <1>1, <1>2, <1>4 DEF SessionAt
  <2>. QED BY <1>3, <1>4, <2>1 DEF SessionsTypeOK
<1>7. ElsewhereSame(c, s)
  BY <1>1, <1>4, <1>6 DEF ElsewhereSame, SessionsTypeOK, CommitUnheard, Drops, Moves
<1>8. SessionAt(s)'
  BY <1>1, <1>4 DEF SessionAt, Going, Closed
<1>9. CallAt(s)'
  BY <1>1 DEF CallAt
<1>10. WrittenAt(c)'
  <2>1. link[s] = "up" /\ call[c].at = "commit" /\ CallAt(s) /\ WrittenAt(c)
    BY DEF CommitUnheard, SessionsInv
  <2>2. c \notin Autocommit => pending[s].holds = {<<c, 1>>, <<c, 2>>}
    BY <1>1, <1>4, <2>1 DEF SessionAt, CallAt, Before
  <2>3. c \notin Autocommit => \A w \in Writes : written[c][w] = 0
    BY <2>1 DEF WrittenAt, Settled, Open
  <2>4. c \notin Autocommit => \A w \in Writes : written'[c][w] = 1
    BY <1>2, <2>2, <2>3 DEF Writes, Once
  <2>. QED BY <1>1, <2>4 DEF WrittenAt, Settled, Open
<1>. QED BY <1>1, <1>5, <1>7, <1>8, <1>9, <1>10, OwnStep

LEMMA RollsBackKeeps ==
  ASSUME SessionsInv, NEW c \in Calls, NEW s \in Sessions, RollsBack(c, s)
  PROVE  SessionsInv'
<1> USE SessionsAssumption DEF SessionsAssumption
<1>1. SessionsTypeOK /\ SessionAt(s) /\ CallAt(s) /\ WrittenAt(c)
  BY DEF SessionsInv
<1>2. holder[s] = c /\ holder' = holder /\ written' = written /\ mishaps' = mishaps
  BY DEF RollsBack
<1>3. call[c].at \in {"aborted", "raised", "unheard"} /\ inTx[s]
  BY DEF RollsBack
<1>4. CASE link[s] = "up"
  <2>1. /\ pending' = [pending EXCEPT ![s] = Closed] /\ inTx' = [inTx EXCEPT ![s] = FALSE]
        /\ link' = link /\ repair' = repair
        /\ Moves(c, IF call[c].at = "aborted" THEN "again" ELSE "leaves")
    BY <1>4 DEF RollsBack
  <2>2. SessionsTypeOK'
    <3>1. call' \in [Calls -> [at : Going \cup Over, attempt : Nat]]
      BY <1>1, <2>1, MovesType DEF Going
    <3>2. pending' \in [Sessions -> [open : BOOLEAN, holds : SUBSET (Calls \X Writes)]]
      BY <1>1, <2>1 DEF SessionsTypeOK, Closed
    <3>3. inTx' \in [Sessions -> BOOLEAN]
      BY <1>1, <2>1 DEF SessionsTypeOK
    <3>. QED BY <1>1, <1>2, <2>1, <3>1, <3>2, <3>3 DEF SessionsTypeOK
  <2>3. /\ pending'[s] = Closed /\ ~inTx'[s]
        /\ call'[c].at = IF call[c].at = "aborted" THEN "again" ELSE "leaves"
    BY <1>1, <2>1 DEF SessionsTypeOK, Moves
  <2>4. ElsewhereSame(c, s)
    BY <1>1, <1>2, <2>1 DEF ElsewhereSame, SessionsTypeOK, Moves
  <2>5. SessionAt(s)' /\ CallAt(s)'
    BY <1>2, <2>1, <2>3 DEF SessionAt, CallAt, Going, Closed
  <2>6. WrittenAt(c)'
    BY <1>1, <1>2, <1>3, <1>4, <2>3 DEF WrittenAt, CallAt, Settled, Open
  <2>. QED BY <1>2, <2>2, <2>4, <2>5, <2>6, OwnStep
<1>5. CASE link[s] # "up"
  <2>1. /\ Drops(s, "closed") /\ repair' = [repair EXCEPT ![s] = TRUE]
        /\ Moves(c, IF call[c].at = "unheard" THEN "unsure" ELSE "leaves") /\ inTx' = inTx
    BY <1>5 DEF RollsBack
  <2>2. SessionsTypeOK'
    <3>1. call' \in [Calls -> [at : Going \cup Over, attempt : Nat]]
      BY <1>1, <2>1, MovesType DEF Going
    <3>2. /\ link' \in [Sessions -> {"none", "up", "dead", "closed"}]
          /\ pending' \in [Sessions -> [open : BOOLEAN, holds : SUBSET (Calls \X Writes)]]
      BY <1>1, <2>1, DropsType
    <3>3. repair' \in [Sessions -> BOOLEAN]
      BY <1>1, <2>1 DEF SessionsTypeOK
    <3>. QED BY <1>1, <1>2, <2>1, <3>1, <3>2, <3>3 DEF SessionsTypeOK
  <2>3. /\ pending'[s] = Closed /\ link'[s] = "closed"
        /\ call'[c].at = IF call[c].at = "unheard" THEN "unsure" ELSE "leaves"
    BY <1>1, <2>1 DEF SessionsTypeOK, Drops, Moves
  <2>4. ElsewhereSame(c, s)
    BY <1>1, <1>2, <2>1 DEF ElsewhereSame, SessionsTypeOK, Drops, Moves
  <2>5. SessionAt(s)' /\ CallAt(s)'
    BY <1>2, <2>1, <2>3 DEF SessionAt, CallAt, Going, Closed
  <2>6. WrittenAt(c)'
    BY <1>1, <1>2, <1>3, <2>3 DEF WrittenAt, Settled, Open
  <2>. QED BY <1>2, <2>2, <2>4, <2>5, <2>6, OwnStep
<1>. QED BY <1>4, <1>5

LEMMA GoesUpKeeps ==
  ASSUME SessionsInv, NEW c \in Calls, NEW s \in Sessions, GoesUp(c, s)
  PROVE  SessionsInv'
<1> USE SessionsAssumption DEF SessionsAssumption
<1>1. SessionsTypeOK /\ SessionAt(s) /\ CallAt(s) /\ WrittenAt(c)
  BY DEF SessionsInv
<1>2. /\ holder[s] = c /\ call[c].at \in {"aborted", "raised"} /\ ~inTx[s]
      /\ UNCHANGED <<link, inTx, repair, pending, holder, written, mishaps>>
      /\ Moves(c, IF call[c].at = "aborted" THEN "again" ELSE "leaves")
  BY DEF GoesUp
<1>3. SessionsTypeOK'
  <2>1. call' \in [Calls -> [at : Going \cup Over, attempt : Nat]]
    BY <1>1, <1>2, MovesType DEF Going
  <2>. QED BY <1>1, <1>2, <2>1 DEF SessionsTypeOK
<1>4. call'[c].at = IF call[c].at = "aborted" THEN "again" ELSE "leaves"
  BY <1>1, <1>2 DEF SessionsTypeOK, Moves
<1>5. ElsewhereSame(c, s)
  BY <1>1, <1>2 DEF ElsewhereSame, SessionsTypeOK, Moves
<1>6. SessionAt(s)' /\ CallAt(s)' /\ WrittenAt(c)'
  BY <1>1, <1>2, <1>4 DEF SessionAt, CallAt, WrittenAt, Going, Settled, Open
<1>. QED BY <1>2, <1>3, <1>5, <1>6, OwnStep

LEMMA ReturnsKeeps ==
  ASSUME SessionsInv, NEW c \in Calls, NEW s \in Sessions, Returns(c, s)
  PROVE  SessionsInv'
<1> USE SessionsAssumption DEF SessionsAssumption
<1>1. SessionsTypeOK /\ SessionAt(s) /\ CallAt(s) /\ WrittenAt(c)
  BY DEF SessionsInv
<1>2. /\ holder[s] = c /\ call[c].at \in {"done", "again", "leaves", "unsure"}
      /\ holder' = [holder EXCEPT ![s] = "nobody"] /\ Tidied(s)
      /\ written' = written /\ mishaps' = mishaps
  BY DEF Returns
<1> DEFINE next == IF RunsAgain(c) THEN [at |-> "called", attempt |-> call[c].attempt + 1]
                   ELSE [at |-> CASE call[c].at = "done" -> "answered" [] call[c].at = "unsure" -> "unknown"
                                  [] OTHER -> "failed",
                         attempt |-> 0]
<1>3. call' = [call EXCEPT ![c] = next]
  BY DEF Returns
<1>4. /\ next \in [at : Going \cup Over, attempt : Nat]
      /\ call[c].at = "done" => next.at = "answered"
      /\ call[c].at = "unsure" => next.at = "unknown"
      /\ call[c].at \in {"again", "leaves"} => next.at \in {"called", "failed"}
  BY <1>1, <1>2 DEF SessionsTypeOK, Over, RunsAgain
<1> HIDE DEF next
<1>5. call' \in [Calls -> [at : Going \cup Over, attempt : Nat]] /\ call'[c] = next
      /\ \A d \in Calls \ {c} : call'[d] = call[d]
  BY <1>1, <1>3, <1>4 DEF SessionsTypeOK
<1>6. /\ link' = link /\ inTx' = inTx /\ repair' = repair /\ pending' = pending /\ ~inTx[s]
      \/ /\ link' = link /\ repair' = repair /\ inTx' = [inTx EXCEPT ![s] = FALSE]
         /\ pending' = [pending EXCEPT ![s] = Closed]
      \/ /\ Drops(s, "closed") /\ repair' = [repair EXCEPT ![s] = TRUE]
         /\ inTx' = [inTx EXCEPT ![s] = FALSE]
  BY <1>2 DEF Tidied
<1>7. /\ link' \in [Sessions -> {"none", "up", "dead", "closed"}]
      /\ pending' \in [Sessions -> [open : BOOLEAN, holds : SUBSET (Calls \X Writes)]]
      /\ repair' \in [Sessions -> BOOLEAN] /\ inTx' \in [Sessions -> BOOLEAN]
  <2>1. Closed \in [open : BOOLEAN, holds : SUBSET (Calls \X Writes)]
    BY DEF Closed
  <2>2. link' = link \/ link' = [link EXCEPT ![s] = "closed"]
    BY <1>6 DEF Drops
  <2>3. pending' = pending \/ pending' = [pending EXCEPT ![s] = Closed]
    BY <1>6 DEF Drops
  <2>4. repair' \in [Sessions -> BOOLEAN] /\ inTx' \in [Sessions -> BOOLEAN]
    BY <1>1, <1>6 DEF SessionsTypeOK
  <2>. QED BY <1>1, <2>1, <2>2, <2>3, <2>4 DEF SessionsTypeOK
<1>8. holder' \in [Sessions -> Calls \cup {"nobody"}] /\ holder'[s] = "nobody"
  BY <1>1, <1>2 DEF SessionsTypeOK
<1>9. SessionsTypeOK'
  BY <1>1, <1>2, <1>5, <1>7, <1>8 DEF SessionsTypeOK
<1>10. ~inTx'[s] /\ pending'[s] = Closed
  <2>1. ~pending[s].open => pending[s] = Closed
    BY <1>1 DEF SessionAt, SessionsTypeOK, Closed
  <2>. QED BY <1>1, <1>6, <2>1 DEF SessionAt, SessionsTypeOK, Drops
<1>11. ElsewhereSame(c, s)
  BY <1>1, <1>2, <1>5, <1>6 DEF ElsewhereSame, SessionsTypeOK, Drops
<1>12. SessionAt(s)' /\ CallAt(s)'
  BY <1>8, <1>10 DEF SessionAt, CallAt, Closed
<1>13. WrittenAt(c)'
  BY <1>1, <1>2, <1>4, <1>5 DEF WrittenAt, Settled, Open
<1>. QED BY <1>2, <1>8, <1>9, <1>11, <1>12, <1>13, OwnStep

-----------------------------------------------------------------------------
(* A statement that is carried out.                                        *)

(* One that begins a transaction, or commits it.                           *)
LEMMA BeginKeeps ==
  ASSUME SessionsInv, NEW c \in Calls, NEW s \in Sessions, Executes(c, s), call[c].at = "begin"
  PROVE  SessionsInv'
<1> USE SessionsAssumption DEF SessionsAssumption
<1>1. SessionsTypeOK /\ SessionAt(s) /\ CallAt(s) /\ WrittenAt(c)
  BY DEF SessionsInv
<1> DEFINE opened == [open |-> TRUE, holds |-> pending[s].holds]
<1>2. /\ holder[s] = c /\ link[s] = "up" /\ link' = link /\ repair' = repair
      /\ holder' = holder /\ mishaps' = mishaps /\ written' = written
      /\ inTx' = [inTx EXCEPT ![s] = TRUE] /\ pending' = [pending EXCEPT ![s] = opened]
      /\ Moves(c, "1")
  BY DEF Executes, Runs, Carries, NextOf
<1>3. opened \in [open : BOOLEAN, holds : SUBSET (Calls \X Writes)] /\ opened.open
      /\ opened.holds = pending[s].holds
  BY <1>1 DEF SessionsTypeOK
<1> HIDE DEF opened
<1>4. pending' \in [Sessions -> [open : BOOLEAN, holds : SUBSET (Calls \X Writes)]] /\ pending'[s] = opened
  BY <1>1, <1>2, <1>3 DEF SessionsTypeOK
<1>5. inTx' \in [Sessions -> BOOLEAN] /\ inTx'[s] = TRUE
  BY <1>1, <1>2 DEF SessionsTypeOK
<1>6. call' \in [Calls -> [at : Going \cup Over, attempt : Nat]] /\ call'[c].at = "1"
  BY <1>1, <1>2 DEF SessionsTypeOK, Moves, Going, Statements
<1>7. SessionsTypeOK'
  BY <1>1, <1>2, <1>4, <1>5, <1>6 DEF SessionsTypeOK
<1>8. ElsewhereSame(c, s)
  BY <1>1, <1>2 DEF ElsewhereSame, SessionsTypeOK, Moves
<1>9. SessionAt(s)'
  BY <1>1, <1>2, <1>3, <1>4, <1>5, <1>6 DEF SessionAt, Going, Statements
<1>10. CallAt(s)'
  <2>1. c \notin Autocommit => pending[s].holds = {}
    BY <1>1, <1>2 DEF SessionAt, CallAt
  <2>. QED BY <1>2, <1>3, <1>4, <1>5, <1>6, <2>1 DEF CallAt, Before
<1>11. WrittenAt(c)'
  BY <1>1, <1>2, <1>6 DEF WrittenAt, Settled, Open
<1>. QED BY <1>2, <1>7, <1>8, <1>9, <1>10, <1>11, OwnStep

LEMMA CommitKeeps ==
  ASSUME SessionsInv, NEW c \in Calls, NEW s \in Sessions, Executes(c, s), call[c].at = "commit"
  PROVE  SessionsInv'
<1> USE SessionsAssumption DEF SessionsAssumption
<1>1. SessionsTypeOK /\ SessionAt(s) /\ CallAt(s) /\ WrittenAt(c)
  BY DEF SessionsInv
<1>2. /\ holder[s] = c /\ link[s] = "up" /\ link' = link /\ repair' = repair
      /\ holder' = holder /\ mishaps' = mishaps
      /\ inTx' = [inTx EXCEPT ![s] = FALSE] /\ pending' = [pending EXCEPT ![s] = Closed]
      /\ Moves(c, "done")
      /\ written' = [d \in Calls |-> [w \in Writes |->
           IF <<d, w>> \in pending[s].holds THEN Once(written[d][w]) ELSE written[d][w]]]
  BY DEF Executes, Runs, Carries, NextOf
<1>3. pending' \in [Sessions -> [open : BOOLEAN, holds : SUBSET (Calls \X Writes)]] /\ pending'[s] = Closed
  BY <1>1, <1>2 DEF SessionsTypeOK, Closed
<1>4. inTx' \in [Sessions -> BOOLEAN] /\ inTx'[s] = FALSE
  BY <1>1, <1>2 DEF SessionsTypeOK
<1>5. call' \in [Calls -> [at : Going \cup Over, attempt : Nat]] /\ call'[c].at = "done"
  BY <1>1, <1>2 DEF SessionsTypeOK, Moves, Going
<1>6. \A d \in Calls, w \in Writes :
        written'[d][w] = IF <<d, w>> \in pending[s].holds THEN Once(written[d][w]) ELSE written[d][w]
  BY <1>2
<1>7. written' \in [Calls -> [Writes -> 0 .. 2]]
  BY <1>1, <1>2 DEF SessionsTypeOK, Once
<1>8. \A d \in Calls \ {c} : written'[d] = written[d]
  <2> SUFFICES ASSUME NEW d \in Calls \ {c} PROVE written'[d] = written[d]
    OBVIOUS
  <2>1. \A w \in Writes : written'[d][w] = written[d][w]
    BY <1>1, <1>2, <1>6 DEF SessionAt
  <2>. QED BY <1>1, <1>7, <2>1 DEF SessionsTypeOK
<1>9. SessionsTypeOK'
  BY <1>1, <1>2, <1>3, <1>4, <1>5, <1>7 DEF SessionsTypeOK
<1>10. ElsewhereSame(c, s)
  BY <1>1, <1>2, <1>8 DEF ElsewhereSame, SessionsTypeOK, Moves
<1>11. SessionAt(s)' /\ CallAt(s)'
  BY <1>2, <1>3, <1>4, <1>5 DEF SessionAt, CallAt, Going, Closed
<1>12. WrittenAt(c)'
  <2>1. c \notin Autocommit => pending[s].holds = {<<c, 1>>, <<c, 2>>}
    BY <1>1, <1>2 DEF SessionAt, CallAt, Before
  <2>2. c \notin Autocommit => \A w \in Writes : written[c][w] = 0
    BY <1>1 DEF WrittenAt, Settled, Open
  <2>3. c \notin Autocommit => \A w \in Writes : written'[c][w] = 1
    BY <1>6, <2>1, <2>2 DEF Writes, Once
  <2>. QED BY <1>5, <2>3 DEF WrittenAt, Settled, Open
<1>. QED BY <1>2, <1>9, <1>10, <1>11, <1>12, OwnStep

(* A write: held by the open transaction, or committed at once.            *)
LEMMA WriteKeeps ==
  ASSUME SessionsInv, NEW c \in Calls, NEW s \in Sessions, Executes(c, s), call[c].at \in {"1", "2"}
  PROVE  SessionsInv'
<1> USE SessionsAssumption DEF SessionsAssumption
<1>1. SessionsTypeOK /\ SessionAt(s) /\ CallAt(s) /\ WrittenAt(c)
  BY DEF SessionsInv
<1> DEFINE w == IF call[c].at = "1" THEN 1 ELSE 2
           next == IF call[c].at = "1" THEN "2" ELSE IF c \in Autocommit THEN "done" ELSE "commit"
           more == [open |-> pending[s].open, holds |-> pending[s].holds \cup {<<c, w>>}]
<1>2. /\ holder[s] = c /\ link[s] = "up" /\ link' = link /\ repair' = repair
      /\ holder' = holder /\ mishaps' = mishaps
      /\ inTx' = [inTx EXCEPT ![s] = inTx[s]]
      /\ Moves(c, next)
  BY DEF Executes, Runs, Carries, NextOf
<1>3. IF pending[s].open
        THEN pending' = [pending EXCEPT ![s].holds = pending[s].holds \cup {<<c, w>>}] /\ written' = written
        ELSE Adds(c, w) /\ pending' = pending
  BY DEF Executes, Carries
<1>4. inTx' = inTx
  BY <1>1, <1>2 DEF SessionsTypeOK
<1>5. call' \in [Calls -> [at : Going \cup Over, attempt : Nat]] /\ call'[c].at = next
  BY <1>1, <1>2 DEF SessionsTypeOK, Moves, Going, Statements
<1>6. w \in Writes /\ more \in [open : BOOLEAN, holds : SUBSET (Calls \X Writes)]
  BY <1>1 DEF SessionsTypeOK, Writes
<1>7. CASE pending[s].open
  <2>1. [pending[s] EXCEPT !.holds = pending[s].holds \cup {<<c, w>>}] = more
    <3>1. pending[s] \in [open : BOOLEAN, holds : SUBSET (Calls \X Writes)]
      BY <1>1 DEF SessionsTypeOK
    <3>2. \A p \in [open : BOOLEAN, holds : SUBSET (Calls \X Writes)] : \A h :
            [p EXCEPT !.holds = h] = [open |-> p.open, holds |-> h]
      OBVIOUS
    <3>. QED BY <3>1, <3>2, Zenon
  <2>2. pending' = [pending EXCEPT ![s] = more]
    <3>1. pending' = [pending EXCEPT ![s] = [pending[s] EXCEPT !.holds = pending[s].holds \cup {<<c, w>>}]]
      BY <1>3, <1>7
    <3>. QED BY <2>1, <3>1
  <2>3. more.open /\ more.holds = pending[s].holds \cup {<<c, w>>}
    BY <1>7
  <2> HIDE DEF more
  <2>4. pending' \in [Sessions -> [open : BOOLEAN, holds : SUBSET (Calls \X Writes)]] /\ pending'[s] = more
    BY <1>1, <1>6, <2>2 DEF SessionsTypeOK
  <2>5. SessionsTypeOK' /\ written' = written
    BY <1>1, <1>2, <1>3, <1>4, <1>5, <1>7, <2>4 DEF SessionsTypeOK
  <2>6. ElsewhereSame(c, s)
    BY <1>1, <1>2, <1>4, <2>2, <2>5 DEF ElsewhereSame, SessionsTypeOK, Moves
  <2>7. SessionAt(s)'
    BY <1>1, <1>2, <1>4, <1>5, <1>7, <2>3, <2>4 DEF SessionAt, Going, Statements
  <2>8. CallAt(s)'
    BY <1>1, <1>2, <1>4, <1>5, <1>7, <2>3, <2>4 DEF CallAt, Before
  <2>9. WrittenAt(c)'
    BY <1>1, <1>5, <2>5 DEF WrittenAt, Settled, Open
  <2>. QED BY <1>2, <2>5, <2>6, <2>7, <2>8, <2>9, OwnStep
<1>8. CASE ~pending[s].open
  <2>1. pending' = pending /\ written' = [written EXCEPT ![c][w] = Once(written[c][w])]
    BY <1>3, <1>8 DEF Adds
  <2>2. c \in Autocommit
    BY <1>1, <1>2, <1>8 DEF SessionAt, CallAt
  <2>3. Once(written[c][w]) \in 0 .. 2
    BY DEF Once
  <2>4. written' \in [Calls -> [Writes -> 0 .. 2]] /\ \A d \in Calls \ {c} : written'[d] = written[d]
    BY <1>1, <1>6, <2>1, <2>3 DEF SessionsTypeOK
  <2>5. SessionsTypeOK'
    BY <1>1, <1>2, <1>4, <1>5, <2>1, <2>4 DEF SessionsTypeOK
  <2>6. ElsewhereSame(c, s)
    BY <1>1, <1>2, <1>4, <2>1, <2>4 DEF ElsewhereSame, SessionsTypeOK, Moves
  <2>7. SessionAt(s)'
    BY <1>1, <1>2, <1>4, <1>5, <2>1 DEF SessionAt, Going, Statements
  <2>8. CallAt(s)' /\ WrittenAt(c)'
    BY <1>2, <2>2 DEF CallAt, WrittenAt
  <2>. QED BY <1>2, <2>5, <2>6, <2>7, <2>8, OwnStep
<1>. QED BY <1>7, <1>8

-----------------------------------------------------------------------------
LEMMA SessionsNextInv == SessionsInv /\ [SessionsNext]_sessionVars => SessionsInv'
<1> SUFFICES ASSUME SessionsInv, [SessionsNext]_sessionVars PROVE SessionsInv'
  OBVIOUS
<1>1. ASSUME NEW s \in Sessions, Dies(s) PROVE SessionsInv'
  BY <1>1, DiesKeeps
<1>2. ASSUME NEW c \in Calls, CannotConnect(c) PROVE SessionsInv'
  BY <1>2, CannotConnectKeeps
<1>3. ASSUME NEW c \in Calls, NEW s \in Sessions, Acquires(c, s) PROVE SessionsInv'
  BY <1>3, AcquiresKeeps
<1>4. ASSUME NEW c \in Calls, NEW s \in Sessions, Repairs(c, s) PROVE SessionsInv'
  BY <1>4, RepairsKeeps
<1>5. ASSUME NEW c \in Calls, NEW s \in Sessions, Executes(c, s) PROVE SessionsInv'
  <2>1. call[c].at \in {"begin", "1", "2", "commit"}
    BY <1>5 DEF Executes, Runs, Statements
  <2>. QED BY <1>5, <2>1, BeginKeeps, CommitKeeps, WriteKeeps
<1>6. ASSUME NEW c \in Calls, NEW s \in Sessions, FindsDead(c, s) PROVE SessionsInv'
  BY <1>6, FindsDeadKeeps
<1>7. ASSUME NEW c \in Calls, NEW s \in Sessions, CommitUnheard(c, s) PROVE SessionsInv'
  BY <1>7, CommitUnheardKeeps
<1>8. ASSUME NEW c \in Calls, NEW s \in Sessions, RollsBack(c, s) PROVE SessionsInv'
  BY <1>8, RollsBackKeeps
<1>9. ASSUME NEW c \in Calls, NEW s \in Sessions, GoesUp(c, s) PROVE SessionsInv'
  BY <1>9, GoesUpKeeps
<1>10. ASSUME NEW c \in Calls, NEW s \in Sessions, Returns(c, s) PROVE SessionsInv'
  BY <1>10, ReturnsKeeps
<1>11. ASSUME NEW c \in Calls, NEW s \in Sessions, NEW why \in {"aborted", "raised"},
              Refuses(c, s, why)
       PROVE  SessionsInv'
  BY <1>11, RefusesKeeps
<1>12. CASE UNCHANGED sessionVars
  BY <1>12 DEF sessionVars, SessionsInv, SessionsTypeOK, SessionAt, CallAt, WrittenAt, OneSessionEach
<1>. QED
  BY <1>1, <1>2, <1>3, <1>4, <1>5, <1>6, <1>7, <1>8, <1>9, <1>10, <1>11, <1>12 DEF SessionsNext

(* The inductive invariant holds in every reachable state.                 *)
THEOREM SessionsInvariant == SessionsSpec => []SessionsInv
BY SessionsInitInv, SessionsNextInv, PTL DEF SessionsSpec

(* A transaction is committed once or not at all; one that was answered    *)
(* has every write committed and one that failed has none: _locked         *)
(* and PgConnection between them repeat only what Postgres rolled back, and*)
(* repair only outside a transaction.                                      *)
THEOREM AnsweredOnceHolds == SessionsSpec => []AnsweredOnce
<1>1. SessionsInv => AnsweredOnce
  BY DEF SessionsInv, WrittenAt, AnsweredOnce, Settled, Open
<1>. QED BY <1>1, SessionsInvariant, PTL

(* A session nobody holds has no transaction open, at the client or at the *)
(* server: PgPool.session hands none back that the next call would join.   *)
THEOREM ComesBackCleanHolds == SessionsSpec => []ComesBackClean
<1>1. SessionsInv => ComesBackClean
  BY DEF SessionsInv, SessionAt, ComesBackClean
<1>. QED BY <1>1, SessionsInvariant, PTL
=============================================================================
