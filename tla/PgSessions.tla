----------------------------- MODULE PgSessions -----------------------------
(***************************************************************************)
(* How a call of casebroker/db.py reaches Postgres: PgConnection, which    *)
(* replaces a connection that died, but never inside a transaction; PgPool,*)
(* which gives each call a session of its own; and _locked, which runs a   *)
(* call again that Postgres aborted to settle a deadlock.                  *)
(*                                                                         *)
(* A call here is a transaction of two writes, or two statements on their  *)
(* own (autocommit).  The connection may die at any time, a COMMIT may     *)
(* have been carried out whose answer is lost, and connecting may fail.    *)
(* CASEBROKER_PG_POOL=1, one connection under a lock, is left out.         *)
(***************************************************************************)
EXTENDS Integers, FiniteSets

CONSTANTS
  Sessions,   \* PgConnection objects: as many as the pool has slots
  Calls,      \* calls made, each by a thread of its own
  Autocommit, \* those of them that open no transaction
  Retries,    \* _PG_RETRIES
  MaxFaults   \* bound: connections lost, connects and statements that fail

ASSUME SessionsAssumption ==
  /\ IsFiniteSet(Sessions) /\ Autocommit \subseteq Calls
  /\ Retries \in Nat /\ MaxFaults \in Nat
  /\ "nobody" \notin Calls

VARIABLES
  link,     \* a session's connection: not made yet, up, dead, or known closed
  inTx,     \* _in_tx
  repair,   \* _needs_reconnect
  pending,  \* what the server's open transaction on it holds
  holder,   \* the call a session is bound to, or "nobody": idle
  call,     \* where each call is
  written,  \* how often each write of each call was committed
  mishaps

sessionVars == <<link, inTx, repair, pending, holder, call, written, mishaps>>

Writes == {1, 2}

(* The statements of a call, by what comes after them; "done" is an answer.*)
FirstOf(c) == IF c \in Autocommit THEN "1" ELSE "begin"

NextOf(c, statement) ==
  CASE statement = "begin" -> "1" [] statement = "1" -> "2"
    [] statement = "2" /\ c \in Autocommit -> "done"
    [] statement = "2" /\ c \notin Autocommit -> "commit"
    [] statement = "commit" -> "done"

Closed == [open |-> FALSE, holds |-> {}]

SessionsInit ==
  /\ \E first \in Sessions : link = [s \in Sessions |-> IF s = first THEN "up" ELSE "none"]
  /\ inTx = [s \in Sessions |-> FALSE] /\ repair = [s \in Sessions |-> FALSE]
  /\ pending = [s \in Sessions |-> Closed]
  /\ holder = [s \in Sessions |-> "nobody"]
  /\ call = [c \in Calls |-> [at |-> "called", attempt |-> 0]]
  /\ written = [c \in Calls |-> [w \in Writes |-> 0]]
  /\ mishaps = 0

-----------------------------------------------------------------------------
Mishap == mishaps < MaxFaults /\ mishaps' = mishaps + 1

Moves(c, at) == call' = [call EXCEPT ![c].at = at]

Once(n) == IF n = 0 THEN 1 ELSE 2

Adds(c, w) == written' = [written EXCEPT ![c][w] = Once(written[c][w])]

(* The connection is gone, whoever had noticed: so is what it had open.    *)
Drops(s, to) ==
  /\ link' = [link EXCEPT ![s] = to]
  /\ pending' = [pending EXCEPT ![s] = Closed]

(* A pooler times out, the server restarts.                                *)
Dies(s) ==
  /\ link[s] = "up" /\ Mishap
  /\ Drops(s, "dead")
  /\ UNCHANGED <<inTx, repair, holder, call, written>>

(* PgPool.session: an idle session, or one more if none is idle.           *)
Free(s) ==
  /\ holder[s] = "nobody"
  /\ link[s] = "none" => \A r \in Sessions : holder[r] = "nobody" => link[r] = "none"

Acquires(c, s) ==
  /\ call[c].at = "called" /\ Free(s)
  /\ holder' = [holder EXCEPT ![s] = c]
  /\ link' = IF link[s] = "none" THEN [link EXCEPT ![s] = "up"] ELSE link
  /\ Moves(c, FirstOf(c))
  /\ UNCHANGED <<inTx, repair, pending, written, mishaps>>

(* Nor could it be: the slot is given back, and the call fails.            *)
CannotConnect(c) ==
  /\ call[c].at = "called" /\ \E s \in Sessions : Free(s) /\ link[s] = "none"
  /\ Mishap
  /\ Moves(c, "failed")
  /\ UNCHANGED <<link, inTx, repair, pending, holder, written>>

-----------------------------------------------------------------------------
(* PgConnection.execute.                                                   *)

Statements == {"begin", "1", "2", "commit"}

Runs(c, s) == holder[s] = c /\ call[c].at \in Statements

(* Known to be dead up front: replaced, but never inside a transaction.    *)
MustRepair(s) == ~inTx[s] /\ (link[s] = "closed" \/ repair[s])

Repairs(c, s) ==
  /\ Runs(c, s) /\ MustRepair(s)
  /\ \/ Drops(s, "up") /\ repair' = [repair EXCEPT ![s] = FALSE]
        /\ UNCHANGED <<call, mishaps>>
     \/ Mishap /\ Moves(c, "raised") /\ Drops(s, "closed") /\ UNCHANGED repair
  /\ UNCHANGED <<inTx, holder, written>>

(* The statement is carried out.  A write outside a transaction is         *)
(* committed at once; a COMMIT with nothing open commits nothing.          *)
Carries(c, s) ==
  LET at == call[c].at
      p  == pending[s]
  IN /\ CASE at = "begin" ->
               /\ pending' = [pending EXCEPT ![s] = [open |-> TRUE, holds |-> p.holds]]
               /\ UNCHANGED written
          [] at \in {"1", "2"} ->
               LET w == IF at = "1" THEN 1 ELSE 2
               IN IF p.open
                    THEN /\ pending' = [pending EXCEPT ![s].holds = p.holds \cup {<<c, w>>}]
                         /\ UNCHANGED written
                    ELSE Adds(c, w) /\ UNCHANGED pending
          [] at = "commit" ->
               /\ written' = [d \in Calls |-> [w \in Writes |->
                    IF <<d, w>> \in p.holds THEN Once(written[d][w]) ELSE written[d][w]]]
               /\ pending' = [pending EXCEPT ![s] = Closed]
     /\ inTx' = [inTx EXCEPT ![s] = IF at = "begin" THEN TRUE ELSE IF at = "commit" THEN FALSE ELSE inTx[s]]

Executes(c, s) ==
  /\ Runs(c, s) /\ ~MustRepair(s) /\ link[s] = "up"
  /\ Carries(c, s)
  /\ Moves(c, IF call[c].at = "2" /\ c \in Autocommit THEN "done" ELSE NextOf(c, call[c].at))
  /\ UNCHANGED <<link, repair, holder, mishaps>>

(* Postgres refuses it: to settle a deadlock, or as a bad statement.  What *)
(* the transaction held is gone; it stays open till it is rolled back.  A  *)
(* deadlock is an OperationalError, so it too counts as a dead connection. *)
Refuses(c, s, why) ==
  /\ Runs(c, s) /\ call[c].at # "begin" /\ ~MustRepair(s) /\ link[s] = "up" /\ Mishap
  /\ pending' = [pending EXCEPT ![s].holds = {}]
  /\ \E to \in IF why = "aborted" /\ ~inTx[s] THEN {"up", "closed"} ELSE {"up"} :
       link' = [link EXCEPT ![s] = to]
  /\ repair' = [repair EXCEPT ![s] = repair[s] \/ (why = "aborted" /\ inTx[s])]
  /\ Moves(c, why)
  /\ UNCHANGED <<inTx, holder, written>>

(* The connection is found dead: repaired now outside a transaction, or    *)
(* marked, to be repaired by the next call that is not in one.             *)
FindsDead(c, s) ==
  /\ Runs(c, s) /\ ~MustRepair(s) /\ link[s] \in {"dead", "closed"}
  /\ Moves(c, "raised")
  /\ IF inTx[s]
       THEN Drops(s, "closed") /\ repair' = [repair EXCEPT ![s] = TRUE] /\ UNCHANGED mishaps
       ELSE /\ UNCHANGED repair
            /\ \/ Drops(s, "up") /\ UNCHANGED mishaps
               \/ Drops(s, "closed") /\ Mishap
  /\ UNCHANGED <<inTx, holder, written>>

(* The server carried the COMMIT out, and its answer never came.           *)
CommitUnheard(c, s) ==
  /\ Runs(c, s) /\ call[c].at = "commit" /\ link[s] = "up" /\ Mishap
  /\ written' = [d \in Calls |-> [w \in Writes |->
       IF <<d, w>> \in pending[s].holds THEN Once(written[d][w]) ELSE written[d][w]]]
  /\ Drops(s, "closed") /\ repair' = [repair EXCEPT ![s] = TRUE]
  /\ Moves(c, "unheard")
  /\ UNCHANGED <<inTx, holder>>

-----------------------------------------------------------------------------
(* The way back.                                                           *)

(* The ROLLBACK of a call's except clause, which raises anew on a dead     *)
(* connection: then it is not the abort that _locked sees.                 *)
RollsBack(c, s) ==
  /\ holder[s] = c /\ call[c].at \in {"aborted", "raised", "unheard"} /\ inTx[s]
  /\ IF link[s] = "up"
       THEN /\ pending' = [pending EXCEPT ![s] = Closed]
            /\ inTx' = [inTx EXCEPT ![s] = FALSE]
            /\ Moves(c, IF call[c].at = "aborted" THEN "again" ELSE "leaves")
            /\ UNCHANGED <<link, repair>>
       ELSE /\ Drops(s, "closed") /\ repair' = [repair EXCEPT ![s] = TRUE]
            /\ Moves(c, IF call[c].at = "unheard" THEN "unsure" ELSE "leaves")
            /\ UNCHANGED inTx
  /\ UNCHANGED <<holder, written, mishaps>>

(* An error outside a transaction goes straight up.                        *)
GoesUp(c, s) ==
  /\ holder[s] = c /\ call[c].at \in {"aborted", "raised"} /\ ~inTx[s]
  /\ Moves(c, IF call[c].at = "aborted" THEN "again" ELSE "leaves")
  /\ UNCHANGED <<link, inTx, repair, pending, holder, written, mishaps>>

(* Wrong: the session is put back as the call left it.                     *)
LeftOpen(s) == UNCHANGED <<link, inTx, repair, pending>>

(* A session handed back with a transaction open is rolled back, or marked.*)
Tidied(s) ==
  IF ~inTx[s] THEN UNCHANGED <<link, inTx, repair, pending>>
  ELSE /\ inTx' = [inTx EXCEPT ![s] = FALSE]
       /\ IF link[s] = "up"
            THEN pending' = [pending EXCEPT ![s] = Closed] /\ UNCHANGED <<link, repair>>
            ELSE Drops(s, "closed") /\ repair' = [repair EXCEPT ![s] = TRUE]

(* Wrong: whatever failed is run again.                                    *)
AnyFailure(c) == call[c].at # "done" /\ call[c].attempt < Retries

(* _pg_retryable: what Postgres aborted is run again, a few times.         *)
RunsAgain(c) == call[c].at = "again" /\ call[c].attempt < Retries

(* _locked: the whole call again, with a session of its own, or its end.   *)
Returns(c, s) ==
  /\ holder[s] = c /\ call[c].at \in {"done", "again", "leaves", "unsure"}
  /\ holder' = [holder EXCEPT ![s] = "nobody"]
  /\ Tidied(s)
  /\ LET at == call[c].at
     IN call' = [call EXCEPT ![c] =
          IF RunsAgain(c) THEN [at |-> "called", attempt |-> call[c].attempt + 1]
          ELSE [at |-> CASE at = "done" -> "answered" [] at = "unsure" -> "unknown"
                         [] OTHER -> "failed",
                attempt |-> 0]]
  /\ UNCHANGED <<written, mishaps>>

SessionsNext ==
  \/ \E s \in Sessions : Dies(s)
  \/ \E c \in Calls :
       \/ CannotConnect(c)
       \/ \E s \in Sessions :
            \/ Acquires(c, s) \/ Repairs(c, s) \/ Executes(c, s) \/ FindsDead(c, s)
            \/ CommitUnheard(c, s) \/ RollsBack(c, s) \/ GoesUp(c, s) \/ Returns(c, s)
            \/ \E why \in {"aborted", "raised"} : Refuses(c, s, why)

SessionsSpec == SessionsInit /\ [][SessionsNext]_sessionVars

-----------------------------------------------------------------------------
(* A transaction that was answered has every write committed, once; one    *)
(* that failed has none, however often it was run again and whatever       *)
(* became of the connection.  Only an answer lost with the COMMIT is open, *)
(* and even then all of it is committed, once, or none.                    *)
AnsweredOnce ==
  \A c \in Calls \ Autocommit :
    /\ \E n \in 0 .. 1 : \A w \in Writes : written[c][w] = n
    /\ call[c].at = "answered" => \A w \in Writes : written[c][w] = 1
    /\ call[c].at = "failed"   => \A w \in Writes : written[c][w] = 0

(* A session nobody holds has no transaction open, on either side: the     *)
(* next call does not join it, and its first statement may repair it.      *)
ComesBackClean ==
  \A s \in Sessions : holder[s] = "nobody" => ~inTx[s] /\ ~pending[s].open
=============================================================================
