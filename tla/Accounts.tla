------------------------------ MODULE Accounts ------------------------------
(***************************************************************************)
(* The people of a broker (casebroker/db.py, the auth and accounts routes  *)
(* of casebroker/app.py): accounts with a role and a password, and the     *)
(* sessions that were opened under it.                                     *)
(*                                                                         *)
(* A route hashes or verifies a password, a tenth of a second of scrypt,   *)
(* between the row it reads and the row it writes; and no call here takes  *)
(* a lock before it writes.  So a request is as many steps as it has such  *)
(* gaps, and several are under way at once.                                *)
(*                                                                         *)
(* Roles are told apart as far as keeping an admin needs it, and of a      *)
(* password only whether it is still the account's.  A wrong one changes   *)
(* only the login throttle, which is left out; Logout is expiry, too.      *)
(***************************************************************************)
EXTENDS Integers, FiniteSets

CONSTANTS Users,
          Requests    \* bound: requests under way at once

ASSUME AccountsAssumption == IsFiniteSet(Users)

VARIABLES
  account,    \* users: the role of each, "none" for no such account
  sessions,   \* sessions, and whether the password has changed since
  request,    \* what each request has read and is about to write
  founders,   \* (history) accounts made by setup
  overlaps,   \* (history) "setup", "remove": two of a kind were under way
  cut         \* (history) accounts whose last change of password ended halfway

accountVars == <<account, sessions, request, founders, overlaps, cut>>

(* old: the password has changed since; late: it changed while it was      *)
(* being verified, and the session came after the change.                  *)
Idle    == [op |-> "idle"]
Session == [user : Users, old : BOOLEAN, late : BOOLEAN]

AccountsInit ==
  /\ account = [u \in Users |-> "none"]
  /\ sessions = {} /\ request = [q \in Requests |-> Idle]
  /\ founders = {} /\ overlaps = {} /\ cut = {}

-----------------------------------------------------------------------------
Exists(u) == account[u] # "none"

Admins == {u \in Users : account[u] = "admin"}

SignedIn(u) == Exists(u) /\ \E s \in sessions : s.user = u

AdminSignedIn == \E u \in Admins : SignedIn(u)

Underway(op) == \E q \in Requests : request[q].op = op

(* A request to be answered with a new session of u.                       *)
OpensFor(q, u) == request[q].op \in {"login", "issue"} /\ request[q].user = u

Begins(q, r) == request[q] = Idle /\ request' = [request EXCEPT ![q] = r]

Ends(q) == request' = [request EXCEPT ![q] = Idle]

Overlapping(op) == overlaps' = IF Underway(op) THEN overlaps \cup {op} ELSE overlaps

-----------------------------------------------------------------------------
(* auth_setup: the first account.                                          *)

(* There is no account, and the password is being hashed.                  *)
SetupStarts(q) ==
  /\ \A u \in Users : ~Exists(u)
  /\ Begins(q, [op |-> "setup"])
  /\ Overlapping("setup")
  /\ UNCHANGED <<account, sessions, founders, cut>>

SetupEnds(q, u) ==
  /\ request[q].op = "setup"
  /\ ~Exists(u)
  /\ account' = [account EXCEPT ![u] = "admin"]
  /\ sessions' = sessions \cup {[user |-> u, old |-> FALSE, late |-> FALSE]}
  /\ founders' = founders \cup {u}
  /\ Ends(q)
  /\ UNCHANGED <<overlaps, cut>>

-----------------------------------------------------------------------------
(* Sessions.                                                               *)

(* auth_login with the right password: the row was read, and the session   *)
(* follows once the password is verified.                                  *)
LoginStarts(q, u) ==
  /\ Exists(u)
  /\ Begins(q, [op |-> "login", user |-> u, late |-> FALSE])
  /\ UNCHANGED <<account, sessions, founders, overlaps, cut>>

(* start_session, for a login or for one's own change of password.         *)
Opens(q) ==
  /\ request[q].op \in {"login", "issue"}
  /\ LET late == request[q].late
     IN sessions' = sessions \cup {[user |-> request[q].user, old |-> late, late |-> late]}
  /\ Ends(q)
  /\ UNCHANGED <<account, founders, overlaps, cut>>

(* auth_logout, or the session expires.                                    *)
Logout(s) ==
  /\ s \in sessions /\ sessions' = sessions \ {s}
  /\ UNCHANGED <<account, request, founders, overlaps, cut>>

-----------------------------------------------------------------------------
(* change_password: one's own, the current one being verified, or another  *)
(* account's by an admin.                                                  *)

ChangeStarts(q, u, own) ==
  /\ Exists(u)
  /\ IF own THEN SignedIn(u) ELSE AdminSignedIn
  /\ Begins(q, [op |-> "change", user |-> u, own |-> own])
  /\ UNCHANGED <<account, sessions, founders, overlaps, cut>>

(* Wrong: the sessions of the old password go on.                          *)
SessionsKept(u) == sessions

SessionsLeft(u) == {s \in sessions : s.user # u}

Outdated(s, u) ==
  IF s.user = u THEN [user |-> u, old |-> TRUE, late |-> s.late] ELSE s

(* set_password, two statements of their own: the new password ...         *)
ChangeWrites(q) ==
  /\ request[q].op = "change"
  /\ LET u == request[q].user
     IN /\ sessions' = {Outdated(s, u) : s \in sessions}
        /\ request' = [p \in Requests |->
             CASE p = q -> [op |-> "ending", user |-> u, own |-> request[q].own]
               [] p # q /\ OpensFor(p, u) -> [op |-> request[p].op, user |-> u, late |-> TRUE]
               [] OTHER -> request[p]]
  /\ UNCHANGED <<account, founders, overlaps, cut>>

(* ... and every session of the account ends with the old one.             *)
SessionsEnd(q) ==
  /\ request[q].op = "ending"
  /\ LET u == request[q].user
     IN /\ sessions' = SessionsLeft(u)
        /\ request' = [request EXCEPT ![q] =
             IF request[q].own THEN [op |-> "issue", user |-> u, late |-> FALSE] ELSE Idle]
        /\ cut' = cut \ {u}
  /\ UNCHANGED <<account, founders, overlaps>>

(* The process, or its connection to the database, is lost in between.     *)
ChangeStops(q) ==
  /\ request[q].op = "ending"
  /\ cut' = cut \cup {request[q].user}
  /\ Ends(q)
  /\ UNCHANGED <<account, sessions, founders, overlaps>>

-----------------------------------------------------------------------------
(* Accounts, by a signed-in admin.                                         *)

Create(u, role) ==
  /\ AdminSignedIn /\ ~Exists(u)
  /\ account' = [account EXCEPT ![u] = role]
  /\ UNCHANGED <<sessions, request, founders, overlaps, cut>>

(* set_role to admin.                                                      *)
Promote(u) ==
  /\ AdminSignedIn /\ account[u] = "other"
  /\ account' = [account EXCEPT ![u] = "admin"]
  /\ UNCHANGED <<sessions, request, founders, overlaps, cut>>

(* Wrong: the admin to be removed counts as one who remains.               *)
AnyAdmin(u) == account[u] = "admin" => Cardinality(Admins) > 0

(* count_admins: not the only one.                                         *)
NotTheLast(u) == account[u] = "admin" => Cardinality(Admins) > 1

(* set_role or delete_user has read the role and counted the admins ...    *)
RemoveStarts(q, u, to) ==
  /\ AdminSignedIn /\ Exists(u)
  /\ NotTheLast(u)
  /\ Begins(q, [op |-> "remove", user |-> u, to |-> to])
  /\ Overlapping("remove")
  /\ UNCHANGED <<account, sessions, founders, cut>>

(* ... and writes.  A deleted account takes its sessions along, and every  *)
(* request that would act on it by its id comes to nothing.                *)
DiesWith(u, r) ==
  \/ r.op \in {"login", "issue"} /\ r.user = u
  \/ r.op = "remove" /\ r.user = u /\ r.to = "none"

RemoveEnds(q) ==
  /\ request[q].op = "remove"
  /\ LET u  == request[q].user
         to == request[q].to
     IN IF to = "none"
          THEN /\ account' = [account EXCEPT ![u] = "none"]
               /\ sessions' = SessionsLeft(u) /\ cut' = cut \ {u}
               /\ request' = [p \in Requests |->
                                IF p = q \/ DiesWith(u, request[p]) THEN Idle
                                ELSE IF request[p].op \in {"change", "ending"} /\ request[p].user = u
                                  THEN [op |-> request[p].op, user |-> u, own |-> FALSE]
                                ELSE request[p]]
          ELSE /\ account' = IF Exists(u) THEN [account EXCEPT ![u] = to] ELSE account
               /\ Ends(q)
               /\ UNCHANGED <<sessions, cut>>
  /\ UNCHANGED <<founders, overlaps>>

-----------------------------------------------------------------------------
AccountsNext ==
  \/ \E q \in Requests :
       \/ SetupStarts(q) \/ Opens(q) \/ RemoveEnds(q)
       \/ ChangeWrites(q) \/ SessionsEnd(q) \/ ChangeStops(q)
       \/ \E u \in Users :
            \/ SetupEnds(q, u) \/ LoginStarts(q, u)
            \/ \E own \in BOOLEAN : ChangeStarts(q, u, own)
            \/ \E to \in {"other", "none"} : RemoveStarts(q, u, to)
  \/ \E u \in Users :
       Promote(u) \/ \E role \in {"admin", "other"} : Create(u, role)
  \/ \E s \in sessions : Logout(s)

AccountsSpec == AccountsInit /\ [][AccountsNext]_accountVars

-----------------------------------------------------------------------------
Request ==
  [op : {"idle", "setup"}] \cup [op : {"login", "issue"}, user : Users, late : BOOLEAN]
  \cup [op : {"change", "ending"}, user : Users, own : BOOLEAN]
  \cup [op : {"remove"}, user : Users, to : {"other", "none"}]

(* The type of every variable.                                             *)
AccountsTypeOK ==
  /\ account \in [Users -> {"none", "admin", "other"}]
  /\ sessions \in SUBSET Session
  /\ request \in [Requests -> Request]
  /\ founders \in SUBSET Users
  /\ overlaps \in SUBSET {"setup", "remove"}
  /\ cut \in SUBSET Users

(* Setup makes one account and is closed for good: a second caller gets    *)
(* 409, not another admin -- unless two setups were hashing at once.       *)
FirstAccountOnly ==
  overlaps = {} => \A u, v \in founders : u = v

(* A broker with an account has an admin, whoever demotes or deletes whom  *)
(* -- unless two removals had both counted before either wrote.            *)
SomeoneManages ==
  "remove" \notin overlaps => ((\E u \in Users : Exists(u)) => Admins # {})

(* The sessions of u are about to end.                                     *)
Ending(u) == \E q \in Requests : request[q].op = "ending" /\ request[q].user = u

(* No session outlives the password it was opened under by more than the   *)
(* moment between the two statements, but for one whose login was being    *)
(* verified while the password changed, and those of an account whose last *)
(* change of password was cut short between the two.                       *)
PasswordEndsSessions ==
  \A s \in sessions : s.old => s.late \/ s.user \in cut \/ Ending(s.user)
=============================================================================
