--------------------------- MODULE IdentityProofs ---------------------------
(***************************************************************************)
(* Theorems of Accounts and of Pairing.                                    *)
(*                                                                         *)
(* Accounts: that an account is an admin is read before it is changed, so  *)
(* the invariant speaks of requests under way: as long as no two removals  *)
(* overlapped there is at most one, and were its account an admin's there  *)
(* is another admin; as long as no two setups did there is at most one,    *)
(* and then there is no account yet.                                       *)
(*                                                                         *)
(* Pairing: a start that is under way replaces, waits for or has crossed   *)
(* every other request for the name, and a request being answered twice is *)
(* one of the contested.                                                   *)
(***************************************************************************)
EXTENDS Accounts, Pairing, FiniteSetTheorems, TLAPS

Roles == {"none", "admin", "other"}

Types ==
  /\ account \in [Users -> Roles]
  /\ request \in [Requests -> Request]

OneRemoval ==
  "remove" \notin overlaps =>
    /\ \A p, q \in Requests : request[p].op = "remove" /\ request[q].op = "remove" => p = q
    /\ \A q \in Requests : request[q].op = "remove" =>
         /\ Exists(request[q].user)
         /\ Admins \ {request[q].user} # {} \/ account[request[q].user] # "admin"
    /\ (\E u \in Users : Exists(u)) => Admins # {}

OneSetup ==
  overlaps = {} =>
    /\ \A p, q \in Requests : request[p].op = "setup" /\ request[q].op = "setup" => p = q
    /\ Underway("setup") => founders = {} /\ \A u \in Users : ~Exists(u)
    /\ founders # {} => \E u \in Users : Exists(u)
    /\ \A u, v \in founders : u = v

AccountsInv == Types /\ OneRemoval /\ OneSetup /\ PasswordEndsSessions

-----------------------------------------------------------------------------
(* Requests.                                                               *)

(* What a request of each kind holds.                                      *)
LEMMA RequestFields ==
  ASSUME NEW r \in Request
  PROVE  /\ r.op \in {"login", "issue"} => r = [op |-> r.op, user |-> r.user, late |-> r.late]
                                           /\ r.user \in Users /\ r.late \in BOOLEAN
         /\ r.op \in {"change", "ending"} => r = [op |-> r.op, user |-> r.user, own |-> r.own]
                               /\ r.user \in Users /\ r.own \in BOOLEAN
         /\ r.op = "remove" => r.user \in Users /\ r.to \in {"other", "none"}
         /\ r.op \in {"idle", "setup", "login", "issue", "change", "ending", "remove"}
BY DEF Request

LEMMA NotLast ==
  ASSUME NEW u \in Users, NotTheLast(u), account[u] = "admin"
  PROVE  Admins \ {u} # {}
<1> SUFFICES ASSUME Admins \ {u} = {} PROVE FALSE
  OBVIOUS
<1>1. Admins = {u}
  BY DEF Admins
<1>2. Cardinality(Admins) = 1
  BY <1>1, FS_Singleton
<1> QED BY <1>2 DEF NotTheLast

(* A step that ends no session and no change between its two statements,   *)
(* and gives no session of an old password but late ones.                  *)
LEMMA OldEnds ==
  ASSUME PasswordEndsSessions, cut \subseteq cut',
         \A s \in sessions' : s.old => s.late \/ s \in sessions,
         \A q \in Requests : request[q].op = "ending" =>
                               request'[q].op = "ending" /\ request'[q].user = request[q].user
  PROVE  PasswordEndsSessions'
<1> SUFFICES ASSUME NEW s \in sessions', s.old, ~s.late PROVE s.user \in cut' \/ Ending(s.user)'
  BY DEF PasswordEndsSessions
<1>1. s.user \in cut \/ Ending(s.user)
  BY DEF PasswordEndsSessions
<1> QED BY <1>1 DEF Ending

(* A request begins, or ends.                                              *)
LEMMA BeginsTypes ==
  ASSUME Types, NEW q \in Requests, NEW r \in Request, Begins(q, r)
  PROVE  /\ request' \in [Requests -> Request] /\ request'[q] = r /\ request[q].op = "idle"
         /\ \A p \in Requests \ {q} : request'[p] = request[p]
BY DEF Types, Begins, Idle

LEMMA EndsTypes ==
  ASSUME Types, NEW q \in Requests, Ends(q)
  PROVE  /\ request' \in [Requests -> Request] /\ request'[q].op = "idle"
         /\ \A p \in Requests \ {q} : request'[p] = request[p]
<1>1. Idle \in Request
  BY DEF Idle, Request
<1> QED BY <1>1 DEF Types, Ends, Idle

(* A step that lets no setup or removal begin, takes no account away and   *)
(* no role of an admin, and makes one only for a request or for an admin.  *)
LEMMA CalmStep ==
  ASSUME AccountsInv, Types', PasswordEndsSessions',
         UNCHANGED <<founders, overlaps>>,
         \A q \in Requests : request'[q].op \in {"remove", "setup"} => request'[q] = request[q],
         \A u \in Users : Exists(u) => Exists(u)',
         Admins \subseteq Admins',
         (\A u \in Users : account'[u] = account[u])
           \/ (Admins # {} /\ \A q \in Requests : request'[q] = request[q])
  PROVE  AccountsInv'
<1>1. OneRemoval'
  <2> SUFFICES ASSUME "remove" \notin overlaps' PROVE OneRemoval'
    BY DEF OneRemoval
  <2>1. "remove" \notin overlaps OBVIOUS
  <2>2. \A p, q \in Requests : request'[p].op = "remove" /\ request'[q].op = "remove" => p = q
    BY <2>1 DEF AccountsInv, OneRemoval
  <2>3. ASSUME NEW q \in Requests, request'[q].op = "remove"
        PROVE  /\ account'[request'[q].user] # "none"
               /\ Admins' \ {request'[q].user} # {} \/ account'[request'[q].user] # "admin"
    <3>1. request'[q] = request[q]
      BY <2>3
    <3>2. request[q].user \in Users
      BY <2>3, <3>1, RequestFields DEF AccountsInv, Types
    <3>3. /\ Exists(request[q].user)
          /\ Admins \ {request[q].user} # {} \/ account[request[q].user] # "admin"
      BY <2>1, <2>3, <3>1 DEF AccountsInv, OneRemoval
    <3>6. account'[request'[q].user] # "none"
      BY <3>1, <3>2, <3>3 DEF Exists
    <3>4. CASE Admins \ {request[q].user} # {}
      BY <3>1, <3>4, <3>6
    <3>5. CASE account[request[q].user] # "admin"
      <4>1. CASE \A u \in Users : account'[u] = account[u]
        BY <3>1, <3>2, <3>5, <3>6, <4>1
      <4>2. CASE Admins # {}
        BY <3>1, <3>5, <3>6, <4>2 DEF Admins
      <4> QED BY <4>1, <4>2
    <3> QED BY <3>3, <3>4, <3>5, <3>6
  <2>4. ASSUME \E u \in Users : Exists(u)' PROVE Admins' # {}
    <3>1. CASE \A u \in Users : account'[u] = account[u]
      BY <2>1, <2>4, <3>1 DEF AccountsInv, OneRemoval, Exists
    <3>2. CASE Admins # {}
      BY <3>2
    <3> QED BY <3>1, <3>2
  <2> QED BY <2>2, <2>3, <2>4 DEF OneRemoval, Exists
<1>2. OneSetup'
  <2> SUFFICES ASSUME overlaps' = {} PROVE OneSetup'
    BY DEF OneSetup
  <2>1. overlaps = {} OBVIOUS
  <2>2. \A p, q \in Requests : request'[p].op = "setup" /\ request'[q].op = "setup" => p = q
    BY <2>1 DEF AccountsInv, OneSetup
  <2>3. ASSUME Underway("setup")' PROVE founders' = {} /\ \A u \in Users : ~Exists(u)'
    <3>1. Underway("setup")
      BY <2>3 DEF Underway
    <3>2. founders = {} /\ \A u \in Users : ~Exists(u)
      BY <2>1, <3>1 DEF AccountsInv, OneSetup
    <3>3. Admins = {}
      BY <3>2 DEF Admins, Exists
    <3> QED BY <3>2, <3>3 DEF Exists
  <2>4. founders' # {} => \E u \in Users : Exists(u)'
    BY <2>1 DEF AccountsInv, OneSetup
  <2>5. \A u, v \in founders' : u = v
    BY <2>1 DEF AccountsInv, OneSetup
  <2> QED BY <2>2, <2>3, <2>4, <2>5 DEF OneSetup
<1> QED BY <1>1, <1>2 DEF AccountsInv

-----------------------------------------------------------------------------
(* Each step of Accounts keeps the invariant.                              *)

LEMMA LoginStartsGood ==
  ASSUME AccountsInv, NEW q \in Requests, NEW u \in Users, LoginStarts(q, u)
  PROVE  AccountsInv'
<1> DEFINE r == [op |-> "login", user |-> u, late |-> FALSE]
<1>1. r \in Request
  BY DEF Request
<1>2. Begins(q, r) /\ r.op = "login"
  BY DEF LoginStarts
<1> HIDE DEF r
<1>3. /\ request' \in [Requests -> Request] /\ request'[q] = r
      /\ \A p \in Requests \ {q} : request'[p] = request[p]
  BY <1>1, <1>2, BeginsTypes DEF AccountsInv
<1>4. Types' /\ PasswordEndsSessions'
  <2>1. Types'
    BY <1>3 DEF LoginStarts, AccountsInv, Types
  <2>2. request[q].op = "idle"
    BY <1>1, <1>2, BeginsTypes DEF AccountsInv
  <2> QED BY <1>3, <2>1, <2>2, OldEnds DEF LoginStarts, AccountsInv
<1>5. \A p \in Requests : request'[p].op \in {"remove", "setup"} => request'[p] = request[p]
  BY <1>2, <1>3
<1> QED BY <1>4, <1>5, CalmStep DEF LoginStarts, Exists, Admins

LEMMA ChangeStartsGood ==
  ASSUME AccountsInv, NEW q \in Requests, NEW u \in Users, NEW own \in BOOLEAN,
         ChangeStarts(q, u, own)
  PROVE  AccountsInv'
<1> DEFINE r == [op |-> "change", user |-> u, own |-> own]
<1>1. r \in Request
  BY DEF Request
<1>2. Begins(q, r) /\ r.op = "change"
  BY DEF ChangeStarts
<1> HIDE DEF r
<1>3. /\ request' \in [Requests -> Request] /\ request'[q] = r
      /\ \A p \in Requests \ {q} : request'[p] = request[p]
  BY <1>1, <1>2, BeginsTypes DEF AccountsInv
<1>4. Types' /\ PasswordEndsSessions'
  <2>1. Types'
    BY <1>3 DEF ChangeStarts, AccountsInv, Types
  <2>2. request[q].op = "idle"
    BY <1>1, <1>2, BeginsTypes DEF AccountsInv
  <2> QED BY <1>3, <2>1, <2>2, OldEnds DEF ChangeStarts, AccountsInv
<1>5. \A p \in Requests : request'[p].op \in {"remove", "setup"} => request'[p] = request[p]
  BY <1>2, <1>3
<1> QED BY <1>4, <1>5, CalmStep DEF ChangeStarts, Exists, Admins

LEMMA OpensGood ==
  ASSUME AccountsInv, NEW q \in Requests, Opens(q)
  PROVE  AccountsInv'
<1>1. /\ request' \in [Requests -> Request] /\ request'[q].op = "idle"
      /\ \A p \in Requests \ {q} : request'[p] = request[p]
  BY EndsTypes DEF Opens, AccountsInv
<1>2. Types'
  BY <1>1 DEF Opens, AccountsInv, Types
<1>3. PasswordEndsSessions'
  <2>1. \A s \in sessions' : s.old => s.late \/ s \in sessions
    BY DEF Opens
  <2>2. request[q].op # "ending" /\ cut' = cut
    BY DEF Opens
  <2> QED BY <1>1, <2>1, <2>2, OldEnds DEF AccountsInv
<1>4. \A p \in Requests : request'[p].op \in {"remove", "setup"} => request'[p] = request[p]
  BY <1>1
<1> QED BY <1>2, <1>3, <1>4, CalmStep DEF Opens, Exists, Admins

LEMMA LogoutGood ==
  ASSUME AccountsInv, NEW s \in sessions, Logout(s)
  PROVE  AccountsInv'
<1>1. Types' /\ PasswordEndsSessions'
  BY OldEnds DEF Logout, AccountsInv, Types
<1> QED BY <1>1, CalmStep DEF Logout, Exists, Admins

(* A new password: its account's sessions are old, and about to end.       *)
LEMMA ChangeWritesGood ==
  ASSUME AccountsInv, NEW q \in Requests, ChangeWrites(q)
  PROVE  AccountsInv'
<1> DEFINE own == request[q].own
<1>1. PICK u \in Users : u = request[q].user
  BY RequestFields DEF ChangeWrites, AccountsInv, Types
<1> DEFINE new(p) == CASE p = q -> [op |-> "ending", user |-> u, own |-> own]
                       [] p # q /\ OpensFor(p, u) -> [op |-> request[p].op, user |-> u, late |-> TRUE]
                       [] OTHER -> request[p]
<1>2. request[q].op = "change" /\ own \in BOOLEAN
  BY RequestFields DEF ChangeWrites, AccountsInv, Types
<1>3. \A p \in Requests :
        /\ new(p) \in Request
        /\ new(p).op \in {"remove", "setup"} => new(p) = request[p]
        /\ request[p].op = "ending" => new(p) = request[p]
  <2> TAKE p \in Requests
  <2>1. CASE p = q
    <3>1. new(p) = [op |-> "ending", user |-> u, own |-> own]
      BY <2>1
    <3> HIDE DEF new, own
    <3> QED BY <1>2, <2>1, <3>1 DEF Request
  <2>2. CASE p # q /\ OpensFor(p, u)
    <3>1. request[p].op \in {"login", "issue"}
      BY <2>2 DEF OpensFor
    <3>3. new(p) = [op |-> request[p].op, user |-> u, late |-> TRUE]
      BY <2>2
    <3> HIDE DEF new
    <3>4. new(p) \in Request
      BY <3>1, <3>3 DEF Request
    <3> QED BY <3>1, <3>3, <3>4
  <2>3. CASE p # q /\ ~OpensFor(p, u)
    BY <2>3 DEF AccountsInv, Types
  <2> QED BY <2>1, <2>2, <2>3
<1>4. request' = [p \in Requests |-> new(p)] /\ new(q) = [op |-> "ending", user |-> u, own |-> own]
  BY <1>1 DEF ChangeWrites
<1>5. sessions' = {Outdated(s, u) : s \in sessions} /\ cut' = cut
  BY <1>1 DEF ChangeWrites
<1> HIDE DEF new, own
<1>6. Types'
  BY <1>3, <1>4 DEF ChangeWrites, AccountsInv, Types
<1>7. ASSUME NEW s \in sessions', s.old PROVE s.late \/ s.user \in cut' \/ Ending(s.user)'
  <2>1. PICK t \in sessions : s = Outdated(t, u)
    BY <1>5
  <2>2. CASE t.user = u
    <3>1. s.user = u
      BY <2>1, <2>2 DEF Outdated
    <3>2. request'[q].op = "ending" /\ request'[q].user = u
      BY <1>4
    <3> QED BY <3>1, <3>2 DEF Ending
  <2>3. CASE t.user # u
    <3>1. s = t
      BY <2>1, <2>3 DEF Outdated
    <3>2. s.late \/ s.user \in cut \/ Ending(s.user)
      BY <1>7, <3>1 DEF AccountsInv, PasswordEndsSessions
    <3>3. ASSUME Ending(s.user) PROVE Ending(s.user)'
      BY <1>3, <1>4, <3>3 DEF Ending
    <3> QED BY <1>5, <3>2, <3>3
  <2> QED BY <2>2, <2>3
<1>8. PasswordEndsSessions'
  BY <1>7 DEF PasswordEndsSessions
<1>9. \A p \in Requests : request'[p].op \in {"remove", "setup"} => request'[p] = request[p]
  BY <1>3, <1>4
<1> QED BY <1>6, <1>8, <1>9, CalmStep DEF ChangeWrites, Exists, Admins

(* They end, and no others do.                                             *)
LEMMA SessionsEndGood ==
  ASSUME AccountsInv, NEW q \in Requests, SessionsEnd(q)
  PROVE  AccountsInv'
<1>1. PICK u \in Users : u = request[q].user
  BY RequestFields DEF SessionsEnd, AccountsInv, Types
<1> DEFINE new == IF request[q].own THEN [op |-> "issue", user |-> u, late |-> FALSE] ELSE Idle
<1>2. new \in Request /\ new.op \in {"issue", "idle"}
  BY <1>1 DEF Request, Idle
<1>3. /\ request' = [request EXCEPT ![q] = new] /\ request[q].op = "ending"
      /\ sessions' = SessionsLeft(u) /\ cut' = cut \ {u}
  BY <1>1 DEF SessionsEnd
<1> HIDE DEF new
<1>4. Types'
  BY <1>2, <1>3 DEF SessionsEnd, AccountsInv, Types
<1>5. ASSUME NEW s \in sessions', s.old PROVE s.late \/ s.user \in cut' \/ Ending(s.user)'
  <2>1. s \in sessions /\ s.user # u
    BY <1>3 DEF SessionsLeft
  <2>2. s.late \/ s.user \in cut \/ Ending(s.user)
    BY <1>5, <2>1 DEF AccountsInv, PasswordEndsSessions
  <2>3. ASSUME Ending(s.user) PROVE Ending(s.user)'
    <3>1. PICK p \in Requests : request[p].op = "ending" /\ request[p].user = s.user
      BY <2>3 DEF Ending
    <3>2. request'[p] = request[p]
      BY <1>1, <1>3, <2>1, <3>1 DEF AccountsInv, Types
    <3> QED BY <3>1, <3>2 DEF Ending
  <2> QED BY <1>3, <2>1, <2>2, <2>3
<1>6. PasswordEndsSessions'
  BY <1>5 DEF PasswordEndsSessions
<1>7. \A p \in Requests : request'[p].op \in {"remove", "setup"} => request'[p] = request[p]
  BY <1>2, <1>3 DEF AccountsInv, Types
<1> QED BY <1>4, <1>6, <1>7, CalmStep DEF SessionsEnd, Exists, Admins

LEMMA ChangeStopsGood ==
  ASSUME AccountsInv, NEW q \in Requests, ChangeStops(q)
  PROVE  AccountsInv'
<1>1. /\ request' \in [Requests -> Request] /\ request'[q].op = "idle"
      /\ \A p \in Requests \ {q} : request'[p] = request[p]
  BY EndsTypes DEF ChangeStops, AccountsInv
<1>2. Types'
  BY <1>1 DEF ChangeStops, AccountsInv, Types
<1>3. sessions' = sessions /\ cut' = cut \cup {request[q].user}
  BY DEF ChangeStops
<1>4. ASSUME NEW s \in sessions', s.old PROVE s.late \/ s.user \in cut' \/ Ending(s.user)'
  <2>1. s.late \/ s.user \in cut \/ Ending(s.user)
    BY <1>3, <1>4 DEF AccountsInv, PasswordEndsSessions
  <2>2. ASSUME Ending(s.user) PROVE s.user \in cut' \/ Ending(s.user)'
    BY <1>1, <1>3, <2>2 DEF Ending
  <2> QED BY <1>3, <2>1, <2>2
<1>5. PasswordEndsSessions'
  BY <1>4 DEF PasswordEndsSessions
<1>6. \A p \in Requests : request'[p].op \in {"remove", "setup"} => request'[p] = request[p]
  BY <1>1
<1> QED BY <1>2, <1>5, <1>6, CalmStep DEF ChangeStops, Exists, Admins

LEMMA CreateGood ==
  ASSUME AccountsInv, NEW u \in Users, NEW role \in {"admin", "other"}, Create(u, role) \/ Promote(u)
  PROVE  AccountsInv'
<1>1. Types'
  BY DEF Create, Promote, AccountsInv, Types, Roles
<1>2. PasswordEndsSessions'
  BY OldEnds DEF Create, Promote, AccountsInv
<1>3. \A v \in Users : Exists(v) => Exists(v)'
  BY DEF Create, Promote, AccountsInv, Types, Exists
<1>4. Admins \subseteq Admins' /\ Admins # {}
  BY DEF Create, Promote, AccountsInv, Types, Admins, AdminSignedIn, Exists
<1> QED BY <1>1, <1>2, <1>3, <1>4, CalmStep DEF Create, Promote

LEMMA SetupStartsGood ==
  ASSUME AccountsInv, NEW q \in Requests, SetupStarts(q)
  PROVE  AccountsInv'
<1> DEFINE r == [op |-> "setup"]
<1>1. r \in Request /\ Begins(q, r) /\ r.op = "setup"
  BY DEF Request, SetupStarts
<1> HIDE DEF r
<1>2. /\ request' \in [Requests -> Request] /\ request'[q] = r
      /\ \A p \in Requests \ {q} : request'[p] = request[p]
  BY <1>1, BeginsTypes DEF AccountsInv
<1>3. Types' /\ PasswordEndsSessions'
  <2>1. Types'
    BY <1>2 DEF SetupStarts, AccountsInv, Types
  <2>2. request[q].op = "idle"
    BY <1>1, BeginsTypes DEF AccountsInv
  <2> QED BY <1>2, <2>1, <2>2, OldEnds DEF SetupStarts, AccountsInv
<1>4. \A u \in Users : ~Exists(u) /\ ~Exists(u)' /\ account'[u] = account[u]
  BY DEF SetupStarts, Exists
<1>5. "remove" \notin overlaps' => "remove" \notin overlaps
  BY DEF SetupStarts, Overlapping
<1>6. OneRemoval'
  <2> SUFFICES ASSUME "remove" \notin overlaps' PROVE OneRemoval'
    BY DEF OneRemoval
  <2>1. \A p \in Requests : request'[p].op = "remove" =>
          p # q /\ request'[p] = request[p] /\ request[p].user \in Users
    BY <1>1, <1>2, RequestFields DEF AccountsInv, Types
  <2>2. \A p \in Requests : request'[p].op # "remove"
    BY <1>4, <1>5, <2>1 DEF AccountsInv, OneRemoval
  <2> QED BY <1>4, <2>2 DEF OneRemoval
<1>7. OneSetup'
  <2> SUFFICES ASSUME overlaps' = {} PROVE OneSetup'
    BY DEF OneSetup
  <2>1. overlaps = {} /\ ~Underway("setup")
    BY DEF SetupStarts, Overlapping
  <2>2. \A p \in Requests : request'[p].op = "setup" => p = q
    BY <1>2, <2>1 DEF Underway
  <2>3. founders' = {}
    BY <1>4, <2>1 DEF SetupStarts, AccountsInv, OneSetup
  <2> QED BY <1>4, <2>2, <2>3 DEF OneSetup
<1> QED BY <1>3, <1>6, <1>7 DEF AccountsInv

LEMMA SetupEndsGood ==
  ASSUME AccountsInv, NEW q \in Requests, NEW u \in Users, SetupEnds(q, u)
  PROVE  AccountsInv'
<1>1. /\ request' \in [Requests -> Request] /\ request'[q].op = "idle"
      /\ \A p \in Requests \ {q} : request'[p] = request[p]
  BY EndsTypes DEF SetupEnds, AccountsInv
<1>2. account' \in [Users -> Roles] /\ account'[u] = "admin"
      /\ \A v \in Users \ {u} : account'[v] = account[v]
  BY DEF SetupEnds, AccountsInv, Types, Roles
<1>3. Types'
  BY <1>1, <1>2 DEF Types
<1>4. PasswordEndsSessions'
  <2>1. request[q].op # "ending" /\ cut' = cut
    BY DEF SetupEnds
  <2>2. \A s \in sessions' : s.old => s.late \/ s \in sessions
    BY DEF SetupEnds
  <2> QED BY <1>1, <2>1, <2>2, OldEnds DEF AccountsInv
<1>5. Exists(u)' /\ u \in Admins' /\ Admins' = Admins \cup {u} /\ ~Exists(u)
  BY <1>2 DEF Exists, Admins, SetupEnds
<1>6. OneRemoval'
  <2> SUFFICES ASSUME "remove" \notin overlaps' PROVE OneRemoval'
    BY DEF OneRemoval
  <2>1. "remove" \notin overlaps
    BY DEF SetupEnds
  <2>2. \A p \in Requests : request'[p].op = "remove" =>
          p # q /\ request'[p] = request[p] /\ request[p].user \in Users
    BY <1>1, RequestFields DEF AccountsInv, Types
  <2>3. \A p, t \in Requests : request'[p].op = "remove" /\ request'[t].op = "remove" => p = t
    BY <2>1, <2>2 DEF AccountsInv, OneRemoval
  <2>4. ASSUME NEW p \in Requests, request'[p].op = "remove"
        PROVE  /\ account'[request'[p].user] # "none"
               /\ Admins' \ {request'[p].user} # {} \/ account'[request'[p].user] # "admin"
    <3>1. /\ Exists(request[p].user)
          /\ Admins \ {request[p].user} # {} \/ account[request[p].user] # "admin"
      BY <2>1, <2>2, <2>4 DEF AccountsInv, OneRemoval
    <3>2. request[p].user # u
      BY <1>5, <3>1
    <3>3. account'[request[p].user] = account[request[p].user]
      BY <1>2, <2>2, <2>4, <3>2
    <3> QED BY <1>5, <2>2, <2>4, <3>1, <3>3 DEF Exists
  <2> QED BY <1>5, <2>3, <2>4 DEF OneRemoval, Exists
<1>7. OneSetup'
  <2> SUFFICES ASSUME overlaps' = {} PROVE OneSetup'
    BY DEF OneSetup
  <2>1. overlaps = {} /\ request[q].op = "setup"
    BY DEF SetupEnds
  <2>2. founders = {} /\ \A p \in Requests : request[p].op = "setup" => p = q
    BY <2>1 DEF AccountsInv, OneSetup, Underway
  <2>3. \A p \in Requests : request'[p].op # "setup"
    BY <1>1, <2>2
  <2>4. founders' = {u}
    BY <2>2 DEF SetupEnds
  <2> QED BY <1>5, <2>3, <2>4 DEF OneSetup, Underway
<1> QED BY <1>3, <1>4, <1>6, <1>7 DEF AccountsInv

(* At the start of a removal its account is not the last admin's.          *)
LEMMA RemoveStartsGood ==
  ASSUME AccountsInv, NEW q \in Requests, NEW u \in Users, NEW to \in {"other", "none"},
         RemoveStarts(q, u, to)
  PROVE  AccountsInv'
<1> DEFINE r == [op |-> "remove", user |-> u, to |-> to]
<1>1. r \in Request /\ Begins(q, r) /\ r.op = "remove" /\ r.user = u
  BY DEF Request, RemoveStarts
<1> HIDE DEF r
<1>2. /\ request' \in [Requests -> Request] /\ request'[q] = r
      /\ \A p \in Requests \ {q} : request'[p] = request[p]
  BY <1>1, BeginsTypes DEF AccountsInv
<1>3. Types' /\ PasswordEndsSessions'
  <2>1. Types'
    BY <1>2 DEF RemoveStarts, AccountsInv, Types
  <2>2. request[q].op = "idle"
    BY <1>1, BeginsTypes DEF AccountsInv
  <2> QED BY <1>2, <2>1, <2>2, OldEnds DEF RemoveStarts, AccountsInv
<1>4. \A v : Exists(v)' <=> Exists(v)
  BY DEF RemoveStarts, Exists
<1>5. Admins' = Admins
  BY DEF RemoveStarts, Admins
<1>6. OneRemoval'
  <2> SUFFICES ASSUME "remove" \notin overlaps' PROVE OneRemoval'
    BY DEF OneRemoval
  <2>1. "remove" \notin overlaps /\ ~Underway("remove")
    BY DEF RemoveStarts, Overlapping
  <2>2. \A p \in Requests : request'[p].op = "remove" => p = q
    BY <1>2, <2>1 DEF Underway
  <2>3. Exists(u) /\ (Admins \ {u} # {} \/ account[u] # "admin")
    BY NotLast DEF RemoveStarts
  <2>4. (\E v \in Users : Exists(v)') => Admins' # {}
    BY <1>4, <1>5, <2>1 DEF AccountsInv, OneRemoval
  <2>5. \A p \in Requests : request'[p].op = "remove" =>
          /\ account'[request'[p].user] # "none"
          /\ Admins' \ {request'[p].user} # {} \/ account'[request'[p].user] # "admin"
    BY <1>1, <1>2, <1>4, <1>5, <2>2, <2>3 DEF RemoveStarts, Exists
  <2> QED BY <2>2, <2>4, <2>5 DEF OneRemoval, Exists
<1>7. OneSetup'
  <2> SUFFICES ASSUME overlaps' = {} PROVE OneSetup'
    BY DEF OneSetup
  <2>1. overlaps = {}
    BY DEF RemoveStarts, Overlapping
  <2>2. \A p \in Requests : request'[p].op = "setup" => request[p].op = "setup"
    BY <1>1, <1>2
  <2>3. Underway("setup")' => Underway("setup")
    BY <2>2 DEF Underway
  <2>4. founders' = founders
    BY DEF RemoveStarts
  <2> QED BY <1>4, <2>1, <2>2, <2>3, <2>4 DEF AccountsInv, OneSetup
<1> QED BY <1>3, <1>6, <1>7 DEF AccountsInv

(* At its end there is another admin, or it was none.                      *)
LEMMA RemoveEndsGood ==
  ASSUME AccountsInv, NEW q \in Requests, RemoveEnds(q)
  PROVE  AccountsInv'
<1> DEFINE u  == request[q].user
           to == request[q].to
<1>1. u \in Users /\ to \in {"other", "none"} /\ request[q].op = "remove"
  BY RequestFields DEF RemoveEnds, AccountsInv, Types
<1>2. /\ request' \in [Requests -> Request] /\ request'[q].op = "idle"
      /\ \A p \in Requests : request'[p].op \in {"remove", "setup"} =>
           p # q /\ request'[p] = request[p]
      /\ \A p \in Requests : request[p].op = "ending" =>
           request'[p].op = "ending" /\ request'[p].user = request[p].user
  <2>1. CASE to = "none"
    <3> DEFINE new(p) == IF p = q \/ DiesWith(u, request[p]) THEN Idle
                         ELSE IF request[p].op \in {"change", "ending"} /\ request[p].user = u
                           THEN [op |-> request[p].op, user |-> u, own |-> FALSE]
                         ELSE request[p]
    <3>1. request' = [p \in Requests |-> new(p)]
      BY <2>1 DEF RemoveEnds
    <3>2. \A p \in Requests : new(p) \in Request
             /\ (new(p).op \in {"remove", "setup"} => p # q /\ new(p) = request[p])
             /\ (request[p].op = "ending" => new(p).op = "ending" /\ new(p).user = request[p].user)
      <4> TAKE p \in Requests
      <4>1. CASE p = q \/ DiesWith(u, request[p])
        BY <1>1, <4>1 DEF Idle, Request, DiesWith
      <4>2. CASE /\ ~(p = q \/ DiesWith(u, request[p]))
                 /\ request[p].op \in {"change", "ending"} /\ request[p].user = u
        <5>3. new(p) = [op |-> request[p].op, user |-> u, own |-> FALSE]
          BY <4>2
        <5> HIDE DEF new, u
        <5>4. new(p) \in Request
          BY <1>1, <4>2, <5>3 DEF Request
        <5> QED BY <4>2, <5>3, <5>4
      <4>3. CASE /\ ~(p = q \/ DiesWith(u, request[p]))
                 /\ ~(request[p].op \in {"change", "ending"} /\ request[p].user = u)
        BY <4>3 DEF AccountsInv, Types
      <4> QED BY <4>1, <4>2, <4>3
    <3>3. new(q).op = "idle"
      BY DEF Idle
    <3> HIDE DEF new
    <3> QED BY <3>1, <3>2, <3>3
  <2>2. CASE to # "none"
    <3>1. Ends(q)
      BY <2>2 DEF RemoveEnds
    <3> QED BY <1>1, <3>1, EndsTypes DEF AccountsInv
  <2> QED BY <2>1, <2>2
<1>3. /\ account' \in [Users -> Roles]
      /\ \A v \in Users \ {u} : account'[v] = account[v]
      /\ account'[u] # "admin"
  BY <1>1 DEF RemoveEnds, AccountsInv, Types, Roles, Exists
<1>4. Types'
  BY <1>2, <1>3 DEF Types
<1>5. PasswordEndsSessions'
  <2>1. CASE to = "none"
    <3>1. sessions' = SessionsLeft(u) /\ cut' = cut \ {u}
      BY <2>1 DEF RemoveEnds
    <3>2. ASSUME NEW s \in sessions', s.old PROVE s.late \/ s.user \in cut' \/ Ending(s.user)'
      <4>1. s \in sessions /\ s.user # u
        BY <3>1 DEF SessionsLeft
      <4>2. s.late \/ s.user \in cut \/ Ending(s.user)
        BY <3>2, <4>1 DEF AccountsInv, PasswordEndsSessions
      <4>3. ASSUME Ending(s.user) PROVE Ending(s.user)'
        BY <1>2, <4>3 DEF Ending
      <4> QED BY <3>1, <4>1, <4>2, <4>3
    <3> QED BY <3>2 DEF PasswordEndsSessions
  <2>2. CASE to # "none"
    <3>1. sessions' = sessions /\ cut' = cut
      BY <2>2 DEF RemoveEnds
    <3> QED BY <1>2, <3>1, OldEnds DEF AccountsInv
  <2> QED BY <2>1, <2>2
<1>6. Admins' = Admins \ {u} /\ founders' = founders /\ overlaps' = overlaps
  BY <1>3 DEF Admins, RemoveEnds
<1>7. ASSUME "remove" \notin overlaps
      PROVE  (\E v \in Users : Exists(v)') => Admins' # {}
  <2> SUFFICES ASSUME NEW v \in Users, Exists(v)' PROVE Admins' # {}
    OBVIOUS
  <2>1. Exists(u) /\ (Admins \ {u} # {} \/ account[u] # "admin") /\ Admins # {}
    BY <1>1, <1>7 DEF AccountsInv, OneRemoval
  <2> QED BY <1>6, <2>1 DEF Admins
<1>8. OneRemoval'
  <2> SUFFICES ASSUME "remove" \notin overlaps' PROVE OneRemoval'
    BY DEF OneRemoval
  <2>1. \A p \in Requests : request'[p].op # "remove"
    BY <1>1, <1>2, <1>6 DEF AccountsInv, OneRemoval
  <2> QED BY <1>6, <1>7, <2>1 DEF OneRemoval
<1>9. OneSetup'
  <2> SUFFICES ASSUME overlaps' = {} PROVE OneSetup'
    BY DEF OneSetup
  <2>1. overlaps = {}
    BY <1>6
  <2>2. \A p \in Requests : request'[p].op = "setup" => request[p].op = "setup"
    BY <1>2
  <2>3. Exists(u)
    BY <1>1, <2>1 DEF AccountsInv, OneRemoval
  <2>4. ~Underway("setup")
    BY <1>1, <2>1, <2>3 DEF AccountsInv, OneSetup
  <2>5. ~Underway("setup")'
    BY <2>2, <2>4 DEF Underway
  <2>6. Admins' # {}
    <3>1. Admins \ {u} # {} \/ account[u] # "admin"
      BY <1>1, <2>1 DEF AccountsInv, OneRemoval
    <3>2. Admins # {}
      BY <1>1, <2>1, <2>3 DEF AccountsInv, OneRemoval
    <3> QED BY <1>6, <3>1, <3>2 DEF Admins
  <2>7. \E v \in Users : Exists(v)'
    BY <2>6 DEF Admins, Exists
  <2> QED BY <1>6, <2>1, <2>2, <2>5, <2>7 DEF AccountsInv, OneSetup, Underway
<1> QED BY <1>4, <1>5, <1>8, <1>9 DEF AccountsInv

-----------------------------------------------------------------------------
(* The theorems of Accounts.                                               *)

LEMMA AccountsInitInv == AccountsInit => AccountsInv
<1> SUFFICES ASSUME AccountsInit PROVE AccountsInv
  OBVIOUS
<1>1. \A u \in Users : ~Exists(u)
  BY DEF AccountsInit, Exists
<1>2. \A q \in Requests : request[q].op = "idle"
  BY DEF AccountsInit, Idle
<1>3. Types
  BY DEF AccountsInit, Types, Roles, Idle, Request
<1>4. OneRemoval
  BY <1>1, <1>2 DEF OneRemoval
<1>5. OneSetup
  BY <1>1, <1>2 DEF AccountsInit, OneSetup, Underway
<1>6. PasswordEndsSessions
  BY DEF AccountsInit, PasswordEndsSessions
<1> QED BY <1>3, <1>4, <1>5, <1>6 DEF AccountsInv

LEMMA AccountsStepInv == AccountsInv /\ [AccountsNext]_accountVars => AccountsInv'
<1> SUFFICES ASSUME AccountsInv, [AccountsNext]_accountVars PROVE AccountsInv'
  OBVIOUS
<1>1. ASSUME NEW q \in Requests,
             SetupStarts(q) \/ Opens(q) \/ RemoveEnds(q)
               \/ ChangeWrites(q) \/ SessionsEnd(q) \/ ChangeStops(q)
      PROVE  AccountsInv'
  BY <1>1, SetupStartsGood, OpensGood, RemoveEndsGood, ChangeWritesGood, SessionsEndGood,
     ChangeStopsGood
<1>2. ASSUME NEW q \in Requests, NEW u \in Users, SetupEnds(q, u) \/ LoginStarts(q, u)
      PROVE  AccountsInv'
  BY <1>2, SetupEndsGood, LoginStartsGood
<1>3. ASSUME UNCHANGED accountVars PROVE AccountsInv'
  <2>1. Types' /\ PasswordEndsSessions'
    BY <1>3, OldEnds DEF accountVars, AccountsInv, Types
  <2> QED BY <1>3, <2>1, CalmStep DEF accountVars, Exists, Admins
<1> QED BY <1>1, <1>2, <1>3, ChangeStartsGood, RemoveStartsGood, CreateGood, LogoutGood
        DEF AccountsNext

THEOREM AccountsInvariant == AccountsSpec => []AccountsInv
BY AccountsInitInv, AccountsStepInv, PTL DEF AccountsSpec

(* Setup makes one account, unless two setups were hashing at once (or two *)
(* removals left the broker with none).                                    *)
THEOREM SetupOnce == AccountsSpec => []FirstAccountOnly
<1>1. AccountsInv => FirstAccountOnly
  BY DEF AccountsInv, OneSetup, FirstAccountOnly
<1> QED BY <1>1, AccountsInvariant, PTL

(* A broker with an account has an admin, unless two removals overlapped.  *)
THEOREM AdminRemains == AccountsSpec => []SomeoneManages
<1>1. AccountsInv => SomeoneManages
  BY DEF AccountsInv, OneRemoval, SomeoneManages
<1> QED BY <1>1, AccountsInvariant, PTL

(* No session outlives the password it was opened under by more than the   *)
(* moment between the change's two statements, but for a login that was    *)
(* being verified meanwhile and a change cut short between the two.        *)
THEOREM PasswordEnds == AccountsSpec => []PasswordEndsSessions
<1>1. AccountsInv => PasswordEndsSessions
  BY DEF AccountsInv
<1> QED BY <1>1, AccountsInvariant, PTL

-----------------------------------------------------------------------------
(* Pairing.                                                                *)

Statuses == {"asking", "pending", "superseded", "expired", "approved", "denied"}

PairRow == [status : Statuses, name : Names, hash : Hashes, replaces : SUBSET Codes,
            awaits : SUBSET Codes]

TokenRow == [hash : Hashes \cup {NoHash}, live : {"yes", "no"}]

Resolving == [on : {"yes"}, code : Codes, approve : {"yes", "no"}]

Asked(c) == pairing[c].status # "none"

SameName(c, d) == c # d /\ Asked(c) /\ Asked(d) /\ pairing[c].name = pairing[d].name

(* What a start is to supersede is pending, and no other start's.          *)
Locks ==
  \A c \in Codes : pairing[c].status = "asking" =>
    \A d \in pairing[c].replaces :
      /\ pairing[d].status = "pending"
      /\ \A e \in Codes : (pairing[e].status = "asking" /\ d \in pairing[e].replaces) => e = c

Meets(c, d) ==
  /\ (pairing[c].status = "asking" /\ pairing[d].status = "asking") => {c, d} \subseteq crossed
  /\ (pairing[c].status = "asking" /\ pairing[d].status = "pending") =>
       d \in pairing[c].replaces \cup pairing[c].awaits \/ {c, d} \subseteq crossed
  /\ (pairing[c].status = "pending" /\ pairing[d].status = "pending") => {c, d} \subseteq crossed

Traced == \A c, d \in Codes : SameName(c, d) => Meets(c, d)

Answering ==
  /\ \A c \in contested : Asked(c)
  /\ \A q \in Resolvers : resolver[q] # NotResolving =>
       LET c == resolver[q].code
       IN /\ pairing[c].status \notin {"none", "asking"}
          /\ pairing[c].status \in {"approved", "denied"} => c \in contested
          /\ \A p \in Resolvers : (p # q /\ resolver[p] # NotResolving /\ resolver[p].code = c)
                                   => c \in contested

Credited(c) ==
  \E d \in Codes : /\ pairing[d].status = "approved" \/ d \in contested
                   /\ pairing[d].hash = pairing[c].hash

Credit == \A c \in Codes, n \in Names :
            (Asked(c) /\ token[n].hash = pairing[c].hash) => Credited(c)

PairingInv == PairingTypeOK /\ Locks /\ Traced /\ Answering /\ Credit

LEMMA PairingTypes ==
  PairingTypeOK <=>
    /\ token \in [Names -> TokenRow]
    /\ pairing \in [Codes -> {NoPairing} \cup PairRow]
    /\ resolver \in [Resolvers -> {NotResolving} \cup Resolving]
    /\ contested \in SUBSET Codes /\ crossed \in SUBSET Codes
BY DEF PairingTypeOK, TokenRow, PairRow, Resolving, Statuses

LEMMA AskedRow ==
  ASSUME PairingTypeOK, NEW c \in Codes, Asked(c)
  PROVE  pairing[c] \in PairRow
BY PairingTypes DEF Asked, NoPairing

LEMMA RowFields ==
  ASSUME NEW st \in Statuses, NEW n \in Names, NEW h \in Hashes, NEW rs \in SUBSET Codes,
         NEW ws \in SUBSET Codes
  PROVE  LET r == Row(st, n, h, rs, ws)
         IN r \in PairRow /\ r.status = st /\ r.name = n /\ r.hash = h /\ r.replaces = rs
            /\ r.awaits = ws
BY DEF Row, PairRow

LEMMA BecomesFields ==
  ASSUME PairingTypeOK, NEW c \in Codes, Asked(c), NEW st \in Statuses
  PROVE  LET r == Becomes(c, st)
         IN r \in PairRow /\ r.status = st /\ r.name = pairing[c].name /\ r.hash = pairing[c].hash
            /\ r.replaces = pairing[c].replaces /\ r.awaits = pairing[c].awaits
<1>1. pairing[c] \in PairRow
  BY AskedRow
<1>2. /\ pairing[c].name \in Names /\ pairing[c].hash \in Hashes
      /\ pairing[c].replaces \in SUBSET Codes /\ pairing[c].awaits \in SUBSET Codes
  BY <1>1 DEF PairRow
<1> QED BY <1>2, RowFields DEF Becomes

(* A step after which one request, locked by no start, has another status. *)
Resolved(c, st) == pairing' = [pairing EXCEPT ![c] = Becomes(c, st)]

LEMMA ResolvedRows ==
  ASSUME PairingTypeOK, NEW c \in Codes, Asked(c), NEW st \in Statuses, Resolved(c, st)
  PROVE  /\ pairing' \in [Codes -> {NoPairing} \cup PairRow]
         /\ pairing'[c].status = st /\ pairing'[c].name = pairing[c].name
         /\ pairing'[c].hash = pairing[c].hash
         /\ pairing'[c].replaces = pairing[c].replaces /\ pairing'[c].awaits = pairing[c].awaits
         /\ \A d \in Codes \ {c} : pairing'[d] = pairing[d]
BY PairingTypes, BecomesFields DEF Resolved

LEMMA ResolvedGood ==
  ASSUME PairingInv, NEW c \in Codes, Asked(c), pairing[c].status # "asking", ~Locked(c),
         NEW st \in {"expired", "approved", "denied"}, Resolved(c, st), crossed' = crossed
  PROVE  Locks' /\ Traced'
<1>1. /\ pairing'[c].status = st /\ pairing'[c].name = pairing[c].name
      /\ \A d \in Codes \ {c} : pairing'[d] = pairing[d]
  BY ResolvedRows DEF PairingInv, Statuses
<1>2. Locks'
  <2> SUFFICES ASSUME NEW d \in Codes, pairing'[d].status = "asking",
                      NEW e \in pairing'[d].replaces
               PROVE  /\ pairing'[e].status = "pending"
                      /\ \A a \in Codes : (pairing'[a].status = "asking" /\ e \in pairing'[a].replaces)
                                           => a = d
    BY DEF Locks
  <2>1. d # c /\ pairing'[d] = pairing[d]
    BY <1>1
  <2>2. e # c
    BY <2>1 DEF Locked, With
  <2>3. e \in Codes
    <3>1. pairing[d] \in PairRow
      BY <2>1, AskedRow DEF PairingInv, Asked
    <3> QED BY <2>1, <3>1 DEF PairRow
  <2>4. \A a \in Codes : pairing'[a].status = "asking" => a # c /\ pairing'[a] = pairing[a]
    BY <1>1
  <2> QED BY <1>1, <2>1, <2>2, <2>3, <2>4 DEF PairingInv, Locks
<1>3. Traced'
  <2> SUFFICES ASSUME NEW d \in Codes, NEW e \in Codes, SameName(d, e)'
               PROVE  Meets(d, e)'
    BY DEF Traced
  <2>1. CASE d = c \/ e = c
    BY <1>1, <2>1 DEF Meets
  <2>2. CASE d # c /\ e # c
    BY <1>1, <2>2 DEF PairingInv, Traced, Meets, SameName, Asked
  <2> QED BY <2>1, <2>2
<1> QED BY <1>2, <1>3

LEMMA PairAsksGood ==
  ASSUME PairingInv, NEW c \in Codes, NEW n \in Names, NEW h \in Hashes, PairAsks(c, n, h)
  PROVE  PairingInv'
<1> DEFINE rs == Replaced(n)
           ws == {d \in For("pending", n) : Locked(d)}
<1>1. rs \in SUBSET Codes /\ ws \in SUBSET Codes
  BY DEF Replaced, For, With
<1>2. pairing' = [pairing EXCEPT ![c] = Row("asking", n, h, rs, ws)]
  BY DEF PairAsks
<1>3. /\ pairing[c] = NoPairing /\ ~Taken(h)
      /\ token' = token /\ resolver' = resolver /\ contested' = contested
  BY DEF PairAsks
<1>4. \A d \in Codes : d \in rs <=> /\ pairing[d].status = "pending" /\ pairing[d].name = n
                                     /\ ~Locked(d)
  BY DEF Replaced, For, With
<1>5. \A d \in Codes : d \in ws <=> /\ pairing[d].status = "pending" /\ pairing[d].name = n
                                     /\ Locked(d)
  BY DEF For, With
<1> HIDE DEF rs, ws
<1>6. /\ pairing' \in [Codes -> {NoPairing} \cup PairRow]
      /\ pairing'[c].status = "asking" /\ pairing'[c].name = n /\ pairing'[c].hash = h
      /\ pairing'[c].replaces = rs /\ pairing'[c].awaits = ws
      /\ \A d \in Codes \ {c} : pairing'[d] = pairing[d]
  BY <1>1, <1>2, RowFields, PairingTypes DEF PairingInv, Statuses
<1>7. /\ crossed' = crossed \cup (IF For("asking", n) = {} THEN {} ELSE {c} \cup For("asking", n))
      /\ crossed' \in SUBSET Codes
  BY PairingTypes DEF PairAsks, PairingInv, For, With
<1>8. pairing[c].status = "none"
  BY <1>3 DEF NoPairing
<1>9. PairingTypeOK'
  BY <1>3, <1>6, <1>7, PairingTypes DEF PairingInv, PairingTypeOK, PairRow, Statuses
<1>10. Locks'
  <2> SUFFICES ASSUME NEW d \in Codes, pairing'[d].status = "asking",
                      NEW e \in pairing'[d].replaces
               PROVE  /\ pairing'[e].status = "pending"
                      /\ \A a \in Codes : (pairing'[a].status = "asking" /\ e \in pairing'[a].replaces)
                                           => a = d
    BY DEF Locks
  <2>1. CASE d = c
    <3>1. e \in rs /\ e \in Codes /\ pairing[e].status = "pending" /\ ~Locked(e) /\ e # c
      BY <1>1, <1>4, <1>6, <1>8, <2>1
    <3>2. \A a \in Codes \ {c} : pairing[a].status = "asking" => e \notin pairing[a].replaces
      BY <3>1 DEF Locked, With
    <3> QED BY <1>6, <2>1, <3>1, <3>2
  <2>2. CASE d # c
    <3>1. pairing'[d] = pairing[d] /\ pairing[e].status = "pending"
      BY <1>6, <2>2 DEF PairingInv, Locks
    <3>2. e \in Codes
      <4>1. pairing[d] \in PairRow
        BY <3>1, AskedRow DEF PairingInv, Asked
      <4> QED BY <3>1, <4>1 DEF PairRow
    <3>3. e # c /\ pairing'[e] = pairing[e]
      BY <1>6, <1>8, <3>1, <3>2
    <3>4. e \notin rs
      BY <1>4, <3>1, <3>2 DEF Locked, With
    <3> QED BY <1>6, <3>1, <3>3, <3>4 DEF PairingInv, Locks
  <2> QED BY <2>1, <2>2
<1>11. Traced'
  <2> SUFFICES ASSUME NEW d \in Codes, NEW e \in Codes, SameName(d, e)'
               PROVE  Meets(d, e)'
    BY DEF Traced
  <2>1. CASE d # c /\ e # c
    <3>1. pairing'[d] = pairing[d] /\ pairing'[e] = pairing[e] /\ crossed \subseteq crossed'
      BY <1>6, <1>7, <2>1
    <3> QED BY <3>1 DEF PairingInv, Traced, Meets, SameName, Asked
  <2>2. CASE d = c
    <3>1. e # c /\ pairing'[e] = pairing[e] /\ pairing[e].name = n
      BY <1>6, <2>2 DEF SameName
    <3>2. pairing[e].status = "asking" => {c, e} \subseteq crossed'
      BY <1>7, <3>1 DEF For, With
    <3>3. pairing[e].status = "pending" => e \in rs \cup ws
      BY <1>4, <1>5, <3>1
    <3> QED BY <1>6, <2>2, <3>1, <3>2, <3>3 DEF Meets
  <2>3. CASE e = c
    <3>1. d # c /\ pairing'[d] = pairing[d] /\ pairing[d].name = n
      BY <1>6, <2>3 DEF SameName
    <3>2. pairing[d].status = "asking" => {c, d} \subseteq crossed'
      BY <1>7, <3>1 DEF For, With
    <3> QED BY <1>6, <2>3, <3>1, <3>2 DEF Meets
  <2> QED BY <2>1, <2>2, <2>3
<1>12. Answering'
  <2>1. \A d \in Codes : Asked(d) => d # c /\ pairing'[d] = pairing[d]
    BY <1>6, <1>8 DEF Asked
  <2>2. \A d \in contested : d \in Codes
    BY PairingTypes DEF PairingInv
  <2>3. \A q \in Resolvers : resolver[q] # NotResolving => resolver[q].code \in Codes
    BY PairingTypes DEF PairingInv, Resolving
  <2>4. \A d \in contested : Asked(d)'
    BY <2>1, <2>2 DEF PairingInv, Answering, Asked
  <2>5. \A q \in Resolvers : resolver[q] # NotResolving =>
          pairing'[resolver[q].code] = pairing[resolver[q].code]
    BY <2>1, <2>3 DEF PairingInv, Answering, Asked
  <2> QED BY <1>3, <2>4, <2>5 DEF PairingInv, Answering
<1>13. Credit'
  <2> SUFFICES ASSUME NEW d \in Codes, NEW m \in Names, Asked(d)', token'[m].hash = pairing'[d].hash
               PROVE  Credited(d)'
    BY DEF Credit
  <2>1. d # c
    BY <1>3, <1>6 DEF Taken
  <2>2. Credited(d) /\ pairing'[d] = pairing[d]
    BY <1>3, <1>6, <2>1 DEF PairingInv, Credit, Asked
  <2>3. PICK e \in Codes : (pairing[e].status = "approved" \/ e \in contested)
                            /\ pairing[e].hash = pairing[d].hash
    BY <2>2 DEF Credited
  <2>4. e # c
    BY <1>8, <2>3 DEF PairingInv, Answering, Asked
  <2> QED BY <1>3, <1>6, <2>2, <2>3, <2>4 DEF Credited
<1> QED BY <1>9, <1>10, <1>11, <1>12, <1>13 DEF PairingInv

(* A start commits: what it was to replace is superseded.                  *)
LEMMA PairStartsGood ==
  ASSUME PairingInv, NEW c \in Codes, PairStarts(c)
  PROVE  PairingInv'
<1> DEFINE new(d) == CASE d = c -> Row("pending", pairing[c].name, pairing[c].hash, {}, {})
                       [] d # c /\ d \in pairing[c].replaces -> Becomes(d, "superseded")
                       [] OTHER -> pairing[d]
<1>1. /\ pairing[c].status = "asking" /\ pairing' = [d \in Codes |-> new(d)]
      /\ token' = token /\ resolver' = resolver /\ contested' = contested /\ crossed' = crossed
      /\ \A d \in pairing[c].awaits : pairing[d].status # "pending"
  BY DEF PairStarts
<1>2. pairing[c] \in PairRow
  BY <1>1, AskedRow DEF PairingInv, Asked
<1>3. pairing[c].name \in Names /\ pairing[c].hash \in Hashes
      /\ pairing[c].replaces \in SUBSET Codes
  BY <1>2 DEF PairRow
<1>4. \A d \in Codes : d \in pairing[c].replaces => pairing[d].status = "pending" /\ d # c /\ Asked(d)
  BY <1>1 DEF PairingInv, Locks, Asked
<1>5. /\ new(c) \in PairRow /\ new(c).status = "pending"
      /\ new(c).name = pairing[c].name /\ new(c).hash = pairing[c].hash
  BY <1>3, RowFields DEF Statuses
<1>6. ASSUME NEW d \in Codes, d \in pairing[c].replaces
      PROVE  /\ new(d) \in PairRow /\ new(d).status = "superseded"
             /\ new(d).name = pairing[d].name /\ new(d).hash = pairing[d].hash
  <2>1. new(d) = Becomes(d, "superseded")
    BY <1>4, <1>6
  <2> HIDE DEF new
  <2> QED BY <1>4, <1>6, <2>1, BecomesFields DEF PairingInv, Statuses
<1>7. ASSUME NEW d \in Codes, d # c, d \notin pairing[c].replaces
      PROVE  new(d) = pairing[d]
  BY <1>7
<1> HIDE DEF new
<1>8. /\ pairing'[c].status = "pending"
      /\ \A d \in Codes : d \in pairing[c].replaces => pairing'[d].status = "superseded"
      /\ \A d \in Codes \ {c} : d \notin pairing[c].replaces => pairing'[d] = pairing[d]
      /\ \A d \in Codes : Asked(d) => pairing'[d].name = pairing[d].name
                                      /\ pairing'[d].hash = pairing[d].hash /\ Asked(d)'
      /\ \A d \in Codes : Asked(d)' => Asked(d)
  BY <1>1, <1>4, <1>5, <1>6, <1>7 DEF Asked
<1>9. PairingTypeOK'
  <2>1. pairing' \in [Codes -> {NoPairing} \cup PairRow]
    BY <1>1, <1>5, <1>6, <1>7, PairingTypes DEF PairingInv
  <2> QED BY <1>1, <2>1, PairingTypes DEF PairingInv, PairingTypeOK, PairRow, Statuses
<1>10. \A d \in Codes : pairing'[d].status = "asking" => d # c /\ pairing'[d] = pairing[d]
  BY <1>8
<1>11. Locks'
  <2> SUFFICES ASSUME NEW d \in Codes, pairing'[d].status = "asking",
                      NEW e \in pairing'[d].replaces
               PROVE  /\ pairing'[e].status = "pending"
                      /\ \A a \in Codes : (pairing'[a].status = "asking" /\ e \in pairing'[a].replaces)
                                           => a = d
    BY DEF Locks
  <2>1. d # c /\ pairing'[d] = pairing[d] /\ pairing[e].status = "pending"
    BY <1>10 DEF PairingInv, Locks
  <2>2. e \notin pairing[c].replaces /\ e # c
    BY <1>1, <2>1 DEF PairingInv, Locks
  <2>3. e \in Codes
    <3>1. pairing[d] \in PairRow
      BY <2>1, AskedRow DEF PairingInv, Asked
    <3> QED BY <2>1, <3>1 DEF PairRow
  <2> QED BY <1>8, <1>10, <2>1, <2>2, <2>3 DEF PairingInv, Locks
<1>12. Traced'
  <2> SUFFICES ASSUME NEW d \in Codes, NEW e \in Codes, SameName(d, e)'
               PROVE  Meets(d, e)'
    BY DEF Traced
  <2>1. SameName(d, e)
    BY <1>8 DEF SameName
  <2>2. Meets(d, e) /\ Meets(e, d)
    BY <2>1 DEF PairingInv, Traced, SameName
  <2>3. CASE d \in pairing[c].replaces \/ e \in pairing[c].replaces
    BY <1>8, <2>3 DEF Meets
  <2>4. CASE d = c /\ e \notin pairing[c].replaces
    <3>1. e # c /\ pairing'[e] = pairing[e]
      BY <1>8, <2>1, <2>4 DEF SameName
    <3> QED BY <1>1, <1>8, <2>2, <2>4, <3>1 DEF Meets
  <2>5. CASE e = c /\ d \notin pairing[c].replaces
    <3>1. d # c /\ pairing'[d] = pairing[d]
      BY <1>8, <2>1, <2>5 DEF SameName
    <3> QED BY <1>1, <1>8, <2>2, <2>5, <3>1 DEF Meets
  <2>6. CASE d # c /\ e # c /\ d \notin pairing[c].replaces /\ e \notin pairing[c].replaces
    BY <1>1, <1>8, <2>2, <2>6 DEF Meets
  <2> QED BY <2>3, <2>4, <2>5, <2>6
<1>13. \A d \in Codes : pairing[d].status \notin {"none", "asking", "pending"} => pairing'[d] = pairing[d]
  BY <1>1, <1>4, <1>8
<1>14. Answering'
  <2>1. \A q \in Resolvers : resolver[q] # NotResolving => resolver[q].code \in Codes
    BY PairingTypes DEF PairingInv, Resolving
  <2>2. \A d \in Codes : Asked(d) /\ pairing[d].status # "asking" =>
          /\ pairing'[d].status \notin {"none", "asking"}
          /\ pairing'[d].status \in {"approved", "denied"} => pairing'[d].status = pairing[d].status
    BY <1>1, <1>8 DEF Asked
  <2>3. contested \subseteq Codes
    BY PairingTypes DEF PairingInv
  <2>4. \A d \in contested : Asked(d)'
    BY <1>8, <2>3 DEF PairingInv, Answering
  <2>5. ASSUME NEW q \in Resolvers, resolver[q] # NotResolving
        PROVE  /\ pairing'[resolver[q].code].status \notin {"none", "asking"}
               /\ pairing'[resolver[q].code].status \in {"approved", "denied"} =>
                    resolver[q].code \in contested
    BY <2>1, <2>2, <2>5 DEF PairingInv, Answering, Asked
  <2> QED BY <1>1, <2>4, <2>5 DEF PairingInv, Answering
<1>15. Credit'
  <2> SUFFICES ASSUME NEW d \in Codes, NEW m \in Names, Asked(d)', token'[m].hash = pairing'[d].hash
               PROVE  Credited(d)'
    BY DEF Credit
  <2>1. Asked(d) /\ pairing'[d].hash = pairing[d].hash
    BY <1>8
  <2>2. PICK e \in Codes : (pairing[e].status = "approved" \/ e \in contested)
                            /\ pairing[e].hash = pairing[d].hash
    BY <1>1, <2>1 DEF PairingInv, Credit, Credited
  <2>3. Asked(e)
    BY <2>2 DEF PairingInv, Answering, Asked
  <2>4. pairing'[e].hash = pairing[e].hash
    BY <1>8, <2>3
  <2>5. pairing[e].status = "approved" => pairing'[e].status = "approved"
    BY <1>13
  <2> QED BY <1>1, <2>1, <2>2, <2>4, <2>5 DEF Credited
<1> QED BY <1>9, <1>11, <1>12, <1>14, <1>15 DEF PairingInv

(* What is left to show of a step that gives one request another status.   *)
LEMMA ResolvedKeeps ==
  ASSUME PairingInv, NEW c \in Codes, Asked(c), pairing[c].status # "asking", ~Locked(c),
         NEW st \in {"expired", "approved", "denied"}, Resolved(c, st), UNCHANGED <<contested, crossed>>,
         token' \in [Names -> TokenRow],
         resolver' \in [Resolvers -> {NotResolving} \cup Resolving],
         \A q \in Resolvers : resolver'[q] # NotResolving =>
           /\ resolver'[q] = resolver[q]
           /\ st \in {"approved", "denied"} /\ resolver[q].code = c => c \in contested,
         \A n \in Names : token'[n] = token[n] \/ (st = "approved" /\ token'[n].hash = pairing[c].hash)
                            \/ token'[n].hash = token[n].hash,
         pairing[c].status = "approved" => st = "approved" \/ c \in contested
  PROVE  PairingInv'
<1>1. /\ pairing' \in [Codes -> {NoPairing} \cup PairRow]
      /\ pairing'[c].status = st /\ pairing'[c].hash = pairing[c].hash
      /\ \A d \in Codes \ {c} : pairing'[d] = pairing[d]
  BY ResolvedRows DEF PairingInv, Statuses
<1>2. PairingTypeOK'
  BY <1>1, PairingTypes DEF PairingInv, PairingTypeOK, PairRow, Statuses, TokenRow, Resolving
<1>3. Locks' /\ Traced'
  BY ResolvedGood
<1>4. \A d \in Codes : (Asked(d)' <=> Asked(d)) /\ (Asked(d) => pairing'[d].hash = pairing[d].hash)
  BY <1>1 DEF Asked
<1>5. Answering'
  <2>1. contested \subseteq Codes
    BY PairingTypes DEF PairingInv
  <2>2. \A d \in contested' : Asked(d)'
    BY <1>4, <2>1 DEF PairingInv, Answering
  <2>3. ASSUME NEW q \in Resolvers, resolver'[q] # NotResolving
        PROVE  /\ pairing'[resolver'[q].code].status \notin {"none", "asking"}
               /\ pairing'[resolver'[q].code].status \in {"approved", "denied"} =>
                    resolver'[q].code \in contested'
               /\ \A p \in Resolvers :
                    (p # q /\ resolver'[p] # NotResolving /\ resolver'[p].code = resolver'[q].code)
                      => resolver'[q].code \in contested'
    <3>1. resolver'[q] = resolver[q] /\ resolver[q] # NotResolving
      BY <2>3
    <3>2. resolver[q].code \in Codes
      BY <3>1, PairingTypes DEF PairingInv, Resolving
    <3>3. CASE resolver[q].code = c
      BY <1>1, <2>3, <3>1, <3>3 DEF PairingInv, Answering
    <3>4. CASE resolver[q].code # c
      BY <1>1, <2>3, <3>1, <3>2, <3>4 DEF PairingInv, Answering
    <3> QED BY <3>3, <3>4
  <2> QED BY <2>2, <2>3 DEF Answering
<1>6. Credit'
  <2> SUFFICES ASSUME NEW d \in Codes, NEW m \in Names, Asked(d)', token'[m].hash = pairing'[d].hash
               PROVE  Credited(d)'
    BY DEF Credit
  <2>1. Asked(d) /\ pairing'[d].hash = pairing[d].hash
    BY <1>4
  <2>2. CASE token'[m].hash = token[m].hash
    <3>1. PICK e \in Codes : (pairing[e].status = "approved" \/ e \in contested)
                              /\ pairing[e].hash = pairing[d].hash
      BY <2>1, <2>2 DEF PairingInv, Credit, Credited
    <3>2. Asked(e)
      BY <3>1 DEF PairingInv, Answering, Asked
    <3>3. pairing'[e].hash = pairing[e].hash
      BY <1>4, <3>2
    <3>4. pairing[e].status = "approved" => pairing'[e].status = "approved" \/ e \in contested
      BY <1>1
    <3> QED BY <2>1, <3>1, <3>3, <3>4 DEF Credited
  <2>3. CASE st = "approved" /\ token'[m].hash = pairing[c].hash
    BY <1>1, <2>1, <2>3 DEF Credited
  <2> QED BY <2>2, <2>3
<1> QED BY <1>2, <1>3, <1>5, <1>6 DEF PairingInv

LEMMA ExpiresGood ==
  ASSUME PairingInv, NEW c \in Codes, Expires(c)
  PROVE  PairingInv'
<1>1. Asked(c) /\ pairing[c].status = "pending" /\ ~Locked(c) /\ Resolved(c, "expired")
  BY DEF Expires, Asked, Resolved
<1>2. UNCHANGED <<token, resolver, contested, crossed>>
  BY DEF Expires
<1>3. /\ token' \in [Names -> TokenRow]
      /\ resolver' \in [Resolvers -> {NotResolving} \cup Resolving]
  BY <1>2, PairingTypes DEF PairingInv
<1> QED BY <1>1, <1>2, <1>3, ResolvedKeeps

(* A token by hand has a hash that no request has.                         *)
LEMMA IssueTokenGood ==
  ASSUME PairingInv, NEW n \in Names, NEW h \in Hashes, IssueToken(n, h)
  PROVE  PairingInv'
<1>1. /\ token' = [token EXCEPT ![n] = [hash |-> h, live |-> "yes"]]
      /\ UNCHANGED <<pairing, resolver, contested, crossed>>
  BY DEF IssueToken, CreatesToken
<1>2. token' \in [Names -> TokenRow] /\ token'[n].hash = h
      /\ \A m \in Names \ {n} : token'[m] = token[m]
  BY <1>1, PairingTypes DEF PairingInv, TokenRow
<1>3. PairingTypeOK'
  BY <1>1, <1>2, PairingTypes DEF PairingInv, PairingTypeOK, TokenRow
<1>4. Locks' /\ Traced' /\ Answering'
  BY <1>1 DEF PairingInv, Locks, Traced, Meets, SameName, Asked, Answering
<1>5. \A c \in Codes : Asked(c) => pairing[c].hash # h
  BY DEF IssueToken, Asked, NoPairing
<1>6. Credit'
  BY <1>1, <1>2, <1>5 DEF PairingInv, Credit, Credited, Asked
<1> QED BY <1>3, <1>4, <1>6 DEF PairingInv

LEMMA RevokeTokenGood ==
  ASSUME PairingInv, NEW n \in Names, RevokeToken(n)
  PROVE  PairingInv'
<1>1. /\ token' = [token EXCEPT ![n] = [hash |-> token[n].hash, live |-> "no"]]
      /\ UNCHANGED <<pairing, resolver, contested, crossed>>
  BY DEF RevokeToken
<1>2. token' \in [Names -> TokenRow] /\ \A m \in Names : token'[m].hash = token[m].hash
  BY <1>1, PairingTypes DEF PairingInv, TokenRow
<1>3. PairingTypeOK'
  BY <1>1, <1>2, PairingTypes DEF PairingInv, PairingTypeOK, TokenRow
<1>4. Locks' /\ Traced' /\ Answering'
  BY <1>1 DEF PairingInv, Locks, Traced, Meets, SameName, Asked, Answering
<1>5. Credit'
  BY <1>1, <1>2 DEF PairingInv, Credit, Credited, Asked
<1> QED BY <1>3, <1>4, <1>5 DEF PairingInv

LEMMA ResolveReadsGood ==
  ASSUME PairingInv, NEW q \in Resolvers, NEW c \in Codes, NEW approve \in {"yes", "no"},
         ResolveReads(q, c, approve)
  PROVE  PairingInv'
<1> DEFINE r == [on |-> "yes", code |-> c, approve |-> approve]
<1>1. /\ resolver[q] = NotResolving /\ pairing[c].status = "pending"
      /\ resolver' = [resolver EXCEPT ![q] = r]
      /\ contested' = IF \E p \in Resolvers : resolver[p] # NotResolving /\ resolver[p].code = c
                         THEN contested \cup {c} ELSE contested
      /\ UNCHANGED <<token, pairing, crossed>>
  BY DEF ResolveReads, Answerable
<1>2. r \in Resolving /\ r # NotResolving /\ r.code = c
  BY DEF Resolving, NotResolving
<1> HIDE DEF r
<1>3. /\ resolver' \in [Resolvers -> {NotResolving} \cup Resolving] /\ resolver'[q] = r
      /\ \A p \in Resolvers \ {q} : resolver'[p] = resolver[p]
  BY <1>1, <1>2, PairingTypes DEF PairingInv
<1>4. contested \subseteq contested' /\ contested' \in SUBSET Codes /\ contested' \subseteq contested \cup {c}
  BY <1>1, PairingTypes DEF PairingInv
<1>5. PairingTypeOK'
  BY <1>1, <1>3, <1>4, PairingTypes DEF PairingInv, PairingTypeOK, Resolving
<1>6. Locks' /\ Traced'
  BY <1>1 DEF PairingInv, Locks, Traced, Meets, SameName, Asked
<1>7. Answering'
  <2>1. \A d \in contested' : Asked(d)'
    BY <1>1, <1>4 DEF PairingInv, Answering, Asked
  <2>2. ASSUME NEW p \in Resolvers, resolver'[p] # NotResolving
        PROVE  /\ pairing'[resolver'[p].code].status \notin {"none", "asking"}
               /\ pairing'[resolver'[p].code].status \in {"approved", "denied"} =>
                    resolver'[p].code \in contested'
               /\ \A t \in Resolvers :
                    (t # p /\ resolver'[t] # NotResolving /\ resolver'[t].code = resolver'[p].code)
                      => resolver'[p].code \in contested'
    <3>1. CASE p = q
      <4>1. ASSUME NEW t \in Resolvers, t # p, resolver'[t] # NotResolving,
                   resolver'[t].code = resolver'[p].code
            PROVE  resolver'[p].code \in contested'
        <5>1. resolver[t] # NotResolving /\ resolver[t].code = c
          BY <1>2, <1>3, <3>1, <4>1
        <5> QED BY <1>1, <1>2, <1>3, <3>1, <5>1
      <4> QED BY <1>1, <1>2, <1>3, <3>1, <4>1
    <3>2. CASE p # q
      <4>1. resolver'[p] = resolver[p]
        BY <1>3, <3>2
      <4>2. ASSUME NEW t \in Resolvers, t # p, resolver'[t] # NotResolving,
                   resolver'[t].code = resolver'[p].code
            PROVE  resolver'[p].code \in contested'
        <5>1. CASE t = q
          <6>1. resolver[p] # NotResolving /\ resolver[p].code = c
            BY <1>2, <1>3, <2>2, <4>1, <4>2, <5>1
          <6> QED BY <1>1, <4>1, <6>1
        <5>2. CASE t # q
          BY <1>3, <1>4, <2>2, <4>1, <4>2, <5>2 DEF PairingInv, Answering
        <5> QED BY <5>1, <5>2
      <4> QED BY <1>1, <1>4, <2>2, <4>1, <4>2 DEF PairingInv, Answering
    <3> QED BY <3>1, <3>2
  <2> QED BY <2>1, <2>2 DEF Answering
<1>8. Credit'
  BY <1>1, <1>4 DEF PairingInv, Credit, Credited, Asked
<1> QED BY <1>5, <1>6, <1>7, <1>8 DEF PairingInv

LEMMA ResolveWritesGood ==
  ASSUME PairingInv, NEW q \in Resolvers, ResolveWrites(q)
  PROVE  PairingInv'
<1> DEFINE c == resolver[q].code
           n == pairing[c].name
           h == pairing[c].hash
<1>1. /\ resolver[q] # NotResolving /\ ~Locked(c)
      /\ resolver' = [resolver EXCEPT ![q] = NotResolving]
      /\ UNCHANGED <<contested, crossed>>
      /\ Approves(c) \/ Denies(c)
  BY DEF ResolveWrites
<1>2. /\ c \in Codes /\ Asked(c) /\ pairing[c].status # "asking"
      /\ pairing[c].status \in {"approved", "denied"} => c \in contested
  BY <1>1, PairingTypes DEF PairingInv, Answering, Asked, Resolving
<1>3. pairing[c] \in PairRow
  BY <1>2, AskedRow DEF PairingInv
<1>4. n \in Names /\ h \in Hashes
  BY <1>3 DEF PairRow
<1>5. /\ resolver' \in [Resolvers -> {NotResolving} \cup Resolving] /\ resolver'[q] = NotResolving
      /\ \A p \in Resolvers \ {q} : resolver'[p] = resolver[p]
  BY <1>1, PairingTypes DEF PairingInv
<1>6. \A p \in Resolvers : resolver'[p] # NotResolving =>
        /\ p # q /\ resolver'[p] = resolver[p]
        /\ resolver[p].code = c => c \in contested
  BY <1>1, <1>5 DEF PairingInv, Answering
<1>7. CASE CreatesToken(n, h) /\ Resolved(c, "approved")
  <2>1. token' = [token EXCEPT ![n] = [hash |-> h, live |-> "yes"]]
    BY <1>7 DEF CreatesToken
  <2>2. token' \in [Names -> TokenRow] /\ token'[n].hash = h
        /\ \A m \in Names \ {n} : token'[m] = token[m]
    BY <1>4, <2>1, PairingTypes DEF PairingInv, TokenRow
  <2> HIDE DEF n, c
  <2> QED BY <1>1, <1>2, <1>5, <1>6, <1>7, <2>2, ResolvedKeeps
<1>8. CASE Denies(c)
  <2>1. Resolved(c, "denied") /\ token' = token
    BY <1>8 DEF Denies, Resolved
  <2>2. token' \in [Names -> TokenRow]
    BY <2>1, PairingTypes DEF PairingInv
  <2> HIDE DEF c
  <2> QED BY <1>1, <1>2, <1>5, <1>6, <2>1, <2>2, ResolvedKeeps
<1>9. CASE UNCHANGED <<token, pairing>>
  <2>1. PairingTypeOK'
    BY <1>1, <1>5, <1>9, PairingTypes DEF PairingInv, PairingTypeOK, Resolving
  <2>2. Locks' /\ Traced' /\ Credit'
    BY <1>1, <1>9 DEF PairingInv, Locks, Traced, Meets, SameName, Asked, Credit, Credited
  <2>3. Answering'
    BY <1>1, <1>5, <1>6, <1>9 DEF PairingInv, Answering, Asked
  <2> QED BY <2>1, <2>2, <2>3 DEF PairingInv
<1> QED BY <1>1, <1>7, <1>8, <1>9 DEF Approves, Resolved

-----------------------------------------------------------------------------
(* The theorems of Pairing.                                                *)

LEMMA PairingInitInv == PairingInit => PairingInv
<1> SUFFICES ASSUME PairingInit PROVE PairingInv
  OBVIOUS
<1>1. \A c \in Codes : pairing[c].status = "none"
  BY DEF PairingInit, NoPairing
<1>2. PairingTypeOK
  BY PairingTypes DEF PairingInit, TokenRow, NoToken
<1>3. Locks /\ Traced /\ Answering /\ Credit
  BY <1>1 DEF PairingInit, Locks, Traced, Meets, Answering, Credit, SameName, Asked
<1> QED BY <1>2, <1>3 DEF PairingInv

LEMMA PairingStepInv == PairingInv /\ [PairingNext]_pairingVars => PairingInv'
<1> SUFFICES ASSUME PairingInv, [PairingNext]_pairingVars PROVE PairingInv'
  OBVIOUS
<1>1. ASSUME UNCHANGED pairingVars PROVE PairingInv'
  BY <1>1 DEF pairingVars, PairingInv, PairingTypeOK, Locks, Traced, Meets, Answering, Credit,
     Credited, SameName, Asked
<1> QED BY <1>1, PairAsksGood, PairStartsGood, ExpiresGood, IssueTokenGood, RevokeTokenGood,
        ResolveReadsGood, ResolveWritesGood DEF PairingNext

THEOREM PairingInvariant == PairingSpec => []PairingInv
BY PairingInitInv, PairingStepInv, PTL DEF PairingSpec

(* A live credential is never replaced, by an approval or by hand.         *)
THEOREM LiveTokens == PairingSpec => LiveTokenStands
<1> DEFINE Stands == \A n \in Names :
                       (Live(n) /\ token'[n].live = "yes") => token'[n].hash = token[n].hash
<1>1. ASSUME PairingInv, [PairingNext]_pairingVars PROVE Stands
  <2>1. token \in [Names -> TokenRow]
    BY <1>1, PairingTypes DEF PairingInv
  <2>2. CASE token' = token
    BY <2>2
  <2>3. ASSUME NEW n, NEW h, CreatesToken(n, h) PROVE Stands
    BY <2>1, <2>3 DEF CreatesToken, Live
  <2>4. ASSUME NEW n \in Names, RevokeToken(n) PROVE Stands
    BY <2>1, <2>4 DEF RevokeToken, Live
  <2>5. ASSUME NEW q \in Resolvers, ResolveWrites(q) PROVE Stands
    BY <2>2, <2>3, <2>5 DEF ResolveWrites, Approves, Denies
  <2> HIDE DEF Stands
  <2> QED BY <1>1, <2>2, <2>3, <2>4, <2>5
          DEF PairingNext, pairingVars, PairStarts, Expires, PairAsks, ResolveReads, IssueToken
<1>2. PairingInv /\ [PairingNext]_pairingVars => [Stands]_pairingVars
  BY <1>1
<1> HIDE DEF Stands
<1>3. PairingSpec => [][Stands]_pairingVars
  BY <1>2, PairingInvariant, PTL DEF PairingSpec
<1> QED BY <1>3 DEF Stands, LiveTokenStands

(* A denied token opens nothing, but for one approved in another request,  *)
(* or by an operator who answered at the same time.                        *)
THEOREM DeniedOut == PairingSpec => []DeniedStaysOut
<1>1. ASSUME PairingInv PROVE DeniedStaysOut
  <2> SUFFICES ASSUME NEW c \in With("denied") \ contested, NEW n \in Names,
                      token[n].hash = pairing[c].hash
               PROVE  \E d \in With("approved") \cup contested : pairing[d].hash = pairing[c].hash
    BY DEF DeniedStaysOut
  <2>1. c \in Codes /\ Asked(c)
    BY DEF With, Asked
  <2>2. Credited(c)
    BY <1>1, <2>1 DEF PairingInv, Credit
  <2> QED BY <2>2 DEF Credited, With
<1> QED BY <1>1, PairingInvariant, PTL

(* An operator has one request of a machine to choose, unless two of its   *)
(* starts crossed.                                                         *)
THEOREM OnePending == PairingSpec => []OnePendingPerName
<1>1. PairingInv => OnePendingPerName
  BY DEF PairingInv, Traced, Meets, SameName, Asked, OnePendingPerName, With
<1> QED BY <1>1, PairingInvariant, PTL
=============================================================================
