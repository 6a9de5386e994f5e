------------------------------- MODULE SignIn -------------------------------
(***************************************************************************)
(* The two doors that take no credential: a login by password (auth_login  *)
(* of casebroker/app.py) and the redeeming of a read-only share link       *)
(* (auth_share), with the throttle both keep in the memory of the process  *)
(* and the links of table share_links.                                     *)
(*                                                                         *)
(* A request takes the throttle's lock, lets it go, and only then checks   *)
(* the password or the token: what many of them do at once lies between.   *)
(*                                                                         *)
(* What an account may do is module Accounts.  The address is what         *)
(* _client_addr makes of the request; a forged header is another address.  *)
(***************************************************************************)
EXTENDS Integers, Sequences, SequencesExt

CONSTANTS
  LoginNames, Addresses, \* what logins name, and where they come from
  Knocks,                \* requests at once
  Links,                 \* share links ever made
  NameLimit,             \* LOGIN_FAIL_LIMIT
  AddrLimit,             \* LOGIN_FAIL_ADDR_LIMIT
  MaxKeys,               \* LOGIN_FAIL_MAX_KEYS
  LiveLinks,             \* MAX_ACTIVE_SHARE_LINKS
  MaxClock               \* bound: the clock, in windows of LOGIN_FAIL_WINDOW

ASSUME SignInAssumption ==
  {NameLimit, AddrLimit, MaxKeys, LiveLinks, MaxClock} \subseteq Nat \ {0}

VARIABLES
  failures, \* _login_failures: per key, when it was charged
  knock,    \* what each request is at
  shared,   \* per share link: its row
  clock,
  tried     \* history: per key, when a password was checked or an unknown
            \* token presented, since the last right password

signInVars == <<failures, knock, shared, clock, tried>>

(* The keys: a name at an address, an address for all names, and an        *)
(* address for share links.                                                *)
NameKey(n, a)  == [for |-> "name", name |-> n, addr |-> a]
AddrKey(a)     == [for |-> "addr", name |-> "any", addr |-> a]
ShareKey(a)    == [for |-> "share", name |-> "any", addr |-> a]
LoginKeys      == {NameKey(n, a) : n \in LoginNames, a \in Addresses} \cup {AddrKey(a) : a \in Addresses}
Keys           == LoginKeys \cup {ShareKey(a) : a \in Addresses}
Limit(k)       == IF k.for = "name" THEN NameLimit ELSE AddrLimit

Outside == [at |-> "outside"]

SignInInit ==
  /\ failures = [k \in Keys |-> <<>>]
  /\ knock = [r \in Knocks |-> Outside]
  /\ shared = [l \in Links |-> "none"]
  /\ clock = 0
  /\ tried = [k \in Keys |-> <<>>]

(* Of the times at which a key was charged those of this window remain:    *)
(* each of them is now, as the clock counts.                               *)
InWindow(times) == Cardinality({i \in DOMAIN times : times[i] = clock})
Recent(times)   == [i \in 1 .. InWindow(times) |-> clock]
Full(k)         == Len(Recent(failures[k])) >= Limit(k)

-----------------------------------------------------------------------------
(* The history is kept for a window, as the throttle is.                   *)
NextWindow ==
  /\ clock < MaxClock /\ clock' = clock + 1
  /\ tried' = [k \in Keys |-> <<>>]
  /\ UNCHANGED <<failures, knock, shared>>

(* Over the cap of keys, the one charged longest ago is dropped.           *)
DroppedFrom(f) ==
  LET held == {k \in Keys : f[k] # <<>>}
  IN IF Cardinality(held) <= MaxKeys THEN {{}}
     ELSE {{k} : k \in {k \in held : \A other \in held : Last(f[k]) <= Last(f[other])}}

Letting(f, dropped) == [k \in DOMAIN f |-> IF k \in dropped THEN <<>> ELSE f[k]]

(* Wrong: the charge is left to the failure.                               *)
NotYetCharged(k) == Recent(failures[k])

(* Charged before the password is looked at, and not after.                *)
Charged(k) == Append(Recent(failures[k]), clock)

(* The name is charged before the address is asked: a try that the address *)
(* refuses has charged its name.                                           *)
Login(r, n, a) ==
  LET name == NameKey(n, a)
      addr == AddrKey(a)
      named == [failures EXCEPT ![name] = IF Full(name) THEN Recent(failures[name]) ELSE Charged(name)]
      both  == [named EXCEPT ![addr] = IF Full(addr) THEN Recent(failures[addr]) ELSE Charged(addr)]
  IN /\ knock[r].at = "outside"
     /\ IF Full(name) \/ Full(addr)
        THEN /\ failures' = IF Full(name) THEN named ELSE both
             /\ UNCHANGED <<knock, tried>>
        ELSE \E dropped \in DroppedFrom(both) :
               /\ failures' = Letting(both, dropped)
               /\ tried' = Letting([tried EXCEPT ![name] = Append(@, clock), ![addr] = Append(@, clock)],
                                   dropped)
               /\ knock' = [knock EXCEPT ![r] = [at |-> "password", name |-> n, addr |-> a]]
     /\ UNCHANGED <<shared, clock>>

WrongPassword(r) ==
  /\ knock[r].at = "password"
  /\ knock' = [knock EXCEPT ![r] = Outside]
  /\ UNCHANGED <<failures, shared, clock, tried>>

(* The right password lets go of every charge of its name and its address, *)
(* those of tries still under way included.                                *)
RightPassword(r) ==
  /\ knock[r].at = "password"
  /\ LET paid == {NameKey(knock[r].name, knock[r].addr), AddrKey(knock[r].addr)}
     IN failures' = Letting(failures, paid) /\ tried' = Letting(tried, paid)
  /\ knock' = [knock EXCEPT ![r] = Outside]
  /\ UNCHANGED <<shared, clock>>

-----------------------------------------------------------------------------
(* A link, or a token that is none of this broker's.                       *)
Tokens == Links \cup {"made up"}

Given(t)   == IF t = "made up" THEN TRUE ELSE shared[t] # "none"
Unknown(t) == IF t = "made up" THEN TRUE ELSE shared[t] = "forgotten"

(* Wrong: a link that has ended is charged too.                            *)
NotLive(t) == IF t = "made up" THEN TRUE ELSE shared[t] # "live"

Counts(t) == Unknown(t)

(* Here the charge comes after the look, for a token that is not known.    *)
Presents(r, t, a) ==
  /\ knock[r].at = "outside" /\ Given(t)
  /\ failures' = [failures EXCEPT ![ShareKey(a)] = Recent(@)]
  /\ knock' = IF Full(ShareKey(a)) THEN knock
              ELSE [knock EXCEPT ![r] = [at |-> "token", token |-> t, addr |-> a, since |-> clock]]
  /\ UNCHANGED <<shared, clock, tried>>

Redeems(r) ==
  LET t      == knock[r].token
      a      == knock[r].addr
      charge == [failures EXCEPT ![ShareKey(a)] = Append(@, knock[r].since)]
  IN /\ knock[r].at = "token"
     /\ knock' = [knock EXCEPT ![r] = Outside]
     /\ \E dropped \in IF Counts(t) THEN DroppedFrom(charge) ELSE {{}} :
          /\ failures' = IF Counts(t) THEN Letting(charge, dropped) ELSE failures
          /\ tried' = IF Unknown(t) /\ knock[r].since = clock
                      THEN Letting([tried EXCEPT ![ShareKey(a)] = Append(@, clock)], dropped)
                      ELSE Letting(tried, dropped)
     /\ UNCHANGED <<shared, clock>>

(* purge_share_links: of those that ended, any may have ended long ago.    *)
Ended == {x \in Links : shared[x] \in {"expired", "revoked"}}

(* Links that ended long ago are forgotten; a new one needs room.          *)
CreateShare(l) ==
  /\ shared[l] = "none"
  /\ \E old \in SUBSET Ended :
       shared' = [x \in Links |->
         IF x \in old THEN "forgotten"
         ELSE IF x = l /\ Cardinality({y \in Links : shared[y] = "live"}) < LiveLinks THEN "live"
         ELSE shared[x]]
  /\ UNCHANGED <<failures, knock, clock, tried>>

ShareEnds(l, how) ==
  /\ shared[l] = "live" \/ (shared[l] = "expired" /\ how = "revoked")
  /\ shared' = [shared EXCEPT ![l] = how]
  /\ UNCHANGED <<failures, knock, clock, tried>>

SignInNext ==
  \/ NextWindow
  \/ \E r \in Knocks :
       \/ \E a \in Addresses : \/ \E n \in LoginNames : Login(r, n, a)
                               \/ \E t \in Tokens : Presents(r, t, a)
       \/ WrongPassword(r) \/ RightPassword(r) \/ Redeems(r)
  \/ \E l \in Links : CreateShare(l) \/ \E how \in {"expired", "revoked"} : ShareEnds(l, how)

SignInSpec == SignInInit /\ [][SignInNext]_signInVars

-----------------------------------------------------------------------------
(* However many tries run at once, no more passwords are checked in one    *)
(* window than the limits of their name and their address allow, unless    *)
(* one was right or the key was dropped for want of room.                  *)
ChecksAreFew == \A k \in LoginKeys : Len(tried[k]) <= Limit(k)

(* Who presents links this broker knows is never locked out for it, dead   *)
(* though they may be: the door of links closes for made-up ones only.     *)
FriendsGetIn == \A a \in Addresses : Full(ShareKey(a)) => Len(tried[ShareKey(a)]) >= AddrLimit
=============================================================================
