---------------------------- MODULE PushDelivery ----------------------------
(***************************************************************************)
(* Browser push subscriptions (casebroker/db.py save_push_subscription,    *)
(* note_push_delivery; the push routes of casebroker/app.py) and the       *)
(* delivery of a tick's notices to them (casebroker/push.py deliver).      *)
(*                                                                         *)
(* A delivery reads the subscriptions once and then sends for as long as   *)
(* the push services take; a subscription may be changed, renewed or       *)
(* deleted meanwhile, and another process may be delivering, too.  Which   *)
(* kinds a browser wants, its role is allowed and an admin has switched on *)
(* decides whether it is sent a notice: here it may be, or not.            *)
(***************************************************************************)
EXTENDS Integers, FiniteSets

CONSTANTS
  Endpoints,       \* browsers, by the address their push service gave them
  Owners, NoOwner, \* credentials: accounts, machines, share links, tokens
  Senders,         \* bound: deliveries and tests under way at once
  Leavers,         \* bound: requests to drop a subscription under way at once
  PerOwner,        \* subscriptions of one credential
  Total,           \* subscriptions in all
  DropAfter        \* failed sends in a row before a subscription is dropped

ASSUME DeliveryAssumption ==
  /\ NoOwner \notin Owners
  /\ PerOwner \in Nat \ {0} /\ Total \in Nat /\ DropAfter \in Nat \ {0}

VARIABLES
  sub,        \* push_subscriptions: whose, and how often it failed of late
  browser,    \* endpoints their push service still knows
  valid,      \* credentials that exist and are not revoked
  sending,    \* the subscriptions each delivery has read and not done with
  leaving,    \* the subscription each request to drop one has read
  streak,     \* (history) failed sends in a row since it was saved or sent to
  renewed     \* (history) endpoints saved anew while somebody had the old row

deliveryVars == <<sub, browser, valid, sending, leaving, streak, renewed>>

NoSub   == [owner |-> NoOwner, failures |-> 0]
NoLeave == [at |-> "rest"]

DeliveryInit ==
  /\ sub = [e \in Endpoints |-> NoSub]
  /\ browser = Endpoints /\ valid = Owners
  /\ sending = [p \in Senders |-> {}] /\ leaving = [l \in Leavers |-> NoLeave]
  /\ streak = [e \in Endpoints |-> 0] /\ renewed = {}

-----------------------------------------------------------------------------
Subscribed == {e \in Endpoints : sub[e] # NoSub}
SubsOf(o)  == {e \in Subscribed : sub[e].owner = o}
InHand(e)  == \/ \E p \in Senders : \E s \in sending[p] : s.endpoint = e
              \/ \E l \in Leavers : leaving[l] # NoLeave /\ leaving[l].endpoint = e

(* A request of o's to drop it is about to.                                *)
Asked(e, o) ==
  \E l \in Leavers : leaving[l].at = "drop" /\ leaving[l].endpoint = e /\ leaving[l].owner = o

(* Subscriptions and credentials.                                          *)

NewSub(o) == [owner |-> o, failures |-> 0]

(* save_push_subscription.  A new one beyond PerOwner pushes out another   *)
(* of the same credential; which is the least recently used, is left open. *)
MakesRoom(out, o) ==
  /\ out \subseteq SubsOf(o)
  /\ Cardinality(out) = LET n == Cardinality(SubsOf(o)) - PerOwner + 1
                        IN IF n < 0 THEN 0 ELSE n

Saves(e, o) ==
  /\ \/ e \in Subscribed /\ sub' = [sub EXCEPT ![e] = NewSub(o)]
     \/ /\ e \notin Subscribed /\ Cardinality(Subscribed) < Total
        /\ \E out \in SUBSET Endpoints :
             /\ MakesRoom(out, o)
             /\ sub' = [f \in Endpoints |-> IF f = e THEN NewSub(o) ELSE IF f \in out THEN NoSub ELSE sub[f]]
  /\ streak' = [streak EXCEPT ![e] = 0]
  /\ renewed' = IF InHand(e) THEN renewed \cup {e} ELSE renewed
  /\ UNCHANGED <<browser, valid, sending>>

(* push_subscribe that replaces nothing.                                   *)
Save(e, o) ==
  /\ o \in valid /\ e \in browser
  /\ Saves(e, o) /\ UNCHANGED leaving

(* push_unsubscribe has found its row the caller's; or push_subscribe the  *)
(* row its new endpoint replaces, and is to save the new one first.        *)
Leave(e, step, new) == [at |-> step, endpoint |-> e, owner |-> sub[e].owner, new |-> new]

FindsOwn(l, e, step, new) ==
  /\ leaving[l] = NoLeave /\ e \in Subscribed /\ sub[e].owner \in valid
  /\ new = e <=> step = "drop"
  /\ leaving' = [leaving EXCEPT ![l] = Leave(e, step, new)]
  /\ UNCHANGED <<sub, browser, valid, sending, streak, renewed>>

SavesFirst(l) ==
  /\ leaving[l].at = "save"
  /\ Saves(leaving[l].new, leaving[l].owner)
  /\ leaving' = [leaving EXCEPT ![l] = [at |-> "drop", endpoint |-> leaving[l].endpoint,
                                        owner |-> leaving[l].owner, new |-> leaving[l].endpoint]]

Deleted(e) == sub' = [sub EXCEPT ![e] = NoSub]

(* By its endpoint alone, whosever the row is by now.                      *)
Unsubscribes(l) ==
  /\ leaving[l].at = "drop"
  /\ Deleted(leaving[l].endpoint)
  /\ leaving' = [leaving EXCEPT ![l] = NoLeave]
  /\ UNCHANGED <<browser, valid, sending, streak, renewed>>

(* There is no room for the new one, or the process goes away.             *)
DropFails(l) ==
  /\ leaving[l] # NoLeave /\ leaving' = [leaving EXCEPT ![l] = NoLeave]
  /\ UNCHANGED <<sub, browser, valid, sending, streak, renewed>>

(* The browser itself unsubscribes: last, when the page switches it off.   *)
Leaves(e) ==
  /\ e \in browser /\ browser' = browser \ {e}
  /\ UNCHANGED <<sub, valid, sending, leaving, streak, renewed>>

Withdraw(o) ==
  /\ o \in valid /\ valid' = valid \ {o}
  /\ UNCHANGED <<sub, browser, sending, leaving, streak, renewed>>

-----------------------------------------------------------------------------
(* deliver, with a tick's notices, and send_test, with one subscription.   *)

Read(e, checked) == [endpoint |-> e, owner |-> sub[e].owner, checked |-> checked]

DeliveryBegins(p, es) ==
  /\ sending[p] = {} /\ es # {} /\ es \subseteq Subscribed
  /\ sending' = [sending EXCEPT ![p] = {Read(e, "no") : e \in es}]
  /\ UNCHANGED <<sub, browser, valid, leaving, streak, renewed>>

Without(p, s) == sending' = [sending EXCEPT ![p] = sending[p] \ {s}]

(* Sent all there is for it, or it wants none.                             *)
Passes(p, s) ==
  /\ s \in sending[p] /\ Without(p, s)
  /\ UNCHANGED <<sub, browser, valid, leaving, streak, renewed>>

(* Its role is looked up once, before the first notice to it.              *)
Checks(p, s) ==
  /\ s \in sending[p] /\ s.checked = "no" /\ s.owner \in valid
  /\ sending' = [sending EXCEPT ![p] = (sending[p] \ {s}) \cup {[s EXCEPT !.checked = "yes"]}]
  /\ UNCHANGED <<sub, browser, valid, leaving, streak, renewed>>

(* The credential it was made with is gone.                                *)
DropsOrphan(p, s) ==
  /\ s \in sending[p] /\ s.checked = "no" /\ s.owner \notin valid
  /\ Deleted(s.endpoint)
  /\ Without(p, s)
  /\ UNCHANGED <<browser, valid, leaving, streak, renewed>>

(* note_push_delivery.  The push service took it ...                       *)

(* Wrong: a success leaves the failures before it counted.                 *)
StillCounted(e) == sub[e].failures

AfterSuccess(e) == 0

Succeeds(p, s) ==
  /\ s \in sending[p] /\ s.checked = "yes" /\ s.endpoint \in browser
  /\ sub' = IF s.endpoint \in Subscribed
              THEN [sub EXCEPT ![s.endpoint] = [owner |-> sub[s.endpoint].owner,
                                                failures |-> AfterSuccess(s.endpoint)]]
              ELSE sub
  /\ streak' = [streak EXCEPT ![s.endpoint] = 0]
  /\ UNCHANGED <<browser, valid, sending, leaving, renewed>>

(* ... or does not know the browser any more ...                           *)
Gone(p, s) ==
  /\ s \in sending[p] /\ s.checked = "yes" /\ s.endpoint \notin browser
  /\ Deleted(s.endpoint)
  /\ Without(p, s)
  /\ UNCHANGED <<browser, valid, leaving, streak, renewed>>

(* ... or failed otherwise, which too often in a row drops it.             *)
TooOften(n) == n >= DropAfter

SendFails(p, s) ==
  /\ s \in sending[p] /\ s.checked = "yes" /\ s.endpoint \in Subscribed
  /\ LET e == s.endpoint
         n == sub[e].failures + 1
     IN IF TooOften(n)
          THEN /\ Deleted(e)
               /\ Without(p, s)
          ELSE /\ sub' = [sub EXCEPT ![e] = [owner |-> sub[e].owner, failures |-> n]]
               /\ UNCHANGED sending
  /\ streak' = [streak EXCEPT ![s.endpoint] = streak[s.endpoint] + 1]
  /\ UNCHANGED <<browser, valid, leaving, renewed>>

(* The process goes away.                                                  *)
DeliveryStops(p) ==
  /\ sending[p] # {} /\ sending' = [sending EXCEPT ![p] = {}]
  /\ UNCHANGED <<sub, browser, valid, leaving, streak, renewed>>

-----------------------------------------------------------------------------
DeliveryNext ==
  \/ \E e \in Endpoints : Leaves(e) \/ \E o \in Owners : Save(e, o)
  \/ \E l \in Leavers :
       \/ SavesFirst(l) \/ Unsubscribes(l) \/ DropFails(l)
       \/ \E e, new \in Endpoints, step \in {"save", "drop"} : FindsOwn(l, e, step, new)
  \/ \E o \in Owners : Withdraw(o)
  \/ \E p \in Senders :
       \/ DeliveryStops(p) \/ \E es \in SUBSET Endpoints : DeliveryBegins(p, es)
       \/ \E s \in sending[p] :
            \/ Checks(p, s) \/ Passes(p, s) \/ DropsOrphan(p, s)
            \/ Succeeds(p, s) \/ Gone(p, s) \/ SendFails(p, s)

DeliverySpec == DeliveryInit /\ [][DeliveryNext]_deliveryVars

-----------------------------------------------------------------------------
(* The type of every variable.                                             *)
DeliveryTypeOK ==
  /\ sub \in [Endpoints -> {NoSub} \cup [owner : Owners, failures : 0..(DropAfter - 1)]]
  /\ browser \in SUBSET Endpoints /\ valid \in SUBSET Owners
  /\ sending \in [Senders -> SUBSET [endpoint : Endpoints, owner : Owners, checked : {"yes", "no"}]]
  /\ leaving \in [Leavers -> {NoLeave} \cup
       [at : {"save", "drop"}, endpoint : Endpoints, owner : Owners, new : Endpoints]]
  /\ streak \in [Endpoints -> 0..DropAfter] /\ renewed \in SUBSET Endpoints

(* A subscription is let go only when its owner asked for that, its        *)
(* browser is gone, its credential is, DropAfter sends in a row have       *)
(* failed since it was saved or reached, or its owner took a newer one --  *)
(* unless it was saved anew while a delivery or a request went by the row  *)
(* before.                                                                 *)
DroppedForCause ==
  [][\A e \in Subscribed :
       sub'[e] = NoSub =>
         \/ Asked(e, sub[e].owner)
         \/ e \notin browser \/ sub[e].owner \notin valid
         \/ streak'[e] = DropAfter
         \/ e \in renewed
         \/ \E f \in Endpoints \ Subscribed : sub'[f].owner = sub[e].owner]_deliveryVars
=============================================================================
