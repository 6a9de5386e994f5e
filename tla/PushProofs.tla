----------------------------- MODULE PushProofs -----------------------------
(***************************************************************************)
(* Theorems of PushDelivery and of PushWatcher.                            *)
(*                                                                         *)
(* Delivery: the failures counted are the sends that failed in a row, and  *)
(* a row a delivery or a request has in hand still has the credential it   *)
(* read, unless the endpoint was saved anew meanwhile.                     *)
(*                                                                         *)
(* Watcher: a tick's page lies behind the cursor it read and up to the one *)
(* it is to write, and accounts for every event between; and as long as a  *)
(* condition announced lasts, the state says so, and no tick that could    *)
(* still claim it has read otherwise.                                      *)
(***************************************************************************)
EXTENDS PushWatcher, PushDelivery, FiniteSetTheorems, TLAPS

SubRow  == {NoSub} \cup [owner : Owners, failures : 0..(DropAfter - 1)]
SendRow == [endpoint : Endpoints, owner : Owners, checked : {"yes", "no"}]
Going   == [at : {"save", "drop"}, endpoint : Endpoints, owner : Owners, new : Endpoints]
Leaving == {NoLeave} \cup Going

Counted == \A e \in Subscribed : sub[e].failures = streak[e]

InHandTrue ==
  \A p \in Senders : \A s \in sending[p] :
    (s.endpoint \in Subscribed /\ s.endpoint \notin renewed) => sub[s.endpoint].owner = s.owner

LeavingTrue ==
  \A l \in Leavers :
    /\ leaving[l] # NoLeave
    /\ leaving[l].endpoint \in Subscribed /\ leaving[l].endpoint \notin renewed
    => sub[leaving[l].endpoint].owner = leaving[l].owner

DeliveryInv == DeliveryTypeOK /\ Counted /\ InHandTrue /\ LeavingTrue

(* What a step may do to a subscription that is there.                     *)
Justified ==
  \A e \in Subscribed :
    sub'[e] = NoSub =>
      \/ Asked(e, sub[e].owner)
      \/ e \notin browser \/ sub[e].owner \notin valid
      \/ streak'[e] = DropAfter
      \/ e \in renewed
      \/ \E f \in Endpoints \ Subscribed : sub'[f].owner = sub[e].owner

DeliveryGood == DeliveryInv' /\ Justified

-----------------------------------------------------------------------------
(* Subscriptions.                                                          *)

LEMMA DropAfterType ==
  DropAfter \in Nat /\ DropAfter >= 1 /\ NoOwner \notin Owners
BY DeliveryAssumption DEF DeliveryAssumption

LEMMA DeliveryTypes ==
  DeliveryTypeOK <=>
    /\ sub \in [Endpoints -> SubRow]
    /\ browser \in SUBSET Endpoints /\ valid \in SUBSET Owners
    /\ sending \in [Senders -> SUBSET SendRow]
    /\ leaving \in [Leavers -> Leaving]
    /\ streak \in [Endpoints -> 0..DropAfter] /\ renewed \in SUBSET Endpoints
BY DEF DeliveryTypeOK, SubRow, SendRow, Leaving, Going

(* A request under way has a row.                                          *)
LEMMA LeavingRow ==
  ASSUME DeliveryInv, NEW l \in Leavers, leaving[l] # NoLeave
  PROVE  leaving[l] \in Going
BY DeliveryTypes DEF DeliveryInv, Leaving

LEMMA GoingRow ==
  ASSUME NEW r \in Going
  PROVE  /\ r # NoLeave /\ r.endpoint \in Endpoints /\ r.owner \in Owners /\ r.new \in Endpoints
         /\ r.at \in {"save", "drop"}
BY DEF Going, NoLeave

(* A subscription's row, and a new one.                                    *)
LEMMA SubRows ==
  /\ \A r \in SubRow : r # NoSub => r.owner \in Owners /\ r.failures \in 0..(DropAfter - 1)
  /\ \A o \in Owners, n \in 0..(DropAfter - 1) :
       LET r == [owner |-> o, failures |-> n]
       IN r \in SubRow /\ r # NoSub /\ r.owner = o /\ r.failures = n
<1>1. \A r \in SubRow : r # NoSub => r.owner \in Owners /\ r.failures \in 0..(DropAfter - 1)
  BY DEF SubRow
<1>2. ASSUME NEW o \in Owners, NEW n \in 0..(DropAfter - 1)
      PROVE  LET r == [owner |-> o, failures |-> n]
             IN r \in SubRow /\ r # NoSub /\ r.owner = o /\ r.failures = n
  BY DropAfterType DEF SubRow, NoSub
<1> QED BY <1>1, <1>2

LEMMA NoSubRow == NoSub \in SubRow /\ 0 \in 0..(DropAfter - 1) /\ 0 \in 0..DropAfter
BY DropAfterType DEF SubRow

(* Deliveries: each step of sending takes rows off or marks one checked.   *)
LEMMA OnlySending ==
  ASSUME DeliveryInv, UNCHANGED <<sub, browser, streak, renewed>>, valid' \in SUBSET Owners,
         sending' \in [Senders -> SUBSET SendRow], InHandTrue',
         leaving' \in [Leavers -> Leaving], LeavingTrue'
  PROVE  DeliveryGood
<1>1. DeliveryTypeOK'
  BY DeliveryTypes DEF DeliveryInv, DeliveryTypeOK, SendRow, Leaving, Going
<1>2. Counted'
  BY DEF DeliveryInv, Counted, Subscribed
<1>3. Justified
  BY DEF Justified, Subscribed
<1> QED BY <1>1, <1>2, <1>3 DEF DeliveryGood, DeliveryInv

(* Requests as they were, or fewer.                                        *)
LEMMA LeavingStays ==
  ASSUME DeliveryInv, UNCHANGED leaving
  PROVE  leaving' \in [Leavers -> Leaving]
BY DeliveryTypes DEF DeliveryInv

LEMMA LeavingTrueStays ==
  ASSUME LeavingTrue, UNCHANGED <<sub, renewed>>,
         \A l \in Leavers : leaving'[l] = NoLeave \/ leaving'[l] = leaving[l]
  PROVE  LeavingTrue'
BY DEF LeavingTrue, Subscribed

(* One subscription is gone, for a cause.                                  *)
LEMMA DeletedGood ==
  ASSUME DeliveryInv, NEW e \in Endpoints, Deleted(e), UNCHANGED <<browser, valid, renewed>>,
         \A p \in Senders : sending'[p] \subseteq sending[p],
         sending' \in [Senders -> SUBSET SendRow],
         streak' \in [Endpoints -> 0..DropAfter],
         \A f \in Endpoints \ {e} : streak'[f] = streak[f],
         leaving' \in [Leavers -> Leaving],
         \A l \in Leavers : leaving'[l] = NoLeave \/ leaving'[l] = leaving[l],
         e \in Subscribed => \/ Asked(e, sub[e].owner) \/ e \notin browser \/ sub[e].owner \notin valid
                             \/ streak'[e] = DropAfter \/ e \in renewed
  PROVE  DeliveryGood
<1>1. sub' \in [Endpoints -> SubRow] /\ sub'[e] = NoSub
      /\ \A f \in Endpoints \ {e} : sub'[f] = sub[f]
  BY NoSubRow, DeliveryTypes DEF DeliveryInv, Deleted
<1>2. DeliveryTypeOK'
  BY <1>1, DeliveryTypes DEF DeliveryInv, DeliveryTypeOK, SubRow, SendRow, Leaving, Going
<1>3. \A f \in Endpoints : f \in Subscribed' => f # e /\ f \in Subscribed /\ sub'[f] = sub[f]
  BY <1>1 DEF Subscribed
<1>4. Counted'
  BY <1>3 DEF DeliveryInv, Counted, Subscribed
<1>5. InHandTrue'
  BY <1>3 DEF DeliveryInv, InHandTrue, Subscribed
<1>6. Justified
  BY <1>1 DEF Justified, Subscribed
<1>7. LeavingTrue'
  <2> SUFFICES ASSUME NEW l \in Leavers, leaving'[l] # NoLeave, leaving'[l].endpoint \in Subscribed',
                      leaving'[l].endpoint \notin renewed'
               PROVE  sub'[leaving'[l].endpoint].owner = leaving'[l].owner
    BY DEF LeavingTrue
  <2>1. leaving'[l] = leaving[l]
    OBVIOUS
  <2>2. leaving[l].endpoint \in Endpoints
    BY <2>1, LeavingRow, GoingRow
  <2> QED BY <1>3, <2>1, <2>2 DEF DeliveryInv, LeavingTrue
<1> QED BY <1>2, <1>4, <1>5, <1>6, <1>7 DEF DeliveryGood, DeliveryInv

LEMMA SavesGood ==
  ASSUME DeliveryInv, NEW e \in Endpoints, NEW o \in Owners, Saves(e, o),
         leaving' \in [Leavers -> Leaving],
         \A l \in Leavers : leaving'[l] # NoLeave =>
           /\ leaving[l] # NoLeave /\ leaving'[l].endpoint = leaving[l].endpoint
           /\ leaving'[l].owner = leaving[l].owner
  PROVE  DeliveryGood
<1> DEFINE row == NewSub(o)
<1>1. row \in SubRow /\ row # NoSub /\ row.owner = o /\ row.failures = 0
  BY SubRows, NoSubRow DEF NewSub
<1>2. PICK out \in SUBSET Endpoints :
        /\ \A f \in out : f \in SubsOf(o)
        /\ e \in Subscribed => out = {}
        /\ sub' = [f \in Endpoints |-> IF f = e THEN row ELSE IF f \in out THEN NoSub ELSE sub[f]]
  <2>1. CASE e \in Subscribed
    <3>1. sub' = [sub EXCEPT ![e] = row] /\ sub \in [Endpoints -> SubRow]
      BY <2>1, DeliveryTypes DEF Saves, DeliveryInv
    <3> HIDE DEF row
    <3>2. sub' = [f \in Endpoints |-> IF f = e THEN row ELSE IF f \in {} THEN NoSub ELSE sub[f]]
      BY <3>1
    <3> WITNESS {} \in SUBSET Endpoints
    <3> QED BY <3>2
  <2>2. CASE e \notin Subscribed
    <3>1. PICK out \in SUBSET Endpoints :
            /\ MakesRoom(out, o)
            /\ sub' = [f \in Endpoints |-> IF f = e THEN row ELSE IF f \in out THEN NoSub ELSE sub[f]]
      BY <2>2 DEF Saves
    <3> HIDE DEF row
    <3>2. \A f \in out : f \in SubsOf(o)
      BY <3>1 DEF MakesRoom
    <3> QED BY <2>2, <3>1, <3>2
  <2> QED BY <2>1, <2>2
<1> HIDE DEF row
<1>3. sub' \in [Endpoints -> SubRow]
  BY <1>1, <1>2, NoSubRow, DeliveryTypes DEF DeliveryInv
<1>4. streak' = [streak EXCEPT ![e] = 0] /\ streak' \in [Endpoints -> 0..DropAfter]
      /\ streak'[e] = 0 /\ \A f \in Endpoints \ {e} : streak'[f] = streak[f]
  BY NoSubRow, DeliveryTypes DEF DeliveryInv, Saves
<1>5. UNCHANGED <<browser, valid, sending>> /\ renewed \subseteq renewed' /\ renewed' \in SUBSET Endpoints
      /\ (InHand(e) => e \in renewed')
  BY DeliveryTypes DEF DeliveryInv, Saves
<1>6. DeliveryTypeOK'
  BY <1>3, <1>4, <1>5, DeliveryTypes DEF DeliveryInv, DeliveryTypeOK, SubRow, SendRow, Leaving, Going
<1>7. \A f \in Endpoints \ {e} : f \in Subscribed' => f \in Subscribed /\ sub'[f] = sub[f]
  BY <1>2 DEF Subscribed
<1>8. sub'[e] = row
  BY <1>2
<1>9. Counted'
  BY <1>1, <1>4, <1>7, <1>8 DEF DeliveryInv, Counted, Subscribed
<1>10. InHandTrue'
  <2> SUFFICES ASSUME NEW p \in Senders, NEW s \in sending'[p], s.endpoint \in Subscribed',
                      s.endpoint \notin renewed'
               PROVE  sub'[s.endpoint].owner = s.owner
    BY DEF InHandTrue
  <2>1. s \in sending[p] /\ s.endpoint # e /\ s.endpoint \in Endpoints
    BY <1>5 DEF InHand, Subscribed
  <2> QED BY <1>5, <1>7, <2>1 DEF DeliveryInv, InHandTrue
<1>12. LeavingTrue'
  <2> SUFFICES ASSUME NEW l \in Leavers, leaving'[l] # NoLeave, leaving'[l].endpoint \in Subscribed',
                      leaving'[l].endpoint \notin renewed'
               PROVE  sub'[leaving'[l].endpoint].owner = leaving'[l].owner
    BY DEF LeavingTrue
  <2>1. leaving[l] # NoLeave /\ leaving'[l].endpoint = leaving[l].endpoint
        /\ leaving'[l].owner = leaving[l].owner
    OBVIOUS
  <2>2. leaving[l].endpoint \in Endpoints /\ leaving[l].endpoint # e
    BY <1>5, <2>1, LeavingRow, GoingRow DEF InHand
  <2> QED BY <1>5, <1>7, <2>1, <2>2 DEF DeliveryInv, LeavingTrue
<1>11. Justified
  <2> SUFFICES ASSUME NEW f \in Subscribed, sub'[f] = NoSub
               PROVE  \E g \in Endpoints \ Subscribed : sub'[g].owner = sub[f].owner
    BY DEF Justified
  <2>1. f \in Endpoints /\ f # e /\ f \in out
    BY <1>1, <1>2, <1>8 DEF Subscribed
  <2>2. e \notin Subscribed /\ sub[f].owner = o
    BY <1>2, <2>1 DEF SubsOf
  <2> QED BY <1>1, <1>8, <2>2
<1> QED BY <1>6, <1>9, <1>10, <1>11, <1>12 DEF DeliveryGood, DeliveryInv

LEMMA SaveGood ==
  ASSUME DeliveryInv, NEW e \in Endpoints, NEW o \in Owners, Save(e, o)
  PROVE  DeliveryGood
<1>1. Saves(e, o) /\ UNCHANGED leaving
  BY DEF Save
<1>2. leaving' \in [Leavers -> Leaving]
  BY <1>1, LeavingStays
<1>3. \A l \in Leavers : leaving'[l] # NoLeave =>
        /\ leaving[l] # NoLeave /\ leaving'[l].endpoint = leaving[l].endpoint
        /\ leaving'[l].owner = leaving[l].owner
  BY <1>1
<1> QED BY <1>1, <1>2, <1>3, SavesGood

LEMMA SavesFirstGood ==
  ASSUME DeliveryInv, NEW l \in Leavers, SavesFirst(l)
  PROVE  DeliveryGood
<1> DEFINE e == leaving[l].endpoint
           o == leaving[l].owner
           r == [at |-> "drop", endpoint |-> e, owner |-> o, new |-> e]
<1>1. leaving[l] # NoLeave
  BY DEF SavesFirst, NoLeave
<1>2. e \in Endpoints /\ o \in Owners /\ leaving[l].new \in Endpoints
  BY <1>1, LeavingRow, GoingRow
<1>3. r \in Going /\ r.endpoint = e /\ r.owner = o
  BY <1>2 DEF Going
<1>4. Saves(leaving[l].new, o) /\ leaving' = [leaving EXCEPT ![l] = r]
  BY DEF SavesFirst
<1> HIDE DEF r
<1>5. /\ leaving' \in [Leavers -> Leaving] /\ leaving'[l] = r
      /\ \A m \in Leavers \ {l} : leaving'[m] = leaving[m]
  BY <1>3, <1>4, DeliveryTypes DEF DeliveryInv, Leaving
<1>6. \A m \in Leavers : leaving'[m] # NoLeave =>
        /\ leaving[m] # NoLeave /\ leaving'[m].endpoint = leaving[m].endpoint
        /\ leaving'[m].owner = leaving[m].owner
  BY <1>1, <1>3, <1>5
<1> HIDE DEF e, o
<1> QED BY <1>2, <1>4, <1>5, <1>6, SavesGood

(* A request has read its row.                                             *)
LEMMA FindsOwnGood ==
  ASSUME DeliveryInv, NEW l \in Leavers, NEW e \in Endpoints, NEW new \in Endpoints,
         NEW step \in {"save", "drop"}, FindsOwn(l, e, step, new)
  PROVE  DeliveryGood
<1> DEFINE r == Leave(e, step, new)
<1>1. sub[e] \in SubRow /\ sub[e] # NoSub
  BY DeliveryTypes DEF DeliveryInv, FindsOwn, Subscribed
<1>2. r \in Going /\ r.endpoint = e /\ r.owner = sub[e].owner
  BY <1>1, SubRows DEF Leave, Going
<1>3. leaving' = [leaving EXCEPT ![l] = r] /\ UNCHANGED <<sub, browser, valid, sending, streak, renewed>>
  BY DEF FindsOwn
<1> HIDE DEF r
<1>4. /\ leaving' \in [Leavers -> Leaving] /\ leaving'[l] = r
      /\ \A m \in Leavers \ {l} : leaving'[m] = leaving[m]
  BY <1>2, <1>3, DeliveryTypes DEF DeliveryInv, Leaving
<1>5. LeavingTrue'
  BY <1>2, <1>3, <1>4 DEF DeliveryInv, LeavingTrue, Subscribed
<1>6. sending' \in [Senders -> SUBSET SendRow] /\ InHandTrue' /\ valid' \in SUBSET Owners
  BY <1>3, DeliveryTypes DEF DeliveryInv, InHandTrue, Subscribed
<1> QED BY <1>3, <1>4, <1>5, <1>6, OnlySending

LEMMA DropFailsGood ==
  ASSUME DeliveryInv, NEW l \in Leavers, DropFails(l)
  PROVE  DeliveryGood
<1> USE DEF DropFails
<1>1. /\ leaving' \in [Leavers -> Leaving]
      /\ \A m \in Leavers : leaving'[m] = NoLeave \/ leaving'[m] = leaving[m]
  BY DeliveryTypes DEF DeliveryInv, Leaving
<1>2. LeavingTrue'
  BY <1>1, LeavingTrueStays DEF DeliveryInv
<1>3. sending' \in [Senders -> SUBSET SendRow] /\ InHandTrue' /\ valid' \in SUBSET Owners
  BY DeliveryTypes DEF DeliveryInv, InHandTrue, Subscribed
<1> QED BY <1>1, <1>2, <1>3, OnlySending

(* The steps of a delivery, of a row it has in hand.                       *)
LEMMA InHandRow ==
  ASSUME DeliveryInv, NEW p \in Senders, NEW s \in sending[p]
  PROVE  s.endpoint \in Endpoints /\ s.owner \in Owners
BY DeliveryTypes DEF DeliveryInv, SendRow

LEMMA WithoutType ==
  ASSUME DeliveryInv, NEW p \in Senders, NEW s \in sending[p], Without(p, s)
  PROVE  /\ sending' \in [Senders -> SUBSET SendRow]
         /\ \A q \in Senders : sending'[q] \subseteq sending[q]
BY DeliveryTypes DEF DeliveryInv, Without

LEMMA DeliveryBeginsGood ==
  ASSUME DeliveryInv, NEW p \in Senders, NEW es \in SUBSET Endpoints, DeliveryBegins(p, es)
  PROVE  DeliveryGood
<1>1. sending' = [sending EXCEPT ![p] = {Read(e, "no") : e \in es}] /\ es \subseteq Subscribed
  BY DEF DeliveryBegins
<1>2. ASSUME NEW e \in es
      PROVE  Read(e, "no") \in SendRow /\ Read(e, "no").endpoint = e
             /\ Read(e, "no").owner = sub[e].owner
  <2>1. sub[e] \in SubRow /\ sub[e] # NoSub
    BY <1>1, <1>2, DeliveryTypes DEF DeliveryInv, Subscribed
  <2>2. sub[e].owner \in Owners
    BY <2>1, SubRows
  <2> QED BY <1>2, <2>2 DEF Read, SendRow
<1>3. sending' \in [Senders -> SUBSET SendRow]
  BY <1>1, <1>2, DeliveryTypes DEF DeliveryInv
<1>4. InHandTrue'
  <2> SUFFICES ASSUME NEW q \in Senders, NEW s \in sending'[q], s.endpoint \in Subscribed',
                      s.endpoint \notin renewed'
               PROVE  sub'[s.endpoint].owner = s.owner
    BY DEF InHandTrue
  <2>1. sub' = sub /\ renewed' = renewed /\ s.endpoint \in Subscribed
    BY DEF DeliveryBegins, Subscribed
  <2>2. CASE q = p
    <3>1. PICK e \in es : s = Read(e, "no")
      BY <1>1, <2>2, DeliveryTypes DEF DeliveryInv
    <3> QED BY <1>2, <2>1, <3>1
  <2>3. CASE q # p
    <3>1. s \in sending[q]
      BY <1>1, <2>3, DeliveryTypes DEF DeliveryInv
    <3> QED BY <2>1, <3>1 DEF DeliveryInv, InHandTrue
  <2> QED BY <2>2, <2>3
<1>5. valid' \in SUBSET Owners
  BY DeliveryTypes DEF DeliveryInv, DeliveryBegins
<1>6. leaving' \in [Leavers -> Leaving] /\ LeavingTrue'
  BY LeavingStays, LeavingTrueStays DEF DeliveryBegins, DeliveryInv
<1> QED BY <1>3, <1>4, <1>5, <1>6, OnlySending DEF DeliveryBegins

LEMMA PassesGood ==
  ASSUME DeliveryInv, NEW p \in Senders, NEW s \in sending[p], Passes(p, s)
  PROVE  DeliveryGood
<1>1. Without(p, s) /\ UNCHANGED <<sub, browser, valid, leaving, streak, renewed>>
  BY DEF Passes
<1>2. InHandTrue'
  BY <1>1, WithoutType DEF DeliveryInv, InHandTrue, Subscribed
<1>3. valid' \in SUBSET Owners
  BY <1>1, DeliveryTypes DEF DeliveryInv
<1>4. leaving' \in [Leavers -> Leaving] /\ LeavingTrue'
  BY <1>1, LeavingStays, LeavingTrueStays DEF DeliveryInv
<1> QED BY <1>1, <1>2, <1>3, <1>4, WithoutType, OnlySending

LEMMA ChecksGood ==
  ASSUME DeliveryInv, NEW p \in Senders, NEW s \in sending[p], Checks(p, s)
  PROVE  DeliveryGood
<1> DEFINE c == [s EXCEPT !.checked = "yes"]
<1>1. s \in SendRow
  BY DeliveryTypes DEF DeliveryInv
<1>2. c \in SendRow /\ c.endpoint = s.endpoint /\ c.owner = s.owner
  BY <1>1 DEF SendRow
<1>3. sending' = [sending EXCEPT ![p] = (sending[p] \ {s}) \cup {c}]
      /\ UNCHANGED <<sub, browser, valid, leaving, streak, renewed>>
  BY DEF Checks
<1> HIDE DEF c
<1>4. sending' \in [Senders -> SUBSET SendRow]
  BY <1>2, <1>3, DeliveryTypes DEF DeliveryInv
<1>5. \A q \in Senders : \A t \in sending'[q] :
        \E r \in sending[q] : t.endpoint = r.endpoint /\ t.owner = r.owner
  BY <1>2, <1>3, DeliveryTypes DEF DeliveryInv
<1>6. InHandTrue'
  BY <1>3, <1>5 DEF DeliveryInv, InHandTrue, Subscribed
<1>7. valid' \in SUBSET Owners
  BY <1>3, DeliveryTypes DEF DeliveryInv
<1>8. leaving' \in [Leavers -> Leaving] /\ LeavingTrue'
  BY <1>3, LeavingStays, LeavingTrueStays DEF DeliveryInv
<1> QED BY <1>3, <1>4, <1>6, <1>7, <1>8, OnlySending

LEMMA DropsOrphanGood ==
  ASSUME DeliveryInv, NEW p \in Senders, NEW s \in sending[p], DropsOrphan(p, s)
  PROVE  DeliveryGood
<1>1. /\ s.owner \notin valid /\ Deleted(s.endpoint) /\ Without(p, s)
      /\ UNCHANGED <<browser, valid, leaving, streak, renewed>>
  BY DEF DropsOrphan
<1>2. s.endpoint \in Subscribed => sub[s.endpoint].owner \notin valid \/ s.endpoint \in renewed
  BY <1>1 DEF DeliveryInv, InHandTrue
<1>3. streak' \in [Endpoints -> 0..DropAfter]
  BY <1>1, DeliveryTypes DEF DeliveryInv
<1> QED BY <1>1, <1>2, <1>3, InHandRow, WithoutType, LeavingStays, DeletedGood

LEMMA GoneGood ==
  ASSUME DeliveryInv, NEW p \in Senders, NEW s \in sending[p], Gone(p, s)
  PROVE  DeliveryGood
<1>1. /\ s.endpoint \notin browser /\ Deleted(s.endpoint) /\ Without(p, s)
      /\ UNCHANGED <<browser, valid, leaving, streak, renewed>>
  BY DEF Gone
<1>2. streak' \in [Endpoints -> 0..DropAfter]
  BY <1>1, DeliveryTypes DEF DeliveryInv
<1> QED BY <1>1, <1>2, InHandRow, WithoutType, LeavingStays, DeletedGood

(* A request drops its row: still its owner's, or saved anew since.        *)
LEMMA UnsubscribesGood ==
  ASSUME DeliveryInv, NEW l \in Leavers, Unsubscribes(l)
  PROVE  DeliveryGood
<1> DEFINE e == leaving[l].endpoint
<1>1. leaving[l].at = "drop" /\ Deleted(e) /\ leaving' = [leaving EXCEPT ![l] = NoLeave]
      /\ UNCHANGED <<browser, valid, sending, streak, renewed>>
  BY DEF Unsubscribes
<1>2. leaving[l] # NoLeave /\ e \in Endpoints
  BY <1>1, LeavingRow, GoingRow DEF NoLeave
<1>3. e \in Subscribed => Asked(e, sub[e].owner) \/ e \in renewed
  BY <1>1, <1>2 DEF DeliveryInv, LeavingTrue, Asked
<1>4. /\ leaving' \in [Leavers -> Leaving]
      /\ \A m \in Leavers : leaving'[m] = NoLeave \/ leaving'[m] = leaving[m]
  BY <1>1, DeliveryTypes DEF DeliveryInv, Leaving
<1>5. streak' \in [Endpoints -> 0..DropAfter] /\ sending' \in [Senders -> SUBSET SendRow]
  BY <1>1, DeliveryTypes DEF DeliveryInv
<1> HIDE DEF e
<1> QED BY <1>1, <1>2, <1>3, <1>4, <1>5, DeletedGood

(* A row stays, with another count of failures.                            *)
LEMMA CountedGood ==
  ASSUME DeliveryInv, NEW e \in Subscribed, NEW n \in 0..(DropAfter - 1),
         sub' = [sub EXCEPT ![e] = [owner |-> sub[e].owner, failures |-> n]],
         streak' = [streak EXCEPT ![e] = n],
         UNCHANGED <<browser, valid, sending, leaving, renewed>>
  PROVE  DeliveryGood
<1> DEFINE row == [owner |-> sub[e].owner, failures |-> n]
<1>1. sub[e].owner \in Owners /\ e \in Endpoints /\ sub[e] # NoSub
  BY SubRows, DeliveryTypes DEF DeliveryInv, Subscribed
<1>2. row \in SubRow /\ row # NoSub /\ row.owner = sub[e].owner /\ row.failures = n
  BY <1>1, SubRows
<1>3. sub' = [sub EXCEPT ![e] = row]
  OBVIOUS
<1> HIDE DEF row
<1>4. sub' \in [Endpoints -> SubRow] /\ sub'[e] = row
      /\ \A f \in Endpoints \ {e} : sub'[f] = sub[f]
  BY <1>1, <1>2, <1>3, DeliveryTypes DEF DeliveryInv
<1>5. streak' \in [Endpoints -> 0..DropAfter] /\ streak'[e] = n
      /\ \A f \in Endpoints \ {e} : streak'[f] = streak[f]
  BY <1>1, DropAfterType, DeliveryTypes DEF DeliveryInv
<1>6. DeliveryTypeOK'
  BY <1>4, <1>5, DeliveryTypes DEF DeliveryInv, DeliveryTypeOK, SubRow, SendRow, Leaving, Going
<1>7. Subscribed' = Subscribed
  BY <1>1, <1>2, <1>4 DEF Subscribed
<1>8. Counted'
  BY <1>2, <1>4, <1>5, <1>7 DEF DeliveryInv, Counted, Subscribed
<1>9. InHandTrue'
  BY <1>2, <1>4, <1>7 DEF DeliveryInv, InHandTrue, Subscribed
<1>10. Justified
  BY <1>2, <1>4 DEF Justified, Subscribed
<1>11. LeavingTrue'
  BY <1>2, <1>4, <1>7 DEF DeliveryInv, LeavingTrue, Subscribed
<1> QED BY <1>6, <1>8, <1>9, <1>10, <1>11 DEF DeliveryGood, DeliveryInv

LEMMA SucceedsGood ==
  ASSUME DeliveryInv, NEW p \in Senders, NEW s \in sending[p], Succeeds(p, s)
  PROVE  DeliveryGood
<1> DEFINE e == s.endpoint
<1>1. e \in Endpoints
  BY InHandRow
<1>2. CASE e \in Subscribed
  <2>1. sub' = [sub EXCEPT ![e] = [owner |-> sub[e].owner, failures |-> 0]]
    BY <1>2 DEF Succeeds, AfterSuccess
  <2>2. streak' = [streak EXCEPT ![e] = 0] /\ UNCHANGED <<browser, valid, sending, leaving, renewed>>
    BY DEF Succeeds
  <2> QED BY <1>2, <2>1, <2>2, NoSubRow, CountedGood
<1>3. CASE e \notin Subscribed
  <2>1. sub' = sub /\ streak' = [streak EXCEPT ![e] = 0]
        /\ UNCHANGED <<browser, valid, sending, leaving, renewed>>
    BY <1>3 DEF Succeeds
  <2>2. streak' \in [Endpoints -> 0..DropAfter] /\ \A f \in Endpoints \ {e} : streak'[f] = streak[f]
    BY <2>1, NoSubRow, DeliveryTypes DEF DeliveryInv
  <2> HIDE DEF e
  <2>3. DeliveryTypeOK'
    BY <2>1, <2>2, DeliveryTypes DEF DeliveryInv, DeliveryTypeOK
  <2>4. Counted' /\ InHandTrue' /\ Justified
    BY <1>3, <2>1, <2>2 DEF DeliveryInv, Counted, InHandTrue, Justified, Subscribed
  <2>5. LeavingTrue'
    BY <2>1, LeavingTrueStays DEF DeliveryInv
  <2> QED BY <2>3, <2>4, <2>5 DEF DeliveryGood, DeliveryInv
<1> QED BY <1>2, <1>3

LEMMA SendFailsGood ==
  ASSUME DeliveryInv, NEW p \in Senders, NEW s \in sending[p], SendFails(p, s)
  PROVE  DeliveryGood
<1> DEFINE e == s.endpoint
           n == sub[e].failures + 1
<1>1. e \in Subscribed /\ e \in Endpoints
  BY InHandRow DEF SendFails
<1>2. sub[e].failures \in 0..(DropAfter - 1) /\ sub[e].failures = streak[e]
  BY <1>1, SubRows, DeliveryTypes DEF DeliveryInv, Counted, Subscribed
<1>3. streak' = [streak EXCEPT ![e] = n] /\ n \in 1..DropAfter
  BY <1>2, DropAfterType DEF SendFails
<1>4. streak' \in [Endpoints -> 0..DropAfter] /\ streak'[e] = n
      /\ \A f \in Endpoints \ {e} : streak'[f] = streak[f]
  BY <1>1, <1>3, DropAfterType, DeliveryTypes DEF DeliveryInv
<1>5. CASE TooOften(n)
  <2>1. Deleted(e) /\ Without(p, s) /\ UNCHANGED <<browser, valid, leaving, renewed>>
    BY <1>5 DEF SendFails
  <2>2. n = DropAfter
    BY <1>3, <1>5, DropAfterType DEF TooOften
  <2> HIDE DEF e, n
  <2> QED BY <1>1, <1>4, <2>1, <2>2, WithoutType, LeavingStays, DeletedGood
<1>6. CASE ~TooOften(n)
  <2>1. sub' = [sub EXCEPT ![e] = [owner |-> sub[e].owner, failures |-> n]]
        /\ UNCHANGED <<browser, valid, sending, leaving, renewed>>
    BY <1>6 DEF SendFails
  <2>2. n \in 0..(DropAfter - 1)
    BY <1>3, <1>6, DropAfterType DEF TooOften
  <2> HIDE DEF e, n
  <2> QED BY <1>1, <1>3, <2>1, <2>2, CountedGood
<1> QED BY <1>5, <1>6

-----------------------------------------------------------------------------
(* The theorems of PushDelivery.                                           *)

LEMMA DeliveryInitInv == DeliveryInit => DeliveryInv
<1> SUFFICES ASSUME DeliveryInit PROVE DeliveryInv
  OBVIOUS
<1>1. DeliveryTypeOK
  BY NoSubRow, DeliveryTypes DEF DeliveryInit, Leaving
<1>2. Counted /\ InHandTrue /\ LeavingTrue
  BY DEF DeliveryInit, Counted, InHandTrue, LeavingTrue, Subscribed
<1> QED BY <1>1, <1>2 DEF DeliveryInv

LEMMA DeliveryStep ==
  ASSUME DeliveryInv, [DeliveryNext]_deliveryVars
  PROVE  DeliveryGood
<1>1. ASSUME NEW e \in Endpoints, Leaves(e) PROVE DeliveryGood
  <2>1. UNCHANGED <<sub, valid, sending, leaving, streak, renewed>> /\ browser' \in SUBSET Endpoints
    BY <1>1, DeliveryTypes DEF DeliveryInv, Leaves
  <2>2. LeavingTrue'
    BY <2>1, LeavingTrueStays DEF DeliveryInv
  <2> QED BY <2>1, <2>2 DEF DeliveryGood, DeliveryInv, DeliveryTypeOK, Counted, InHandTrue, Justified,
              Subscribed
<1>2. ASSUME NEW o \in Owners, Withdraw(o) PROVE DeliveryGood
  <2>1. UNCHANGED <<sub, browser, sending, leaving, streak, renewed>> /\ valid' \in SUBSET Owners
    BY <1>2, DeliveryTypes DEF DeliveryInv, Withdraw
  <2>2. sending' \in [Senders -> SUBSET SendRow] /\ InHandTrue'
    BY <2>1, DeliveryTypes DEF DeliveryInv, InHandTrue, Subscribed
  <2>3. leaving' \in [Leavers -> Leaving] /\ LeavingTrue'
    BY <2>1, LeavingStays, LeavingTrueStays DEF DeliveryInv
  <2> QED BY <2>1, <2>2, <2>3, OnlySending
<1>3. ASSUME NEW p \in Senders, DeliveryStops(p) PROVE DeliveryGood
  <2>1. UNCHANGED <<sub, browser, valid, leaving, streak, renewed>>
        /\ sending' \in [Senders -> SUBSET SendRow]
        /\ \A q \in Senders : sending'[q] \subseteq sending[q]
    BY <1>3, DeliveryTypes DEF DeliveryInv, DeliveryStops
  <2>2. InHandTrue' /\ valid' \in SUBSET Owners
    BY <2>1, DeliveryTypes DEF DeliveryInv, InHandTrue, Subscribed
  <2>3. leaving' \in [Leavers -> Leaving] /\ LeavingTrue'
    BY <2>1, LeavingStays, LeavingTrueStays DEF DeliveryInv
  <2> QED BY <2>1, <2>2, <2>3, OnlySending
<1>4. ASSUME UNCHANGED deliveryVars PROVE DeliveryGood
  <2>1. UNCHANGED <<sub, browser, valid, sending, leaving, streak, renewed>>
    BY <1>4 DEF deliveryVars
  <2>2. InHandTrue' /\ valid' \in SUBSET Owners /\ sending' \in [Senders -> SUBSET SendRow]
    BY <2>1, DeliveryTypes DEF DeliveryInv, InHandTrue, Subscribed
  <2>3. leaving' \in [Leavers -> Leaving] /\ LeavingTrue'
    BY <2>1, LeavingStays, LeavingTrueStays DEF DeliveryInv
  <2> QED BY <2>1, <2>2, <2>3, OnlySending
<1> QED BY <1>1, <1>2, <1>3, <1>4, DropFailsGood, UnsubscribesGood, SavesFirstGood, FindsOwnGood, SaveGood, DeliveryBeginsGood, ChecksGood,
        PassesGood, DropsOrphanGood, SucceedsGood, GoneGood, SendFailsGood DEF DeliveryNext

THEOREM DeliveryInvariant == DeliverySpec => []DeliveryInv
<1>1. DeliveryInv /\ [DeliveryNext]_deliveryVars => DeliveryInv'
  BY DeliveryStep DEF DeliveryGood
<1> QED BY <1>1, DeliveryInitInv, PTL DEF DeliverySpec

(* Every variable keeps its type: no subscription is kept that has failed  *)
(* DropAfter times.                                                        *)
THEOREM DeliveryTypesHold == DeliverySpec => []DeliveryTypeOK
<1>1. DeliveryInv => DeliveryTypeOK
  BY DEF DeliveryInv
<1> QED BY <1>1, DeliveryInvariant, PTL

(* A subscription is let go only for a cause.                              *)
THEOREM DroppedOnlyForCause == DeliverySpec => DroppedForCause
<1>1. DeliveryInv /\ [DeliveryNext]_deliveryVars => [Justified]_deliveryVars
  BY DeliveryStep DEF DeliveryGood
<1>2. DeliverySpec => [][Justified]_deliveryVars
  BY <1>1, DeliveryInvariant, PTL DEF DeliverySpec
<1> QED BY <1>2 DEF Justified, DroppedForCause

-----------------------------------------------------------------------------
(* The watcher's invariant.                                                *)

Eras     == {"none", "open", "young", "aged", "old"}
Levels   == {"clear", "between", "holds"}
Spot     == 0..MaxEvents
States   == {Never} \cup PushedState
Snapshot == [Conditions -> Levels]

TickRecords ==
  {NoTick} \cup [at : {"looked"}, raw : States]
    \cup [at : {"snapped"}, raw : PushedState, snap : Snapshot]
    \cup [at : {"stopped"}, raw : PushedState, snap : Snapshot, stop : Spot, seen : Spot]
    \cup [at : {"listed"}, raw : PushedState, snap : Snapshot, stop : Spot, seen : Spot,
          rows : SUBSET Ids, out : SUBSET Ids]
    \cup [at : {"read"}, raw : States, snap : Snapshot, rows : SUBSET Ids, cursor : Spot,
          lost : SUBSET Ids, missed : SUBSET Ids]

After(raw) == IF raw = Never THEN 0 ELSE raw.cursor

StopGood(t) == t.stop = 0 \/ t.stop > t.raw.cursor

(* What a page is short of is not visible, not before the stop, behind a   *)
(* full page, or old.                                                      *)
ListGood(t) ==
  /\ \A i \in t.rows : i > t.raw.cursor /\ (t.stop # 0 => i < t.stop) /\ i \in Visible
  /\ \A i \in Ids :
       /\ i > t.raw.cursor /\ i \notin t.out
       /\ t.stop # 0 => i < t.stop
       /\ Cardinality(t.rows) >= Page => \E j \in t.rows : i <= j
       => i \in t.rows \/ event[i] = "old"

(* A tick's page accounts for every event up to the cursor.                *)
ReadGood(t) ==
  /\ t.cursor >= After(t.raw)
  /\ \A i \in t.rows : i > After(t.raw) /\ i <= t.cursor
  /\ \A i \in Ids : i > After(t.raw) /\ i <= t.cursor =>
       i \in t.rows \cup t.lost \cup t.missed \/ event[i] = "old"

PageGood(t) ==
  /\ t.at = "stopped" => StopGood(t)
  /\ t.at = "listed" => StopGood(t) /\ ListGood(t)
  /\ t.at = "read" => ReadGood(t)

(* No tick that could still claim the state has read that a condition      *)
(* announced is over while it lasts, or holds when the state does not say. *)
SnapTrue(p, t, c) ==
  /\ t.snap[c] = "between" => c \in Hysteretic
  /\ (c \notin doubled /\ chimed[c] >= 1 /\ p \notin outrun) =>
       /\ reading[c] # "clear" => t.snap[c] # "clear"
       /\ c \notin Fired(pushed) => t.snap[c] # "holds"

SnapGood(p, t) == t.at \notin {"rest", "looked"} => \A c \in Conditions : SnapTrue(p, t, c)

TickGood(p, t) ==
  /\ t \in TickRecords /\ PageGood(t) /\ SnapGood(p, t)
  /\ (t.at # "rest" /\ p \notin outrun) => t.raw = pushed

ReadingTrue == \A c \in Conditions : reading[c] = "between" => c \in Hysteretic

TicksGood == ticking \in [Tickers -> TickRecords] /\ \A p \in Tickers : TickGood(p, ticking[p])

EventGood(i) ==
  /\ announced[i] <= 1
  /\ announced[i] >= 1 => i <= After(pushed)
  /\ i <= After(pushed) => announced[i] > 0 \/ i \in slipped \cup unborn \/ event[i] = "old"

ChimeGood(c) ==
  (c \notin doubled /\ chimed[c] >= 1) =>
    chimed[c] = 1 /\ (c \in Fired(pushed) \/ reading[c] = "clear")

WatcherInv ==
  /\ WatcherTypeOK /\ ReadingTrue /\ TicksGood
  /\ \A i \in Ids : EventGood(i)
  /\ \A c \in Conditions : ChimeGood(c)

-----------------------------------------------------------------------------
(* Types.                                                                  *)

LEMMA WatcherConstants ==
  /\ MaxEvents \in Nat /\ Page \in Nat /\ Page >= 1 /\ Remember \in Nat
  /\ Silent \cap Standing = {} /\ Hysteretic \subseteq Standing /\ IsFiniteSet(Silent)
BY WatcherAssumption DEF WatcherAssumption

LEMMA PushedStates ==
  /\ \A s \in PushedState : s # Never /\ s.cursor \in Spot /\ s.fired \in SUBSET Conditions
  /\ \A n \in Spot, fs \in SUBSET Conditions :
       LET s == [first |-> "no", cursor |-> n, fired |-> fs]
       IN s \in PushedState /\ s.cursor = n /\ s.fired = fs
BY DEF PushedState, Never, Spot

LEMMA StateTypes ==
  ASSUME NEW s \in States
  PROVE  After(s) \in Spot /\ Fired(s) \in SUBSET Conditions
BY PushedStates, WatcherConstants DEF States, After, Fired, Spot

(* What a tick has read so far.                                            *)
LEMMA TickTypes ==
  ASSUME NEW t \in TickRecords
  PROVE  /\ t.at \in {"rest", "looked", "snapped", "stopped", "listed", "read"}
         /\ t = NoTick <=> t.at = "rest"
         /\ t.at # "rest" => t.raw \in States
         /\ t.at \in {"snapped", "stopped", "listed"} => t.raw \in PushedState
         /\ t.at \in {"snapped", "stopped", "listed", "read"} => t.snap \in Snapshot
         /\ t.at \in {"stopped", "listed"} => t.stop \in Spot /\ t.seen \in Spot
         /\ t.at \in {"listed", "read"} => t.rows \in SUBSET Ids
         /\ t.at = "listed" => t.out \in SUBSET Ids
         /\ t.at = "read" => t.cursor \in Spot /\ t.lost \in SUBSET Ids /\ t.missed \in SUBSET Ids
BY DEF TickRecords, NoTick, States

LEMMA InHandTick ==
  ASSUME WatcherInv, NEW p \in Tickers
  PROVE  ticking[p] \in TickRecords /\ TickGood(p, ticking[p])
BY DEF WatcherInv, TicksGood

LEMMA PushedType ==
  ASSUME WatcherInv
  PROVE  pushed \in States
BY DEF WatcherInv, WatcherTypeOK, States

(* A tick at rest is good whatever the rest of the state.                  *)
LEMMA RestGood ==
  ASSUME NEW p \in Tickers
  PROVE  TickGood(p, NoTick)
BY DEF TickGood, PageGood, SnapGood, TickRecords, NoTick

-----------------------------------------------------------------------------
(* Steps of a tick that read.                                              *)

LEMMA GoesGood ==
  ASSUME WatcherInv, NEW p \in Tickers, NEW t, Goes(p, t), TickGood(p, t)
  PROVE  WatcherInv'
<1>1. /\ ticking' = [ticking EXCEPT ![p] = t]
      /\ UNCHANGED <<event, reading, pushed, outrun, announced, chimed, slipped, unborn, doubled>>
  BY DEF Goes
<1>2. WatcherTypeOK' /\ ReadingTrue' /\ (\A i \in Ids : EventGood(i))' /\ (\A c \in Conditions : ChimeGood(c))'
  BY <1>1 DEF WatcherInv, WatcherTypeOK, ReadingTrue, EventGood, ChimeGood
<1>3. ticking' \in [Tickers -> TickRecords] /\ ticking'[p] = t
      /\ \A q \in Tickers \ {p} : ticking'[q] = ticking[q]
  BY <1>1 DEF WatcherInv, TicksGood, TickGood
<1>4. ASSUME NEW q \in Tickers PROVE TickGood(q, ticking[q])'
  <2>1. TickGood(q, ticking'[q])
    BY <1>3, InHandTick
  <2> QED BY <1>1, <2>1 DEF TickGood, PageGood, StopGood, ListGood, ReadGood, SnapGood, SnapTrue, Visible
<1> QED BY <1>2, <1>3, <1>4 DEF WatcherInv, TicksGood

LEMMA LooksGood ==
  ASSUME WatcherInv, NEW p \in Tickers, Looks(p)
  PROVE  WatcherInv'
<1> DEFINE t == [at |-> "looked", raw |-> pushed]
<1>1. TickGood(p, t)
  BY PushedType DEF TickGood, PageGood, SnapGood, TickRecords
<1>2. Goes(p, t)
  BY DEF Looks, Goes
<1> HIDE DEF t
<1> QED BY <1>1, <1>2, GoesGood

(* What is read of the conditions is so.                                   *)
LEMMA ReadingSnap ==
  ASSUME WatcherInv, NEW p \in Tickers, NEW c \in Conditions
  PROVE  /\ reading[c] = "between" => c \in Hysteretic
         /\ (c \notin doubled /\ chimed[c] >= 1 /\ p \notin outrun) =>
              /\ reading[c] # "clear" => reading[c] # "clear"
              /\ c \notin Fired(pushed) => reading[c] # "holds"
BY DEF WatcherInv, ReadingTrue, ChimeGood

LEMMA SnapsGood ==
  ASSUME WatcherInv, NEW p \in Tickers, Snaps(p)
  PROVE  WatcherInv'
<1> DEFINE raw == ticking[p].raw
<1>1. ticking[p].at = "looked" /\ raw \in States /\ (p \notin outrun => raw = pushed)
  BY InHandTick, TickTypes DEF Snaps, TickGood
<1>2. reading \in Snapshot
  BY DEF WatcherInv, WatcherTypeOK, Snapshot, Levels
<1>3. CASE raw = Never
  <2>1. PICK newest \in 0..MaxEvents : Goes(p, HasRead(raw, reading, {}, newest, 1..newest, {}))
    BY <1>3, <1>1 DEF Snaps
  <2> DEFINE t == HasRead(raw, reading, {}, newest, 1..newest, {})
  <2>2. /\ t.at = "read" /\ t.raw = raw /\ t.snap = reading /\ t.rows = {} /\ t.cursor = newest
        /\ t.lost = 1..newest /\ t.missed = {} /\ t \in TickRecords
    BY <1>1, <1>2, WatcherConstants DEF HasRead, TickRecords, Spot, Ids
  <2> HIDE DEF t
  <2>3. ReadGood(t)
    BY <1>3, <2>2, WatcherConstants DEF ReadGood, After, Ids
  <2>4. SnapGood(p, t)
    BY <2>2, ReadingSnap DEF SnapGood, SnapTrue
  <2>5. TickGood(p, t)
    BY <1>1, <2>2, <2>3, <2>4 DEF TickGood, PageGood
  <2>6. Goes(p, t)
    BY <2>1 DEF t
  <2> HIDE DEF t
  <2> QED BY <2>5, <2>6, GoesGood
<1>4. CASE raw # Never
  <2> DEFINE t == [at |-> "snapped", raw |-> raw, snap |-> reading]
  <2>1. Goes(p, t)
    BY <1>4 DEF Snaps
  <2>2. t.at = "snapped" /\ t.raw = raw /\ t.snap = reading /\ t \in TickRecords
    BY <1>1, <1>2, <1>4 DEF TickRecords, States
  <2> HIDE DEF t
  <2>3. SnapGood(p, t)
    BY <2>2, ReadingSnap DEF SnapGood, SnapTrue
  <2>4. TickGood(p, t)
    BY <1>1, <2>2, <2>3 DEF TickGood, PageGood
  <2> QED BY <2>1, <2>4, GoesGood
<1> QED BY <1>3, <1>4
(* A tick that has its snapshot keeps it.                                  *)
LEMMA KeepsSnap ==
  ASSUME WatcherInv, NEW p \in Tickers, ticking[p].at \in {"snapped", "stopped", "listed"},
         NEW t, t.at \in {"stopped", "listed", "read"},
         t.raw = ticking[p].raw, t.snap = ticking[p].snap
  PROVE  SnapGood(p, t) /\ (p \notin outrun => t.raw = pushed)
BY InHandTick DEF TickGood, SnapGood, SnapTrue

LEMMA FindsStopGood ==
  ASSUME WatcherInv, NEW p \in Tickers, FindsStop(p)
  PROVE  WatcherInv'
<1> DEFINE raw == ticking[p].raw
           snap == ticking[p].snap
           later == {i \in Visible : i > raw.cursor}
<1>1. ticking[p].at = "snapped" /\ raw \in PushedState /\ snap \in Snapshot
  BY InHandTick, TickTypes DEF FindsStop
<1>2. PICK stop \in 0..MaxEvents, seen \in 0..MaxEvents :
        /\ Lowest(stop, {i \in later : event[i] = "young"}, 0)
        /\ Goes(p, [at |-> "stopped", raw |-> raw, snap |-> snap, stop |-> stop, seen |-> seen])
  BY DEF FindsStop
<1> DEFINE t == [at |-> "stopped", raw |-> raw, snap |-> snap, stop |-> stop, seen |-> seen]
<1>3. t.at = "stopped" /\ t.raw = raw /\ t.snap = snap /\ t.stop = stop /\ t \in TickRecords
  BY <1>1 DEF TickRecords, Spot
<1>4. stop = 0 \/ stop > raw.cursor
  BY <1>2 DEF Lowest
<1>5. Goes(p, t)
  BY <1>2
<1> HIDE DEF t
<1>6. StopGood(t)
  BY <1>3, <1>4 DEF StopGood
<1>7. TickGood(p, t)
  BY <1>1, <1>3, <1>6, KeepsSnap DEF TickGood, PageGood
<1> QED BY <1>5, <1>7, GoesGood

LEMMA ListsGood ==
  ASSUME WatcherInv, NEW p \in Tickers, Lists(p)
  PROVE  WatcherInv'
<1> DEFINE raw == ticking[p].raw
           snap == ticking[p].snap
           stop == ticking[p].stop
           seen == ticking[p].seen
           all == {i \in Visible : i > raw.cursor /\ event[i] # "old" /\ (stop # 0 => i < stop)}
<1>1. /\ ticking[p].at = "stopped" /\ raw \in PushedState /\ snap \in Snapshot
      /\ stop \in Spot /\ seen \in Spot
  BY InHandTick, TickTypes DEF Lists
<1>2. PICK rows \in SUBSET all :
        /\ PageOf(rows, all)
        /\ Goes(p, [at |-> "listed", raw |-> raw, snap |-> snap, stop |-> stop,
                    seen |-> seen, rows |-> rows, out |-> Ids \ Visible])
  BY DEF Lists
<1> DEFINE t == [at |-> "listed", raw |-> raw, snap |-> snap, stop |-> stop,
                 seen |-> seen, rows |-> rows, out |-> Ids \ Visible]
<1>3. rows \in SUBSET Ids
  BY <1>2 DEF Visible
<1>4. /\ t.at = "listed" /\ t.raw = raw /\ t.snap = snap /\ t.stop = stop /\ t.rows = rows
      /\ t.out = Ids \ Visible /\ t \in TickRecords
  BY <1>1, <1>3 DEF TickRecords
<1>5. Goes(p, t)
  BY <1>2
<1> HIDE DEF t
<1>6. StopGood(t)
  BY <1>1, <1>4, InHandTick DEF TickGood, PageGood, StopGood
<1>7. ASSUME NEW i \in Ids, i > raw.cursor, i \in Visible, stop # 0 => i < stop,
             Cardinality(rows) >= Page => \E j \in rows : i <= j
      PROVE  i \in rows \/ event[i] = "old"
  <2> SUFFICES ASSUME event[i] # "old" PROVE i \in rows
    OBVIOUS
  <2>1. i \in all
    BY <1>7
  <2>2. CASE rows = all
    BY <2>1, <2>2
  <2>3. CASE rows # all
    <3>1. Cardinality(rows) = Page
      BY <1>2, <2>3 DEF PageOf
    <3>2. PICK j \in rows : i <= j
      BY <1>7, <3>1, WatcherConstants
    <3>3. i = j \/ i < j
      BY <1>3, <3>2 DEF Ids
    <3> QED BY <1>2, <2>1, <3>2, <3>3 DEF PageOf
  <2> QED BY <2>2, <2>3
<1>8. ListGood(t)
  <2>1. \A i \in rows : i > raw.cursor /\ (stop # 0 => i < stop) /\ i \in Visible
    BY <1>2
  <2> QED BY <1>4, <1>7, <2>1 DEF ListGood
<1>9. TickGood(p, t)
  BY <1>1, <1>4, <1>6, <1>8, KeepsSnap DEF TickGood, PageGood
<1> QED BY <1>5, <1>9, GoesGood

LEMMA TopsGood ==
  ASSUME WatcherInv, NEW p \in Tickers, Tops(p)
  PROVE  WatcherInv'
<1> DEFINE raw == ticking[p].raw
           snap == ticking[p].snap
           stop == ticking[p].stop
           rows == ticking[p].rows
           out == ticking[p].out
           full == Cardinality(rows) >= Page
<1>1. /\ ticking[p].at = "listed" /\ raw \in PushedState /\ snap \in Snapshot
      /\ stop \in Spot /\ rows \in SUBSET Ids /\ out \in SUBSET Ids
  BY InHandTick, TickTypes DEF Tops
<1>2. StopGood(ticking[p]) /\ ListGood(ticking[p])
  BY <1>1, InHandTick DEF TickGood, PageGood
<1>3. raw # Never /\ raw.cursor \in Spot /\ After(raw) = raw.cursor
  BY <1>1, PushedStates DEF After
<1>4. PICK cursor \in 0..MaxEvents :
        /\ full => Highest(cursor, rows, raw.cursor)
        /\ ~full /\ stop # 0 => cursor = Before(stop)
        /\ ~full /\ stop = 0 => Highest(cursor, {i \in Visible : i > raw.cursor}, raw.cursor)
        /\ \E lost \in SUBSET Ids :
             Goes(p, HasRead(raw, snap, rows, cursor, lost, ((raw.cursor + 1)..cursor) \cap out))
  <2> DEFINE missed(c) == ((raw.cursor + 1)..c) \cap out
  <2>1. \A c : (IF c > ticking[p].seen THEN missed(c) ELSE {}) \in SUBSET Ids
    BY <1>1
  <2> QED BY <2>1 DEF Tops
<1>5. PICK lost \in SUBSET Ids :
        Goes(p, HasRead(raw, snap, rows, cursor, lost, ((raw.cursor + 1)..cursor) \cap out))
  BY <1>4
<1> DEFINE missed == ((raw.cursor + 1)..cursor) \cap out
           t == HasRead(raw, snap, rows, cursor, lost, missed)
<1>6. /\ t.at = "read" /\ t.raw = raw /\ t.snap = snap /\ t.rows = rows /\ t.cursor = cursor
      /\ t.lost = lost /\ t.missed = missed /\ t \in TickRecords
  BY <1>1 DEF HasRead, TickRecords, Spot, States
<1>7. Goes(p, t)
  BY <1>5
<1> HIDE DEF t
<1>8. /\ cursor >= raw.cursor
      /\ \A i \in rows : i <= cursor
      /\ \A i \in Ids : i > raw.cursor /\ i <= cursor =>
           (stop # 0 => i < stop) /\ (full => \E j \in rows : i <= j)
  <2>0. /\ \A i \in rows : i \in Ids /\ i > raw.cursor /\ (stop # 0 => i < stop) /\ i \in Visible
        /\ stop = 0 \/ stop > raw.cursor
    BY <1>1, <1>2 DEF ListGood, StopGood
  <2>1. CASE full
    <3>1. rows # {}
      BY <2>1, WatcherConstants, FS_EmptySet
    <3>2. cursor \in rows /\ \A i \in rows : i <= cursor
      BY <1>4, <2>1, <3>1 DEF Highest
    <3> QED BY <1>1, <1>3, <2>0, <3>2, WatcherConstants DEF Spot, Ids
  <2>2. CASE ~full /\ stop # 0
    <3>1. cursor = stop - 1
      BY <1>4, <2>2 DEF Before
    <3> QED BY <1>1, <1>3, <2>0, <2>2, <3>1, WatcherConstants DEF Spot, Ids
  <2>3. CASE ~full /\ stop = 0
    <3>1. Highest(cursor, {i \in Visible : i > raw.cursor}, raw.cursor)
      BY <1>4, <2>3
    <3>2. cursor >= raw.cursor /\ \A i \in Visible : i > raw.cursor => i <= cursor
      BY <1>3, <3>1, WatcherConstants DEF Highest, Spot, Visible, Ids
    <3> QED BY <2>0, <2>3, <3>2
  <2> QED BY <2>1, <2>2, <2>3
<1>9. ReadGood(t)
  <2>1. ASSUME NEW i \in Ids, i > raw.cursor, i <= cursor
        PROVE  i \in rows \cup lost \cup missed \/ event[i] = "old"
    <3>1. CASE i \in out
      BY <1>3, <2>1, <3>1, WatcherConstants DEF Ids, Spot
    <3>2. CASE i \notin out
      BY <1>2, <1>8, <2>1, <3>2 DEF ListGood
    <3> QED BY <3>1, <3>2
  <2>2. \A i \in rows : i > raw.cursor
    BY <1>2 DEF ListGood
  <2> HIDE DEF missed
  <2> QED BY <1>3, <1>6, <1>8, <2>1, <2>2 DEF ReadGood
<1>10. TickGood(p, t)
  BY <1>1, <1>6, <1>9, KeepsSnap DEF TickGood, PageGood
<1> QED BY <1>7, <1>10, GoesGood

-----------------------------------------------------------------------------
(* Steps of the world, and a tick that fails.                              *)

LEMMA HappensGood ==
  ASSUME WatcherInv, NEW i \in Ids, NEW from \in Eras \ {"old"}, NEW to \in Eras,
         Happens(i, from, to), from \in {"young", "aged"} => to \in {"young", "aged", "old"}
  PROVE  WatcherInv'
<1>1. /\ event' = [event EXCEPT ![i] = to] /\ event[i] = from /\ event \in [Ids -> Eras]
      /\ UNCHANGED <<reading, pushed, ticking, outrun, announced, chimed, slipped, unborn, doubled>>
  BY DEF Happens, WatcherInv, WatcherTypeOK, Eras
<1>2. event' \in [Ids -> Eras] /\ \A j \in Ids : event[j] = "old" => event'[j] = "old"
  BY <1>1 DEF Eras
<1>3. \A j \in Visible : j \in Visible'
  BY <1>1 DEF Visible, Eras
<1>4. WatcherTypeOK' /\ ReadingTrue' /\ (\A c \in Conditions : ChimeGood(c))'
  BY <1>1, <1>2 DEF WatcherInv, WatcherTypeOK, ReadingTrue, ChimeGood, Eras
<1>5. (\A j \in Ids : EventGood(j))'
  BY <1>1, <1>2 DEF WatcherInv, EventGood
<1>6. ASSUME NEW q \in Tickers PROVE TickGood(q, ticking[q])'
  <2> DEFINE t == ticking[q]
  <2>1. TickGood(q, t) /\ t' = t
    BY <1>1, InHandTick
  <2>2. t.at = "listed" => ListGood(t)'
    BY <1>1, <1>2, <1>3, <2>1 DEF TickGood, PageGood, ListGood
  <2>3. t.at = "read" => ReadGood(t)'
    BY <1>1, <1>2, <2>1 DEF TickGood, PageGood, ReadGood
  <2>4. SnapGood(q, t)'
    BY <1>1, <2>1 DEF TickGood, SnapGood, SnapTrue
  <2> QED BY <1>1, <2>1, <2>2, <2>3, <2>4 DEF TickGood, PageGood, StopGood
<1> QED BY <1>1, <1>4, <1>5, <1>6 DEF WatcherInv, TicksGood

LEMMA ChangesGood ==
  ASSUME WatcherInv, NEW c \in Conditions, NEW to \in Levels, Changes(c, to)
  PROVE  WatcherInv'
<1>1. /\ to = "between" => c \in Hysteretic
      /\ reading' = [reading EXCEPT ![c] = to] /\ reading \in [Conditions -> Levels]
      /\ reading[c] = "clear" => chimed' = [chimed EXCEPT ![c] = 0] /\ doubled' = doubled \ {c}
      /\ reading[c] # "clear" => UNCHANGED <<chimed, doubled>>
      /\ UNCHANGED <<event, pushed, ticking, outrun, announced, slipped, unborn>>
  BY DEF Changes, WatcherInv, WatcherTypeOK, Levels
<1>2. /\ reading' \in [Conditions -> Levels] /\ reading'[c] = to
      /\ \A d \in Conditions \ {c} : reading'[d] = reading[d]
  BY <1>1
<1>3. /\ chimed' \in [Conditions -> 0..2] /\ doubled' \in SUBSET Conditions
      /\ reading[c] = "clear" => chimed'[c] = 0
      /\ \A d \in Conditions \ {c} : chimed'[d] = chimed[d] /\ (d \in doubled' <=> d \in doubled)
  BY <1>1 DEF WatcherInv, WatcherTypeOK
<1>4. WatcherTypeOK' /\ ReadingTrue'
  BY <1>1, <1>2, <1>3 DEF WatcherInv, WatcherTypeOK, ReadingTrue, Levels
<1>5. (\A i \in Ids : EventGood(i))'
  BY <1>1 DEF WatcherInv, EventGood
<1>6. ASSUME NEW d \in Conditions PROVE ChimeGood(d)'
  <2>1. ChimeGood(d)
    BY DEF WatcherInv
  <2>2. CASE d = c
    <3>1. CASE reading[c] = "clear"
      BY <1>3, <2>2, <3>1 DEF ChimeGood
    <3>2. CASE reading[c] # "clear"
      BY <1>1, <2>1, <2>2, <3>2 DEF ChimeGood
    <3> QED BY <3>1, <3>2
  <2>3. CASE d # c
    BY <1>1, <1>2, <1>3, <2>1, <2>3 DEF ChimeGood
  <2> QED BY <2>2, <2>3
<1>7. ASSUME NEW q \in Tickers PROVE TickGood(q, ticking[q])'
  <2> DEFINE t == ticking[q]
  <2>1. TickGood(q, t) /\ t' = t
    BY <1>1, InHandTick
  <2>2. ASSUME NEW d \in Conditions, SnapTrue(q, t, d) PROVE SnapTrue(q, t, d)'
    <3>1. CASE d = c
      BY <1>1, <1>2, <1>3, <2>1, <2>2, <3>1 DEF SnapTrue
    <3>2. CASE d # c
      BY <1>1, <1>2, <1>3, <2>1, <2>2, <3>2 DEF SnapTrue
    <3> QED BY <3>1, <3>2
  <2>3. SnapGood(q, t)'
    BY <2>1, <2>2 DEF TickGood, SnapGood
  <2>4. PageGood(t)'
    BY <1>1, <2>1 DEF TickGood, PageGood, StopGood, ListGood, ReadGood, Visible
  <2> QED BY <1>1, <2>1, <2>3, <2>4 DEF TickGood
<1> QED BY <1>1, <1>4, <1>5, <1>6, <1>7 DEF WatcherInv, TicksGood

LEMMA ToRestGood ==
  ASSUME WatcherInv, NEW p \in Tickers,
         ticking' = [ticking EXCEPT ![p] = NoTick], outrun' = outrun \ {p},
         UNCHANGED <<event, reading, pushed, announced, chimed, slipped, unborn, doubled>>
  PROVE  WatcherInv'
<1>1. /\ ticking' = [ticking EXCEPT ![p] = NoTick] /\ outrun' = outrun \ {p}
      /\ UNCHANGED <<event, reading, pushed, announced, chimed, slipped, unborn, doubled>>
  OBVIOUS
<1>2. WatcherTypeOK' /\ ReadingTrue' /\ (\A i \in Ids : EventGood(i))' /\ (\A c \in Conditions : ChimeGood(c))'
  BY <1>1 DEF WatcherInv, WatcherTypeOK, ReadingTrue, EventGood, ChimeGood
<1>3. ticking' \in [Tickers -> TickRecords] /\ ticking'[p] = NoTick
      /\ \A q \in Tickers \ {p} : ticking'[q] = ticking[q] /\ (q \in outrun' <=> q \in outrun)
  BY <1>1 DEF WatcherInv, TicksGood, TickRecords
<1>4. ASSUME NEW q \in Tickers PROVE TickGood(q, ticking[q])'
  <2>1. CASE q = p
    BY <1>3, <2>1 DEF TickGood, PageGood, SnapGood, TickRecords, NoTick
  <2>2. CASE q # p
    <3>1. TickGood(q, ticking'[q])
      BY <1>3, <2>2, InHandTick
    <3> QED BY <1>1, <1>3, <2>2, <3>1
            DEF TickGood, PageGood, StopGood, ListGood, ReadGood, SnapGood, SnapTrue, Visible
  <2> QED BY <2>1, <2>2
<1> QED BY <1>2, <1>3, <1>4 DEF WatcherInv, TicksGood

LEMMA TickFailsGood ==
  ASSUME WatcherInv, NEW p \in Tickers, TickFails(p)
  PROVE  WatcherInv'
BY ToRestGood DEF TickFails

-----------------------------------------------------------------------------
(* A claim.                                                                *)

LEMMA NextStateType ==
  ASSUME WatcherInv, NEW p \in Tickers, ticking[p].at = "read", NEW kept \in SUBSET Silent
  PROVE  LET n == NextState(ticking[p], kept)
         IN /\ n \in PushedState /\ n # Never /\ n.cursor = ticking[p].cursor
            /\ n.fired = kept \cup (Holding(ticking[p].snap) \cap Standing)
                             \cup StillFired(ticking[p].snap, Fired(ticking[p].raw))
<1> DEFINE fs == kept \cup (Holding(ticking[p].snap) \cap Standing)
                      \cup StillFired(ticking[p].snap, Fired(ticking[p].raw))
<1>1. ticking[p].cursor \in Spot
  BY InHandTick, TickTypes
<1>2. fs \in SUBSET Conditions
  BY DEF Conditions, StillFired
<1> HIDE DEF fs
<1>3. LET s == [first |-> "no", cursor |-> ticking[p].cursor, fired |-> fs]
      IN s \in PushedState /\ s # Never /\ s.cursor = ticking[p].cursor /\ s.fired = fs
  BY <1>1, <1>2, PushedStates
<1> QED BY <1>3 DEF NextState, fs

(* A condition that is said to hold and was read as not over is kept on.   *)
LEMMA StaysFired ==
  ASSUME WatcherInv, NEW p \in Tickers, ticking[p].at = "read", NEW kept \in SUBSET Silent,
         NEW c \in Conditions, c \notin Odd(p, ticking[p], kept),
         \/ ticking[p].snap[c] = "holds"
         \/ (ticking[p].snap[c] = "between" /\ c \in Fired(ticking[p].raw))
  PROVE  c \in NextState(ticking[p], kept).fired
<1> DEFINE t == ticking[p]
<1>1. CASE t.snap[c] = "holds"
  <2>1. c \in Holding(t.snap)
    BY <1>1 DEF Holding
  <2>2. c \in Silent => c \in kept
    BY <2>1 DEF Odd
  <2> QED BY <2>1, <2>2, NextStateType DEF Conditions
<1>2. CASE t.snap[c] = "between" /\ c \in Fired(t.raw)
  <2>1. c \in Hysteretic
    BY <1>2, InHandTick DEF TickGood, SnapGood, SnapTrue
  <2>2. c \in StillFired(t.snap, Fired(t.raw))
    BY <1>2, <2>1, WatcherConstants DEF StillFired
  <2> QED BY <2>2, NextStateType
<1> QED BY <1>1, <1>2

LEMMA AnnouncesTypes ==
  ASSUME WatcherInv, NEW p \in Tickers, ticking[p].at = "read", Announces(ticking[p]),
         NEW kept \in SUBSET Silent, doubled' = doubled \cup Odd(p, ticking[p], kept)
  PROVE  /\ announced' \in [Ids -> 0..2] /\ chimed' \in [Conditions -> 0..2]
         /\ slipped' \in SUBSET Ids /\ unborn' \in SUBSET Ids /\ doubled' \in SUBSET Conditions
<1>1. announced' \in [Ids -> 0..2] /\ chimed' \in [Conditions -> 0..2]
  BY DEF WatcherInv, WatcherTypeOK, Announces, More
<1>2. slipped' \in SUBSET Ids /\ unborn' \in SUBSET Ids
  BY InHandTick, TickTypes DEF WatcherInv, WatcherTypeOK, Announces
<1>3. ticking[p].raw \in States
  BY InHandTick, TickTypes
<1>4. Fired(ticking[p].raw) \in SUBSET Conditions
  BY <1>3, StateTypes
<1>5. doubled' \in SUBSET Conditions
  BY <1>4 DEF WatcherInv, WatcherTypeOK, Odd, Fresh, Holding
<1> QED BY <1>1, <1>2, <1>5

(* The events: those of the page lie behind the state's cursor, if the     *)
(* claim moves it.                                                         *)
LEMMA ClaimsEvents ==
  ASSUME WatcherInv, NEW p \in Tickers, ticking[p].at = "read", NEW kept \in SUBSET Silent,
         Announces(ticking[p]), UNCHANGED event,
         \/ NextState(ticking[p], kept) = ticking[p].raw /\ pushed' = pushed
         \/ pushed = ticking[p].raw /\ pushed' = NextState(ticking[p], kept),
         NEW i \in Ids
  PROVE  EventGood(i)'
<1> DEFINE t == ticking[p]
           new == NextState(t, kept)
<1>1. EventGood(i) /\ announced[i] \in 0..2 /\ i \in Nat
  BY WatcherConstants DEF WatcherInv, WatcherTypeOK, Ids
<1>2. t.raw \in States /\ t.cursor \in Spot /\ ReadGood(t)
  BY InHandTick, TickTypes DEF TickGood, PageGood
<1>3. announced'[i] = IF i \in t.rows THEN More(announced[i]) ELSE announced[i]
  BY DEF Announces
<1>4. After(new) = t.cursor
  BY NextStateType DEF After
<1>5. slipped' = slipped \cup t.lost /\ unborn' = unborn \cup t.missed
  BY DEF Announces
<1>6. After(t.raw) \in Spot /\ After(pushed) \in Spot
  BY <1>2, PushedType, StateTypes
<1>7. CASE new = t.raw /\ pushed' = pushed
  <2>1. i \notin t.rows
    BY <1>1, <1>2, <1>4, <1>6, <1>7, WatcherConstants DEF ReadGood, Spot
  <2>2. After(pushed') = After(pushed)
    BY <1>7
  <2> HIDE DEF new, t
  <2> QED BY <1>1, <1>3, <1>5, <1>7, <2>1, <2>2 DEF EventGood
<1>8. CASE pushed = t.raw /\ pushed' = new
  <2>1. After(pushed') = t.cursor /\ After(pushed) = After(t.raw)
    BY <1>4, <1>8
  <2>2. i \in t.rows => announced'[i] = 1 /\ i <= t.cursor
    <3> SUFFICES ASSUME i \in t.rows PROVE announced'[i] = 1 /\ i <= t.cursor
      OBVIOUS
    <3>1. i > After(t.raw) /\ i <= t.cursor
      BY <1>2 DEF ReadGood
    <3>2. announced[i] = 0
      BY <1>1, <1>6, <2>1, <3>1 DEF EventGood, Spot
    <3> QED BY <1>3, <3>1, <3>2 DEF More
  <2>3. i \notin t.rows => announced'[i] = announced[i]
    BY <1>3
  <2>4. t.cursor >= After(t.raw)
    BY <1>2 DEF ReadGood
  <2>5. i > After(t.raw) /\ i <= t.cursor =>
          i \in t.rows \cup t.lost \cup t.missed \/ event[i] = "old"
    BY <1>2 DEF ReadGood
  <2>6. announced'[i] <= 1 /\ (announced'[i] >= 1 => i <= After(pushed'))
    BY <1>1, <1>2, <1>6, <2>1, <2>2, <2>3, <2>4 DEF EventGood, Spot
  <2>7. i <= After(pushed') => announced'[i] > 0 \/ i \in slipped' \cup unborn' \/ event'[i] = "old"
    <3> SUFFICES ASSUME i <= After(pushed')
                 PROVE  announced'[i] > 0 \/ i \in slipped' \cup unborn' \/ event'[i] = "old"
      OBVIOUS
    <3>1. CASE i <= After(t.raw)
      BY <1>1, <1>5, <2>1, <2>2, <2>3, <3>1 DEF EventGood
    <3>2. CASE ~(i <= After(t.raw))
      <4>1. i > After(t.raw) /\ i <= t.cursor
        BY <1>1, <1>6, <2>1, <3>2 DEF Spot
      <4> QED BY <1>5, <2>2, <2>5, <4>1
    <3> QED BY <3>1, <3>2
  <2> HIDE DEF new, t
  <2> QED BY <2>6, <2>7 DEF EventGood
<1> QED BY <1>7, <1>8

(* What a claim leaves unannounced keeps its count.                        *)
LEMMA FreshOrNot ==
  ASSUME WatcherInv, NEW p \in Tickers, Announces(ticking[p]), NEW c \in Conditions
  PROVE  chimed'[c] = IF c \in Fresh(ticking[p]) THEN More(chimed[c]) ELSE chimed[c]
BY DEF Announces

(* The conditions: an announced one that lasts is kept on ...              *)
LEMMA ClaimsChimes ==
  ASSUME WatcherInv, NEW p \in Tickers, ticking[p].at = "read", NEW kept \in SUBSET Silent,
         Announces(ticking[p]), UNCHANGED reading,
         doubled' = doubled \cup Odd(p, ticking[p], kept),
         \/ NextState(ticking[p], kept) = ticking[p].raw /\ pushed' = pushed
         \/ pushed = ticking[p].raw /\ pushed' = NextState(ticking[p], kept),
         NEW c \in Conditions
  PROVE  ChimeGood(c)'
<1> DEFINE t == ticking[p]
           new == NextState(t, kept)
<1> SUFFICES ASSUME c \notin doubled', chimed'[c] >= 1
             PROVE  chimed'[c] = 1 /\ (c \in Fired(pushed)' \/ reading'[c] = "clear")
  BY DEF ChimeGood
<1>1. c \notin doubled /\ c \notin Odd(p, t, kept)
  OBVIOUS
<1>2. ChimeGood(c) /\ chimed[c] \in 0..2 /\ reading' = reading
  BY DEF WatcherInv, WatcherTypeOK
<1>3. t.snap[c] \in Levels /\ SnapTrue(p, t, c) /\ (p \notin outrun => t.raw = pushed)
  BY InHandTick, TickTypes DEF TickGood, SnapGood, Snapshot
<1>4. chimed'[c] = IF c \in Fresh(t) THEN More(chimed[c]) ELSE chimed[c]
  BY FreshOrNot
<1>5. Fired(new) = new.fired /\ (pushed' = new => Fired(pushed)' = new.fired)
  BY NextStateType DEF Fired
<1>6. c \in Fresh(t) <=> t.snap[c] = "holds" /\ c \notin Fired(t.raw)
  BY DEF Fresh, Holding
<1>7. (t.snap[c] = "holds" \/ (t.snap[c] = "between" /\ c \in Fired(t.raw))) => c \in new.fired
  BY <1>1, StaysFired
<1>8. pushed' = new \/ (pushed' = pushed /\ new = t.raw)
  OBVIOUS
<1> HIDE DEF new, t
<1>9. CASE p \notin outrun
  <2>1. pushed' = new /\ t.raw = pushed
    BY <1>3, <1>8, <1>9
  <2>2. CASE c \in Fresh(t)
    <3>1. chimed[c] = 0
      BY <1>1, <1>2, <1>3, <1>6, <1>9, <2>1, <2>2 DEF SnapTrue
    <3> QED BY <1>4, <1>5, <1>6, <1>7, <2>1, <2>2, <3>1 DEF More
  <2>3. CASE c \notin Fresh(t)
    <3>1. chimed[c] >= 1 /\ chimed'[c] = 1 /\ (c \in Fired(pushed) \/ reading[c] = "clear")
      BY <1>1, <1>2, <1>4, <2>3 DEF ChimeGood
    <3>2. CASE reading[c] # "clear"
      <4>1. t.snap[c] # "clear" /\ c \in Fired(t.raw)
        BY <1>1, <1>3, <1>9, <2>1, <3>1, <3>2 DEF SnapTrue
      <4>2. c \in new.fired
        BY <1>3, <1>7, <4>1 DEF Levels
      <4> QED BY <1>5, <2>1, <3>1, <4>2
    <3> QED BY <1>2, <3>1, <3>2
  <2> QED BY <2>2, <2>3
<1>10. CASE p \in outrun
  <2>1. c \notin Fresh(t) /\ (c \in Fired(t.raw) => t.snap[c] = "holds")
    BY <1>1, <1>10 DEF Odd, Holding
  <2>2. chimed'[c] = 1 /\ (c \in Fired(pushed) \/ reading[c] = "clear")
    BY <1>1, <1>2, <1>4, <2>1 DEF ChimeGood
  <2>3. CASE pushed' = pushed
    BY <1>2, <2>2, <2>3
  <2>4. CASE pushed' # pushed
    <3>1. pushed' = new /\ pushed = t.raw
      BY <1>8, <2>4 DEF t, new
    <3> QED BY <1>2, <1>5, <1>7, <2>1, <2>2, <3>1
  <2> QED BY <2>3, <2>4
<1> QED BY <1>9, <1>10

(* ... and one that is announced moves the state.                          *)
LEMMA SameStateNotFresh ==
  ASSUME WatcherInv, NEW p \in Tickers, ticking[p].at = "read", NEW kept \in SUBSET Silent,
         NextState(ticking[p], kept) = ticking[p].raw,
         NEW c \in Conditions, c \notin Odd(p, ticking[p], kept)
  PROVE  c \notin Fresh(ticking[p])
<1> SUFFICES ASSUME c \in Fresh(ticking[p]) PROVE FALSE
  OBVIOUS
<1>1. ticking[p].snap[c] = "holds" /\ c \notin Fired(ticking[p].raw)
  BY DEF Fresh, Holding
<1>2. c \in NextState(ticking[p], kept).fired
  BY <1>1, StaysFired
<1> QED BY <1>1, <1>2, NextStateType DEF Fired

LEMMA ClaimsGood ==
  ASSUME WatcherInv, NEW p \in Tickers, Claims(p)
  PROVE  WatcherInv'
<1> DEFINE t == ticking[p]
<1>1. /\ t.at = "read" /\ ticking' = [ticking EXCEPT ![p] = NoTick]
      /\ UNCHANGED <<event, reading>>
  BY DEF Claims
<1>2. PICK kept \in SUBSET Silent :
        \/ /\ NextState(t, kept) = t.raw /\ Announces(t) /\ doubled' = doubled \cup Odd(p, t, kept)
           /\ outrun' = outrun \ {p} /\ pushed' = pushed
        \/ /\ NextState(t, kept) # t.raw /\ pushed = t.raw /\ pushed' = NextState(t, kept)
           /\ Announces(t) /\ doubled' = doubled \cup Odd(p, t, kept)
           /\ outrun' = Midway \ {p}
        \/ /\ outrun' = outrun \ {p}
           /\ UNCHANGED <<pushed, announced, chimed, slipped, unborn, doubled>>
  BY DEF Claims, Unmoved
<1>3. CASE /\ NextState(t, kept) = t.raw /\ Announces(t) /\ doubled' = doubled \cup Odd(p, t, kept)
           /\ outrun' = outrun \ {p} /\ pushed' = pushed
  <2>1. WatcherTypeOK' /\ ReadingTrue'
    BY <1>1, <1>3, AnnouncesTypes DEF WatcherInv, WatcherTypeOK, ReadingTrue
  <2>2. (\A i \in Ids : EventGood(i))'
    BY <1>1, <1>3, ClaimsEvents
  <2>3. (\A c \in Conditions : ChimeGood(c))'
    BY <1>1, <1>3, ClaimsChimes
  <2>4. ASSUME NEW q \in Tickers PROVE TickGood(q, ticking[q])' /\ ticking'[q] \in TickRecords
    <3>1. CASE q = p
      <4>1. ticking'[q] = NoTick
        BY <1>1, <3>1 DEF WatcherInv, TicksGood
      <4> QED BY <4>1 DEF TickGood, PageGood, SnapGood, TickRecords, NoTick
    <3>2. CASE q # p
      <4>1. ticking'[q] = ticking[q] /\ (q \in outrun' <=> q \in outrun)
        BY <1>1, <1>3, <3>2 DEF WatcherInv, TicksGood
      <4>2. TickGood(q, ticking'[q])
        BY <4>1, InHandTick
      <4>3. ASSUME NEW c \in Conditions, SnapTrue(q, ticking'[q], c)
            PROVE  SnapTrue(q, ticking[q], c)'
        <5>1. c \notin doubled' => c \notin doubled /\ chimed'[c] = chimed[c]
          BY <1>1, <1>3, SameStateNotFresh, FreshOrNot
        <5> QED BY <1>1, <1>3, <4>1, <4>3, <5>1 DEF SnapTrue
      <4>4. SnapGood(q, ticking[q])'
        BY <4>2, <4>3 DEF TickGood, SnapGood
      <4>5. PageGood(ticking[q])'
        BY <1>1, <4>2 DEF TickGood, PageGood, StopGood, ListGood, ReadGood, Visible
      <4> QED BY <1>3, <4>1, <4>2, <4>4, <4>5 DEF TickGood
    <3> QED BY <3>1, <3>2
  <2> QED BY <1>1, <2>1, <2>2, <2>3, <2>4 DEF WatcherInv, TicksGood
<1>4. CASE /\ NextState(t, kept) # t.raw /\ pushed = t.raw /\ pushed' = NextState(t, kept)
           /\ Announces(t) /\ doubled' = doubled \cup Odd(p, t, kept)
           /\ outrun' = Midway \ {p}
  <2>0. pushed' \in PushedState /\ outrun' \in SUBSET Tickers
    BY <1>1, <1>4, NextStateType DEF Midway
  <2>1. WatcherTypeOK' /\ ReadingTrue'
    BY <1>1, <1>4, <2>0, AnnouncesTypes DEF WatcherInv, WatcherTypeOK, ReadingTrue
  <2>2. (\A i \in Ids : EventGood(i))'
    BY <1>1, <1>4, ClaimsEvents
  <2>3. (\A c \in Conditions : ChimeGood(c))'
    BY <1>1, <1>4, ClaimsChimes
  <2>4. ASSUME NEW q \in Tickers PROVE TickGood(q, ticking[q])' /\ ticking'[q] \in TickRecords
    <3>1. CASE ticking'[q] = NoTick
      BY <3>1 DEF TickGood, PageGood, SnapGood, TickRecords, NoTick
    <3>2. CASE ticking'[q] # NoTick
      <4>1. q # p /\ ticking'[q] = ticking[q]
        BY <1>1, <3>2 DEF WatcherInv, TicksGood
      <4>2. q \in outrun'
        BY <1>4, <3>2, <4>1 DEF Midway
      <4>3. TickGood(q, ticking'[q])
        BY <4>1, InHandTick
      <4>4. SnapGood(q, ticking[q])'
        BY <4>2, <4>3 DEF TickGood, SnapGood, SnapTrue
      <4>5. PageGood(ticking[q])'
        BY <1>1, <4>3 DEF TickGood, PageGood, StopGood, ListGood, ReadGood, Visible
      <4> QED BY <4>2, <4>3, <4>4, <4>5 DEF TickGood
    <3> QED BY <3>1, <3>2
  <2> QED BY <1>1, <2>1, <2>2, <2>3, <2>4 DEF WatcherInv, TicksGood
<1>5. CASE /\ outrun' = outrun \ {p}
           /\ UNCHANGED <<pushed, announced, chimed, slipped, unborn, doubled>>
  BY <1>1, <1>5, ToRestGood
<1> QED BY <1>2, <1>3, <1>4, <1>5

-----------------------------------------------------------------------------
(* The theorems of PushWatcher.                                            *)

LEMMA WatcherInitInv == WatcherInit => WatcherInv
<1> SUFFICES ASSUME WatcherInit PROVE WatcherInv
  OBVIOUS
<1>1. WatcherTypeOK /\ ReadingTrue
  BY DEF WatcherInit, WatcherTypeOK, ReadingTrue
<1>2. ticking \in [Tickers -> TickRecords] /\ \A p \in Tickers : ticking[p] = NoTick
  BY DEF WatcherInit, TickRecords
<1>3. TicksGood
  BY <1>2, RestGood DEF TicksGood
<1>4. \A i \in Ids : EventGood(i)
  BY WatcherConstants DEF WatcherInit, EventGood, After, Ids
<1>5. \A c \in Conditions : ChimeGood(c)
  BY DEF WatcherInit, ChimeGood
<1> QED BY <1>1, <1>3, <1>4, <1>5 DEF WatcherInv

LEMMA WatcherStep ==
  ASSUME WatcherInv, [WatcherNext]_watcherVars
  PROVE  WatcherInv'
<1>1. ASSUME NEW i \in Ids, EventOpens(i) \/ Commits(i) \/ Ages(i) \/ GrowsOld(i) PROVE WatcherInv'
  <2>1. \E from \in Eras \ {"old"}, to \in Eras :
          Happens(i, from, to) /\ (from \in {"young", "aged"} => to \in {"young", "aged", "old"})
    BY <1>1 DEF EventOpens, Commits, Ages, GrowsOld, Eras
  <2> QED BY <2>1, HappensGood
<1>2. ASSUME NEW c \in Conditions, NEW to \in {"clear", "between", "holds"}, Changes(c, to)
      PROVE  WatcherInv'
  BY <1>2, ChangesGood DEF Levels
<1>3. ASSUME UNCHANGED watcherVars PROVE WatcherInv'
  <2>1. UNCHANGED <<event, reading, pushed, ticking, outrun, announced, chimed, slipped, unborn, doubled>>
    BY <1>3 DEF watcherVars
  <2>2. WatcherTypeOK' /\ ReadingTrue' /\ (\A i \in Ids : EventGood(i))'
        /\ (\A c \in Conditions : ChimeGood(c))'
    BY <2>1 DEF WatcherInv, WatcherTypeOK, ReadingTrue, EventGood, ChimeGood
  <2>3. TicksGood'
    BY <2>1 DEF WatcherInv, TicksGood, TickGood, PageGood, StopGood, ListGood, ReadGood, SnapGood,
                SnapTrue, Visible
  <2> QED BY <2>2, <2>3 DEF WatcherInv
<1> QED BY <1>1, <1>2, <1>3, LooksGood, SnapsGood, FindsStopGood, ListsGood, TopsGood, ClaimsGood,
        TickFailsGood DEF WatcherNext

THEOREM WatcherInvariant == WatcherSpec => []WatcherInv
<1>1. WatcherInv /\ [WatcherNext]_watcherVars => WatcherInv'
  BY WatcherStep
<1> QED BY <1>1, WatcherInitInv, PTL DEF WatcherSpec

(* No event is announced twice, however many processes tick.               *)
THEOREM OnceAnnounced == WatcherSpec => []AnnouncedAtMostOnce
<1>1. WatcherInv => AnnouncedAtMostOnce
  BY DEF WatcherInv, EventGood, AnnouncedAtMostOnce
<1> QED BY <1>1, WatcherInvariant, PTL

(* A condition is announced once while it lasts.                           *)
THEOREM OnceFired == WatcherSpec => []FiresOnce
<1>1. WatcherInv => FiresOnce
  <2> SUFFICES ASSUME WatcherInv, NEW c \in Conditions, chimed[c] > 1, c \notin doubled
               PROVE  FALSE
    BY DEF FiresOnce
  <2>1. ChimeGood(c) /\ chimed[c] \in 0..2
    BY DEF WatcherInv, WatcherTypeOK
  <2> QED BY <2>1 DEF ChimeGood
<1> QED BY <1>1, WatcherInvariant, PTL

(* Nothing a tick could see and was still news is passed over.             *)
THEOREM SeenNotSkipped == WatcherSpec => []NothingSeenSkipped
<1>1. WatcherInv => NothingSeenSkipped
  <2> SUFFICES ASSUME WatcherInv, pushed # Never, NEW i \in 1..pushed.cursor,
                      event[i] \in {"open", "young", "aged"}
               PROVE  announced[i] > 0 \/ i \in slipped \cup unborn
    BY DEF NothingSeenSkipped
  <2>1. pushed.cursor \in Spot /\ After(pushed) = pushed.cursor
    BY PushedType, PushedStates DEF States, After
  <2>2. i \in Ids /\ i <= After(pushed)
    BY <2>1, WatcherConstants DEF Ids, Spot
  <2>3. EventGood(i)
    BY <2>2 DEF WatcherInv
  <2> QED BY <2>2, <2>3 DEF EventGood
<1> QED BY <1>1, WatcherInvariant, PTL
=============================================================================
