----------------------------- MODULE MCServices -----------------------------
(***************************************************************************)
(* The services beside the case queue, each on a small instance: releases, *)
(* accounts, pairing, the push watcher, push delivery, the sessions of the *)
(* Postgres pool, the footprint cache, the residual curves and the doors   *)
(* of login and share links.  They share no table, so a behaviour is one   *)
(* of any one of them, chosen at the start, with the others at rest, and   *)
(* not of all of them interleaved.                                         *)
(***************************************************************************)
EXTENDS NodeReleases, Accounts, Pairing, PushWatcher, PushDelivery, PgSessions,
        GeoCache, Curves, SignIn, TLC

CONSTANTS b1, b2, p1, f1, f2, u1, t2, e1, o1, s1, g2, v2, d2, l2

(* One platform, and for each build a file of its own.                     *)
OnePlatform == [w \in Workers |-> p1]
OwnFiles    == (b1 :> (p1 :> {f1})) @@ (b2 :> (p1 :> {f2}))

VARIABLE service

servicesVars ==
  <<releaseVars, accountVars, pairingVars, watcherVars, deliveryVars, sessionVars,
    geoVars, curveVars, signInVars, service>>

ServicesInit ==
  /\ ReleasesInit /\ AccountsInit /\ PairingInit /\ WatcherInit /\ DeliveryInit
  /\ SessionsInit /\ GeoInit /\ CurvesInit /\ SignInInit
  /\ service \in {"releases", "accounts", "pairing", "watcher", "watchers", "delivery",
                  "sessions", "footprints", "curves", "doors"}
  /\ service = "releases" \/ running = [w \in Workers |-> b1]
  /\ service = "sessions" \/ link = [s \in Sessions |-> IF s = s1 THEN "up" ELSE "none"]

(* Of the two builds one may be bad, and be deleted: not at once with a    *)
(* sweep, and blocked while nobody aims or deletes.                        *)
ReleasesStep ==
  /\ service = "releases" /\ ReleasesNext
  /\ blocked' \subseteq {b1}
  /\ deleting' # NoDeletion => deleting'.files = {f1} /\ removal' = NoRemoval
  /\ blocked' # {} => deleting' = NoDeletion /\ aiming' = NoAim
  /\ UNCHANGED <<accountVars, pairingVars, watcherVars, deliveryVars, sessionVars,
                 geoVars, curveVars, signInVars, service>>

(* Of the two accounts one logs in again and changes its password; there   *)
(* are two sessions at a time.                                             *)
AccountsStep ==
  /\ service = "accounts" /\ AccountsNext
  /\ \A q \in Requests : request'[q].op \in {"login", "change"} => request'[q].user = u1
  /\ Cardinality(sessions') <= 2
  /\ UNCHANGED <<releaseVars, pairingVars, watcherVars, deliveryVars, sessionVars,
                 geoVars, curveVars, signInVars, service>>

PairingStep ==
  /\ service = "pairing" /\ PairingNext
  /\ UNCHANGED <<releaseVars, accountVars, watcherVars, deliveryVars, sessionVars,
                 geoVars, curveVars, signInVars, service>>

(* The watcher is run twice: one process with two events and a condition   *)
(* that may read between its levels, and two processes with one of each,   *)
(* none of which grows old.  Of the two one ticks while the event is young.*)
WatcherStep ==
  /\ service \in {"watcher", "watchers"} /\ WatcherNext
  /\ service = "watcher" => ticking'[t2] = NoTick
  /\ service = "watchers" => /\ event'[1] # "old" /\ event'[2] = "none"
                             /\ event'[1] = "young" => \E p \in Tickers : ticking'[p] = NoTick
                             /\ \A c \in Conditions : reading'[c] # "between"
  /\ UNCHANGED <<releaseVars, accountVars, pairingVars, deliveryVars, sessionVars,
                 geoVars, curveVars, signInVars, service>>

(* One of two owners asks to have one of two subscriptions dropped.  An    *)
(* owner and a browser stay.                                               *)
DeliveryStep ==
  /\ service = "delivery" /\ DeliveryNext
  /\ \A l \in Leavers :
       leaving'[l] # NoLeave => leaving'[l].endpoint = e1 /\ leaving'[l].owner = o1
  /\ valid' # {} /\ browser' # {}
  /\ UNCHANGED <<releaseVars, accountVars, pairingVars, watcherVars, sessionVars,
                 geoVars, curveVars, signInVars, service>>

SessionsStep ==
  /\ service = "sessions" /\ SessionsNext
  /\ UNCHANGED <<releaseVars, accountVars, pairingVars, watcherVars, deliveryVars, geoVars,
                 curveVars, signInVars, service>>

(* One of two cases moves, one of two viewers may ask to refresh, and one  *)
(* layer at a time is unavailable.                                         *)
FootprintsStep ==
  /\ service = "footprints" /\ GeoNext
  /\ UNCHANGED drawnAs[g2]
  /\ ~view'[v2].refresh
  /\ \A v \in Viewers :
       LET d == view'[v].answer
       IN view'[v].at = "storing" =>
            /\ d.terrain \/ d.canopy # "unavailable"
            /\ d.failed => d.terrain /\ d.canopy # "unavailable"
  /\ UNCHANGED <<releaseVars, accountVars, pairingVars, watcherVars, deliveryVars, sessionVars,
                 curveVars, signInVars, service>>

(* The second direction is there to find the table full.                   *)
CurvesStep ==
  /\ service = "curves" /\ CurvesNext
  /\ Len(log'[d2]) <= 1
  /\ UNCHANGED <<releaseVars, accountVars, pairingVars, watcherVars, deliveryVars, sessionVars,
                 geoVars, signInVars, service>>

(* The second link is there to find no room.                               *)
DoorsStep ==
  /\ service = "doors" /\ SignInNext
  /\ shared'[l2] \in {"none", "live"}
  /\ \A r \in Knocks : knock'[r].at = "token" => knock'[r].token # l2
  /\ UNCHANGED <<releaseVars, accountVars, pairingVars, watcherVars, deliveryVars, sessionVars,
                 geoVars, curveVars, service>>

ServicesNext == ReleasesStep \/ AccountsStep \/ PairingStep \/ WatcherStep \/ DeliveryStep
                \/ SessionsStep \/ FootprintsStep \/ CurvesStep \/ DoorsStep

(* Fairness is that of the nodes that move between builds; no step of it   *)
(* is ever enabled while another service runs.                             *)
ServicesSpec == ServicesInit /\ [][ServicesNext]_servicesVars /\ Fairness
=============================================================================
