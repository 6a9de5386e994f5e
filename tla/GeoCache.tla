------------------------------ MODULE GeoCache ------------------------------
(***************************************************************************)
(* What a case will be meshed from, drawn for the dashboard: buildings,    *)
(* terrain and trees (GET /v1/cases/{id}/footprints of casebroker/app.py,  *)
(* casebroker/footprints.py, table footprints of casebroker/db.py).        *)
(*                                                                         *)
(* A request reads the case, then the cache, then takes the case's lock    *)
(* and looks again, waits for a preview slot, asks the remote layers and   *)
(* keeps what is a fact about the site.  Meanwhile the case may finish and *)
(* report another building source, or move to a recipe with other trees.   *)
(*                                                                         *)
(* The layers are external: what they hold of a site is left out but for   *)
(* where it came from.  Payloads of older builds are out of the model.     *)
(***************************************************************************)
EXTENDS Integers, FiniteSets

CONSTANTS
  Sites,            \* case ids
  Viewers,          \* requests at once
  Slots,            \* GEO_CONCURRENCY
  CacheMax,         \* FOOTPRINT_CACHE_MAX
  OvertureFallback, \* CASEBROKER_OVERTURE_FALLBACK: Overture may be read here
  MaxViews,         \* bound: requests made
  MaxMoves          \* bound: times a case's source or recipe changes

ASSUME GeoAssumption ==
  /\ IsFiniteSet(Sites) /\ IsFiniteSet(Viewers)
  /\ Slots \in Nat \ {0} /\ CacheMax \in Nat \ {0}
  /\ OvertureFallback \in BOOLEAN /\ MaxViews \in Nat /\ MaxMoves \in Nat

VARIABLES
  drawnAs, \* per case: what mesh_source and chm_model_for say of its row now
  cache,   \* the rows of table footprints
  view,    \* what each request is at
  views, moves

geoVars == <<drawnAs, cache, view, views, moves>>

Sources == {"gba", "overture"}
Models  == {"v1", "v2"}

NoDrawing == [buildings |-> "none", failed |-> FALSE, terrain |-> FALSE, canopy |-> "none"]

AtRest == [at |-> "idle", site |-> "none", refresh |-> FALSE,
           case |-> [source |-> "gba", model |-> "v1"], answer |-> NoDrawing]

GeoInit ==
  /\ drawnAs = [c \in Sites |-> [source |-> "gba", model |-> "v1"]]
  /\ cache = {}
  /\ view = [v \in Viewers |-> AtRest]
  /\ views = 0 /\ moves = 0

-----------------------------------------------------------------------------
(* A case finishes and reports its source, or is opened again; or its      *)
(* recipe is changed.                                                      *)
MovesOn(c) ==
  /\ moves < MaxMoves /\ moves' = moves + 1
  /\ \/ \E source \in Sources : drawnAs' = [drawnAs EXCEPT ![c].source = source]
     \/ \E model \in Models : drawnAs' = [drawnAs EXCEPT ![c].model = model]
  /\ drawnAs' # drawnAs
  /\ UNCHANGED <<cache, view, views>>

(* _drawn_from: Overture is read only where it is allowed.                 *)
DrawnFrom(source) == IF source = "overture" /\ ~OvertureFallback THEN "gba" ELSE source

(* cached(): a row is an answer when it names the source and the canopy    *)
(* model this case is drawn with; "none" is an answer under either.  It    *)
(* does not ask whether the buildings failed.                              *)
Answers(row, case) ==
  /\ row.drawing.buildings = DrawnFrom(case.source)
  /\ row.drawing.canopy \in {"none", case.model}

Hits(v) == {row \in cache : row.site = view[v].site /\ ~view[v].refresh /\ Answers(row, view[v].case)}

At(v, at) == view' = [view EXCEPT ![v].at = at]

FromCache(v) ==
  \E row \in Hits(v) : view' = [view EXCEPT ![v].at = "cached", ![v].answer = row.drawing]

(* The case is read, once.                                                 *)
Views(v, c, refresh) ==
  /\ view[v].at \in {"idle", "cached"} /\ views < MaxViews /\ views' = views + 1
  /\ view' = [view EXCEPT ![v] =
       [at |-> "read", site |-> c, refresh |-> refresh, case |-> drawnAs[c], answer |-> NoDrawing]]
  /\ UNCHANGED <<drawnAs, cache, moves>>

LooksUp(v) ==
  /\ view[v].at = "read"
  /\ IF Hits(v) # {} THEN FromCache(v) ELSE At(v, "locking")
  /\ UNCHANGED <<drawnAs, cache, views, moves>>

LockTaken(c) == \E v \in Viewers : view[v].site = c /\ view[v].at \in {"locked", "waiting", "asking", "storing"}

TakesLock(v) ==
  /\ view[v].at = "locking" /\ ~LockTaken(view[v].site)
  /\ At(v, "locked")
  /\ UNCHANGED <<drawnAs, cache, views, moves>>

(* Wrong: whoever held the lock before may have answered, but is not asked.*)
NotAgain(v) == FALSE

FoundAgain(v) == Hits(v) # {}

LooksAgain(v) ==
  /\ view[v].at = "locked"
  /\ IF FoundAgain(v) THEN FromCache(v) ELSE At(v, "waiting")
  /\ UNCHANGED <<drawnAs, cache, views, moves>>

-----------------------------------------------------------------------------
Asking == {v \in Viewers : view[v].at = "asking"}

(* exclusive(): one of the preview slots, or 503 after GEO_QUEUE_SECONDS.  *)
TakesSlot(v) ==
  /\ view[v].at = "waiting" /\ Cardinality(Asking) < Slots
  /\ At(v, "asking")
  /\ UNCHANGED <<drawnAs, cache, views, moves>>

GivesUp(v) ==
  /\ view[v].at = "waiting" /\ Cardinality(Asking) >= Slots
  /\ view' = [view EXCEPT ![v] = AtRest]
  /\ UNCHANGED <<drawnAs, cache, views, moves>>

(* fetch_gba, fetch: the footprints, a missing tile among them, or an      *)
(* error.                                                                  *)
AskGba      == {"gba", "unavailable"}
AskOverture == {"overture", "unavailable"}

Fetched(source) == IF source = "gba" THEN AskGba ELSE AskOverture

(* The buildings: of the source the case is drawn from; when that fails,   *)
(* of the other, where there is one; else an error.                        *)
BuildingsOf(case) ==
  LET first == DrawnFrom(case.source)
      other == IF first = "overture" THEN AskGba ELSE IF OvertureFallback THEN AskOverture ELSE {}
  IN IF other = {} THEN Fetched(first) ELSE (Fetched(first) \ {"unavailable"}) \cup other

(* terrain: relief, or flat where there is none; FALSE when the host or    *)
(* the library is not there.                                               *)
TerrainOf == BOOLEAN

(* canopy: trees of the recipe's model, or no tile of it here, or the host *)
(* did not answer.                                                         *)
CanopyOf(case) == {case.model, "none", "unavailable"}

(* _building_query: the layers one after the other, whatever each says.    *)
(* Buildings that failed are an empty layer with an error, of source GBA.  *)
Drawing(buildings, terrain, canopy) ==
  [buildings |-> IF buildings = "unavailable" THEN "gba" ELSE buildings,
   failed    |-> buildings = "unavailable",
   terrain   |-> terrain, canopy |-> canopy]

Drawn(case) == {Drawing(b, t, c) : b \in BuildingsOf(case), t \in TerrainOf, c \in CanopyOf(case)}

Asks(v, d) ==
  /\ view[v].at = "asking" /\ d \in Drawn(view[v].case)
  /\ view' = [view EXCEPT ![v].at = "storing", ![v].answer = d]
  /\ UNCHANGED <<drawnAs, cache, views, moves>>

(* Wrong: buildings that failed are kept as a site without any.            *)
RastersOnly(d) == ~d.terrain \/ d.canopy = "unavailable"

(* A layer that did not answer says nothing of the site.                   *)
Transient(d) == d.failed \/ ~d.terrain \/ d.canopy = "unavailable"

(* put_footprints: the case's row, and never more than CacheMax; the row   *)
(* just written is not the one dropped.                                    *)
Stores(v) ==
  LET d      == view[v].answer
      others == {row \in cache : row.site # view[v].site}
  IN /\ view[v].at = "storing"
     /\ IF Transient(d) THEN UNCHANGED cache
        ELSE \E kept \in SUBSET others :
               /\ Cardinality(kept) = IF Cardinality(others) < CacheMax THEN Cardinality(others) ELSE CacheMax - 1
               /\ cache' = kept \cup {[site |-> view[v].site, drawing |-> d]}
     /\ view' = [view EXCEPT ![v] = AtRest]
     /\ UNCHANGED <<drawnAs, views, moves>>

GeoNext ==
  \/ \E c \in Sites : MovesOn(c)
  \/ \E v \in Viewers :
       \/ \E c \in Sites : \E refresh \in BOOLEAN : Views(v, c, refresh)
       \/ LooksUp(v) \/ TakesLock(v) \/ LooksAgain(v) \/ TakesSlot(v) \/ GivesUp(v) \/ Stores(v)
       \/ \E d \in Drawn(view[v].case) : Asks(v, d)

GeoSpec == GeoInit /\ [][GeoNext]_geoVars

-----------------------------------------------------------------------------
(* A moment is never frozen into the picture of a case: what the cache     *)
(* answers is complete, with the buildings and trees this case is meshed   *)
(* from, however many fallbacks, outages and changes of the case lie       *)
(* between the fetch and the answer.                                       *)
NothingFrozen ==
  \A v \in Viewers : view[v].at = "cached" =>
    /\ view[v].answer.terrain /\ ~view[v].answer.failed
    /\ view[v].answer.buildings = DrawnFrom(view[v].case.source)
    /\ view[v].answer.canopy \in {"none", view[v].case.model}

(* The remote layers are not asked what the cache can answer: of two views *)
(* of one case at once, the second waits for the first and uses its answer.*)
NotAskedTwice ==
  [][\A v \in Viewers : view[v].at # "asking" /\ view'[v].at = "asking" => Hits(v) = {}]_geoVars
=============================================================================
