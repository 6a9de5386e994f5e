--------------------------- MODULE ServicesProofs ---------------------------
(***************************************************************************)
(* Proofs about the services beside the case queue that one process keeps: *)
(* the footprint cache (GeoCache), the residual curves (Curves) and the    *)
(* doors of login and share links (SignIn).                                *)
(***************************************************************************)
EXTENDS GeoCache, SignIn, Curves, FiniteSetTheorems, SequenceTheorems, TLAPS

(***************************************************************************)
(* GeoCache.  Every row of the cache is complete; a view that holds the    *)
(* lock of its case is the only one, so that what it found missing stays   *)
(* missing till it asks.                                                   *)
(***************************************************************************)
Steps == {"idle", "read", "locking", "locked", "waiting", "asking", "storing", "cached"}
Locked == {"locked", "waiting", "asking", "storing"}

DrawnCases == [source : Sources, model : Models]
Drawings ==
  [buildings : Sources \cup {"none"}, failed : BOOLEAN, terrain : BOOLEAN,
   canopy : Models \cup {"none", "unavailable"}]

(* The type invariant.                                                     *)
GeoTypeOK ==
  /\ drawnAs \in [Sites -> DrawnCases]
  /\ cache \subseteq [site : Sites, drawing : Drawings]
  /\ view \in [Viewers -> [at : Steps, site : Sites \cup {"none"}, refresh : BOOLEAN,
                           case : DrawnCases, answer : Drawings]]
  /\ \A v \in Viewers : view[v].at # "idle" => view[v].site \in Sites
  /\ views \in Nat /\ moves \in Nat

CompleteRows == \A row \in cache : ~Transient(row.drawing)

OneHoldsLock ==
  \A v, u \in Viewers :
    view[v].at \in Locked /\ view[u].at \in Locked /\ view[v].site = view[u].site => v = u

MissingStays == \A v \in Viewers : view[v].at = "waiting" => Hits(v) = {}

GeoInv == GeoTypeOK /\ CompleteRows /\ OneHoldsLock /\ MissingStays /\ NothingFrozen

-----------------------------------------------------------------------------
LEMMA GeoInitInv == GeoInit => GeoInv
BY DEF GeoInit, GeoInv, GeoTypeOK, CompleteRows, OneHoldsLock, MissingStays, NothingFrozen,
       AtRest, NoDrawing, Steps, Locked, DrawnCases, Drawings, Sources, Models

(* What the layers answer is a drawing.                                    *)
LEMMA DrawnIsDrawing ==
  ASSUME NEW case \in DrawnCases, NEW d \in Drawn(case)
  PROVE  d \in Drawings
<1>1. PICK b \in BuildingsOf(case), t \in TerrainOf, c \in CanopyOf(case) : d = Drawing(b, t, c)
  BY DEF Drawn
<1>2. b \in Sources \cup {"unavailable"}
  BY DEF DrawnCases, BuildingsOf, Fetched, AskGba, AskOverture, DrawnFrom, Sources
<1>3. t \in BOOLEAN /\ c \in Models \cup {"none", "unavailable"}
  BY DEF TerrainOf, CanopyOf, DrawnCases
<1>. QED BY <1>1, <1>2, <1>3 DEF Drawing, Drawings, Sources

(* A step of one view that leaves the cache alone: where it goes, and with *)
(* which site, case and answer.                                            *)
LEMMA ViewStep ==
  ASSUME GeoInv, NEW v \in Viewers,
         NEW to \in [at : Steps, site : Sites \cup {"none"}, refresh : BOOLEAN,
                     case : DrawnCases, answer : Drawings],
         view' = [view EXCEPT ![v] = to], UNCHANGED <<drawnAs, cache, moves>>, views' \in Nat,
         to.at # "idle" => to.site \in Sites,
         to.at \in Locked =>
           to.site = view[v].site /\ (view[v].at \in Locked \/ ~LockTaken(to.site)),
         to.at = "waiting" => Hits(v) = {} /\ to.refresh = view[v].refresh /\ to.case = view[v].case,
         to.at = "cached" => /\ to.answer.terrain /\ ~to.answer.failed
                             /\ to.answer.buildings = DrawnFrom(to.case.source)
                             /\ to.answer.canopy \in {"none", to.case.model}
  PROVE  GeoInv'
<1>1. view'[v] = to /\ \A u \in Viewers \ {v} : view'[u] = view[u]
  BY DEF GeoInv, GeoTypeOK
<1>2. GeoTypeOK'
  BY <1>1 DEF GeoInv, GeoTypeOK
<1>3. CompleteRows'
  BY DEF GeoInv, CompleteRows
<1>4. OneHoldsLock'
  BY <1>1 DEF GeoInv, OneHoldsLock, LockTaken, Locked
<1>5. MissingStays'
  <2> SUFFICES ASSUME NEW u \in Viewers, view'[u].at = "waiting" PROVE Hits(u)' = {}
    BY DEF MissingStays
  <2>1. Hits(u) = {}
    BY <1>1 DEF GeoInv, MissingStays
  <2>2. view'[u].site = view[u].site /\ view'[u].refresh = view[u].refresh /\ view'[u].case = view[u].case
    BY <1>1 DEF Locked
  <2>. QED BY <2>1, <2>2 DEF Hits, Answers
<1>6. NothingFrozen'
  BY <1>1 DEF GeoInv, NothingFrozen
<1>. QED BY <1>2, <1>3, <1>4, <1>5, <1>6 DEF GeoInv

(* A view goes on with the site, case and answer it has.                   *)
LEMMA GoesOn ==
  ASSUME GeoInv, NEW v \in Viewers, NEW at \in Steps \ {"cached"}, At(v, at),
         UNCHANGED <<drawnAs, cache, views, moves>>,
         view[v].at # "idle",
         at \in Locked => view[v].at \in Locked \/ ~LockTaken(view[v].site),
         at = "waiting" => Hits(v) = {}
  PROVE  GeoInv'
<1> DEFINE to == [view[v] EXCEPT !.at = at]
<1>1. /\ to \in [at : Steps, site : Sites \cup {"none"}, refresh : BOOLEAN,
                 case : DrawnCases, answer : Drawings]
      /\ to.at = at /\ to.site = view[v].site /\ to.refresh = view[v].refresh
      /\ to.case = view[v].case
  BY DEF GeoInv, GeoTypeOK
<1>2. view' = [view EXCEPT ![v] = to]
  BY DEF At
<1>3. views' \in Nat /\ view[v].site \in Sites
  BY DEF GeoInv, GeoTypeOK
<1> HIDE DEF to
<1>. QED BY <1>1, <1>2, <1>3, ViewStep

LEMMA Rests ==
  ASSUME GeoInv, NEW v \in Viewers, view' = [view EXCEPT ![v] = AtRest],
         UNCHANGED <<drawnAs, cache, views, moves>>
  PROVE  GeoInv'
<1>1. /\ AtRest \in [at : Steps, site : Sites \cup {"none"}, refresh : BOOLEAN,
                     case : DrawnCases, answer : Drawings]
      /\ AtRest.at = "idle"
  BY DEF AtRest, NoDrawing, Steps, DrawnCases, Drawings, Sources, Models
<1>. QED BY <1>1, ViewStep DEF Locked, GeoInv, GeoTypeOK

LEMMA FromCacheKeeps ==
  ASSUME GeoInv, NEW v \in Viewers, FromCache(v), UNCHANGED <<drawnAs, cache, views, moves>>
  PROVE  GeoInv'
<1>1. PICK row \in Hits(v) : view' = [view EXCEPT ![v].at = "cached", ![v].answer = row.drawing]
  BY DEF FromCache
<1>2. /\ row \in [site : Sites, drawing : Drawings]
      /\ row.site = view[v].site /\ row.drawing.terrain /\ ~row.drawing.failed
      /\ row.drawing.buildings = DrawnFrom(view[v].case.source)
      /\ row.drawing.canopy \in {"none", view[v].case.model}
  BY DEF GeoInv, GeoTypeOK, CompleteRows, Transient, Hits, Answers
<1> DEFINE to == [view[v] EXCEPT !.at = "cached", !.answer = row.drawing]
<1>3. /\ to \in [at : Steps, site : Sites \cup {"none"}, refresh : BOOLEAN,
                 case : DrawnCases, answer : Drawings]
      /\ to.at = "cached" /\ to.answer = row.drawing /\ to.case = view[v].case
      /\ to.site = view[v].site
  BY <1>2 DEF GeoInv, GeoTypeOK, Steps
<1>4. view' = [view EXCEPT ![v] = to]
  BY <1>1
<1> HIDE DEF to
<1>. QED BY <1>2, <1>3, <1>4, ViewStep DEF Locked, GeoInv, GeoTypeOK

-----------------------------------------------------------------------------
(* The actions.                                                            *)

LEMMA MovesOnKeeps ==
  ASSUME GeoInv, NEW c \in Sites, MovesOn(c)
  PROVE  GeoInv'
<1>1. drawnAs' \in [Sites -> DrawnCases]
  BY DEF MovesOn, GeoInv, GeoTypeOK, DrawnCases
<1>. QED BY <1>1 DEF MovesOn, GeoInv, GeoTypeOK, CompleteRows, OneHoldsLock, MissingStays,
                     NothingFrozen, Hits

LEMMA ViewsKeeps ==
  ASSUME GeoInv, NEW v \in Viewers, NEW c \in Sites, NEW refresh \in BOOLEAN, Views(v, c, refresh)
  PROVE  GeoInv'
<1> DEFINE to == [at |-> "read", site |-> c, refresh |-> refresh, case |-> drawnAs[c],
                  answer |-> NoDrawing]
<1>1. /\ to \in [at : Steps, site : Sites \cup {"none"}, refresh : BOOLEAN,
                 case : DrawnCases, answer : Drawings]
      /\ to.at = "read" /\ to.site \in Sites
  BY DEF GeoInv, GeoTypeOK, Steps, NoDrawing, Drawings
<1>2. view' = [view EXCEPT ![v] = to] /\ views' \in Nat /\ UNCHANGED <<drawnAs, cache, moves>>
  BY DEF Views, GeoInv, GeoTypeOK
<1> HIDE DEF to
<1>. QED BY <1>1, <1>2, ViewStep DEF Locked

(* A view that stores holds the lock of its case, so no other waits there. *)
LEMMA StoresKeeps ==
  ASSUME GeoInv, NEW v \in Viewers, Stores(v)
  PROVE  GeoInv'
<1>1. view[v].at = "storing" /\ view' = [view EXCEPT ![v] = AtRest]
      /\ UNCHANGED <<drawnAs, views, moves>>
  BY DEF Stores
<1>2. CASE cache' = cache
  BY <1>1, <1>2, Rests
<1>3. CASE cache' # cache
  <2> DEFINE d == view[v].answer
             new == [site |-> view[v].site, drawing |-> view[v].answer]
  <2>1. PICK kept \in SUBSET cache : cache' = kept \cup {new}
    BY <1>3 DEF Stores
  <2>2. ~Transient(d) /\ new \in [site : Sites, drawing : Drawings] /\ new.drawing = d
        /\ new.site = view[v].site
    BY <1>1, <1>3 DEF Stores, GeoInv, GeoTypeOK, Locked
  <2>3. view'[v] = AtRest /\ \A u \in Viewers \ {v} : view'[u] = view[u]
    BY <1>1 DEF GeoInv, GeoTypeOK
  <2>4. AtRest.at = "idle"
        /\ AtRest \in [at : Steps, site : Sites \cup {"none"}, refresh : BOOLEAN,
                       case : DrawnCases, answer : Drawings]
    BY DEF AtRest, NoDrawing, Steps, DrawnCases, Drawings, Sources, Models
  <2> HIDE DEF new, d
  <2>5. GeoTypeOK'
    BY <1>1, <2>1, <2>2, <2>3, <2>4 DEF GeoInv, GeoTypeOK, Locked
  <2>6. CompleteRows'
    BY <2>1, <2>2 DEF GeoInv, CompleteRows
  <2>7. OneHoldsLock'
    BY <2>3, <2>4 DEF GeoInv, OneHoldsLock, Locked
  <2>8. MissingStays'
    <3> SUFFICES ASSUME NEW u \in Viewers, view'[u].at = "waiting" PROVE Hits(u)' = {}
      BY DEF MissingStays
    <3>1. u # v /\ view'[u] = view[u]
      BY <2>3, <2>4
    <3>2. view[u].site # new.site
      BY <1>1, <2>2, <3>1 DEF GeoInv, OneHoldsLock, Locked
    <3>3. Hits(u) = {}
      BY <3>1 DEF GeoInv, MissingStays
    <3>. QED BY <2>1, <3>1, <3>2, <3>3 DEF Hits, Answers
  <2>9. NothingFrozen'
    BY <2>3, <2>4 DEF GeoInv, NothingFrozen
  <2>. QED BY <2>5, <2>6, <2>7, <2>8, <2>9 DEF GeoInv
<1>. QED BY <1>2, <1>3

LEMMA GeoNextInv == GeoInv /\ [GeoNext]_geoVars => GeoInv'
<1> SUFFICES ASSUME GeoInv, [GeoNext]_geoVars PROVE GeoInv'
  OBVIOUS
<1>1. ASSUME NEW c \in Sites, MovesOn(c) PROVE GeoInv'
  BY <1>1, MovesOnKeeps
<1>2. ASSUME NEW v \in Viewers, NEW c \in Sites, NEW refresh \in BOOLEAN, Views(v, c, refresh)
      PROVE  GeoInv'
  BY <1>2, ViewsKeeps
<1>3. ASSUME NEW v \in Viewers, LooksUp(v) PROVE GeoInv'
  <2>1. CASE Hits(v) # {}
    BY <1>3, <2>1, FromCacheKeeps DEF LooksUp
  <2>2. CASE Hits(v) = {}
    BY <1>3, <2>2, GoesOn DEF LooksUp, Steps, Locked
  <2>. QED BY <2>1, <2>2
<1>4. ASSUME NEW v \in Viewers, TakesLock(v) PROVE GeoInv'
  <2>1. "locked" \in Steps \ {"cached"} /\ view[v].at # "idle" /\ At(v, "locked")
        /\ ~LockTaken(view[v].site) /\ UNCHANGED <<drawnAs, cache, views, moves>>
    BY <1>4 DEF TakesLock, Steps
  <2>. QED BY <2>1, GoesOn
<1>5. ASSUME NEW v \in Viewers, LooksAgain(v) PROVE GeoInv'
  <2>1. CASE Hits(v) # {}
    BY <1>5, <2>1, FromCacheKeeps DEF LooksAgain, FoundAgain
  <2>2. CASE Hits(v) = {}
    <3>1. "waiting" \in Steps \ {"cached"} /\ view[v].at # "idle" /\ At(v, "waiting")
          /\ view[v].at \in Locked /\ UNCHANGED <<drawnAs, cache, views, moves>>
      BY <1>5, <2>2 DEF LooksAgain, FoundAgain, Steps, Locked
    <3>. QED BY <2>2, <3>1, GoesOn
  <2>. QED BY <2>1, <2>2
<1>6. ASSUME NEW v \in Viewers, TakesSlot(v) PROVE GeoInv'
  <2>1. "asking" \in Steps \ {"cached"} /\ view[v].at # "idle" /\ At(v, "asking")
        /\ view[v].at \in Locked /\ UNCHANGED <<drawnAs, cache, views, moves>>
    BY <1>6 DEF TakesSlot, Steps, Locked
  <2>. QED BY <2>1, GoesOn
<1>7. ASSUME NEW v \in Viewers, GivesUp(v) PROVE GeoInv'
  BY <1>7, Rests DEF GivesUp
<1>8. ASSUME NEW v \in Viewers, NEW d \in Drawn(view[v].case), Asks(v, d) PROVE GeoInv'
  <2> DEFINE to == [view[v] EXCEPT !.at = "storing", !.answer = d]
  <2>1. d \in Drawings
    BY DrawnIsDrawing DEF GeoInv, GeoTypeOK
  <2>2. /\ to \in [at : Steps, site : Sites \cup {"none"}, refresh : BOOLEAN,
                   case : DrawnCases, answer : Drawings]
        /\ to.at = "storing" /\ to.site = view[v].site
    BY <2>1 DEF GeoInv, GeoTypeOK, Steps
  <2>3. view' = [view EXCEPT ![v] = to] /\ view[v].at = "asking"
        /\ UNCHANGED <<drawnAs, cache, views, moves>>
    BY <1>8 DEF Asks
  <2>4. views' \in Nat /\ view[v].site \in Sites
    BY <2>3 DEF GeoInv, GeoTypeOK, Locked
  <2> HIDE DEF to
  <2>. QED BY <2>2, <2>3, <2>4, ViewStep DEF Locked
<1>9. ASSUME NEW v \in Viewers, Stores(v) PROVE GeoInv'
  BY <1>9, StoresKeeps
<1>10. CASE UNCHANGED geoVars
  BY <1>10 DEF geoVars, GeoInv, GeoTypeOK, CompleteRows, OneHoldsLock, MissingStays,
               NothingFrozen, Hits
<1>. QED BY <1>1, <1>2, <1>3, <1>4, <1>5, <1>6, <1>7, <1>8, <1>9, <1>10 DEF GeoNext

(* What the cache answers is complete, and drawn from what the case was    *)
(* meshed from when it was read (GET /v1/cases/{id}/footprints): only      *)
(* drawings with every layer are kept, and only matching rows answer.      *)
THEOREM NothingFrozenHolds == GeoSpec => []NothingFrozen
<1>1. GeoInv => NothingFrozen
  BY DEF GeoInv
<1>. QED BY <1>1, GeoInitInv, GeoNextInv, PTL DEF GeoSpec

(* The remote layers are asked only for what the cache misses at that very *)
(* moment, long after the look that missed it: nobody but the holder of    *)
(* the case's lock stores a row of that case.                              *)
THEOREM NotAskedTwiceHolds == GeoSpec => NotAskedTwice
<1>1. GeoInv /\ [GeoNext]_geoVars =>
        [\A v \in Viewers : view[v].at # "asking" /\ view'[v].at = "asking" => Hits(v) = {}]_geoVars
  <2> SUFFICES ASSUME GeoInv, GeoNext, NEW v \in Viewers,
                      view[v].at # "asking", view'[v].at = "asking"
               PROVE  Hits(v) = {}
    OBVIOUS
  <2>1. view \in [Viewers -> [at : Steps, site : Sites \cup {"none"}, refresh : BOOLEAN,
                              case : DrawnCases, answer : Drawings]]
    BY DEF GeoInv, GeoTypeOK
  <2>2. view[v].at = "waiting"
    <3>1. ASSUME NEW c \in Sites, MovesOn(c) PROVE view[v].at = "waiting"
      BY <2>1, <3>1 DEF MovesOn
    <3>2. ASSUME NEW u \in Viewers, NEW c \in Sites, NEW refresh \in BOOLEAN, Views(u, c, refresh) PROVE view[v].at = "waiting"
      BY <2>1, <3>2 DEF Views
    <3>3. ASSUME NEW u \in Viewers, LooksUp(u) PROVE view[v].at = "waiting"
      BY <2>1, <3>3 DEF LooksUp, FromCache, At
    <3>4. ASSUME NEW u \in Viewers, TakesLock(u) PROVE view[v].at = "waiting"
      BY <2>1, <3>4 DEF TakesLock, At
    <3>5. ASSUME NEW u \in Viewers, LooksAgain(u) PROVE view[v].at = "waiting"
      BY <2>1, <3>5 DEF LooksAgain, FromCache, At
    <3>6. ASSUME NEW u \in Viewers, TakesSlot(u) PROVE view[v].at = "waiting"
      BY <2>1, <3>6 DEF TakesSlot, At
    <3>7. ASSUME NEW u \in Viewers, GivesUp(u) PROVE view[v].at = "waiting"
      BY <2>1, <3>7 DEF GivesUp, AtRest
    <3>8. ASSUME NEW u \in Viewers, NEW d \in Drawn(view[u].case), Asks(u, d) PROVE view[v].at = "waiting"
      BY <2>1, <3>8 DEF Asks
    <3>9. ASSUME NEW u \in Viewers, Stores(u) PROVE view[v].at = "waiting"
      BY <2>1, <3>9 DEF Stores, AtRest
    <3>. QED BY <3>1, <3>2, <3>3, <3>4, <3>5, <3>6, <3>7, <3>8, <3>9 DEF GeoNext
  <2>. QED BY <2>2 DEF GeoInv, MissingStays
<1>. QED BY <1>1, GeoInitInv, GeoNextInv, PTL DEF GeoSpec, NotAskedTwice

(***************************************************************************)
(* SignIn.  What a key was charged in this window is never less than the   *)
(* passwords checked under it, and never more than the made-up links that  *)
(* came from it.                                                           *)
(***************************************************************************)
ShareKeys == {ShareKey(a) : a \in Addresses}

KnockStates ==
  [at : {"outside"}] \cup [at : {"password"}, name : LoginNames, addr : Addresses]
    \cup [at : {"token"}, token : Tokens, addr : Addresses, since : Nat]

(* The type invariant: no charge, nor one to come, is later than the clock.*)
SignInTypeOK ==
  /\ clock \in Nat
  /\ failures \in [Keys -> Seq(Nat)] /\ tried \in [Keys -> Seq(Nat)]
  /\ \A k \in Keys : \A i \in 1 .. Len(failures[k]) : failures[k][i] <= clock
  /\ knock \in [Knocks -> KnockStates]
  /\ \A r \in Knocks : knock[r].at = "token" => knock[r].since <= clock

Covered(k) ==
  /\ k \in LoginKeys => Len(tried[k]) <= Limit(k) /\ Len(tried[k]) <= InWindow(failures[k])
  /\ k \in ShareKeys => InWindow(failures[k]) <= Len(tried[k])

SignInInv == SignInTypeOK /\ \A k \in Keys : Covered(k)

-----------------------------------------------------------------------------
(* How much of a sequence lies in this window, and what a charge adds.     *)
LEMMA WindowOf ==
  ASSUME NEW s \in Seq(Nat), clock \in Nat
  PROVE  /\ InWindow(s) \in Nat
         /\ Recent(s) \in Seq(Nat) /\ Len(Recent(s)) = InWindow(s)
         /\ \A i \in 1 .. Len(Recent(s)) : Recent(s)[i] = clock
         /\ InWindow(Recent(s)) = InWindow(s)
<1>1. IsFiniteSet({i \in DOMAIN s : s[i] = clock})
  <2>1. DOMAIN s = 1 .. Len(s) /\ Len(s) \in Nat
    OBVIOUS
  <2>2. IsFiniteSet(1 .. Len(s))
    BY <2>1, FS_Interval
  <2>. QED BY <2>1, <2>2, FS_Subset
<1>2. InWindow(s) \in Nat
  BY <1>1, FS_CardinalityType DEF InWindow
<1>3. /\ Recent(s) \in Seq(Nat) /\ Len(Recent(s)) = InWindow(s)
      /\ DOMAIN Recent(s) = 1 .. InWindow(s)
      /\ \A i \in 1 .. InWindow(s) : Recent(s)[i] = clock
  BY <1>2 DEF Recent
<1>4. {i \in DOMAIN Recent(s) : Recent(s)[i] = clock} = 1 .. InWindow(s)
  BY <1>3
<1>5. Cardinality(1 .. InWindow(s)) = InWindow(s)
  BY <1>2, FS_Interval
<1>6. InWindow(Recent(s)) = Cardinality(1 .. InWindow(s))
  BY <1>4 DEF InWindow
<1>. QED BY <1>2, <1>3, <1>5, <1>6

LEMMA WindowAppend ==
  ASSUME NEW s \in Seq(Nat), NEW t \in Nat, clock \in Nat
  PROVE  /\ Append(s, t) \in Seq(Nat) /\ Len(Append(s, t)) = Len(s) + 1
         /\ \A i \in 1 .. Len(s) : Append(s, t)[i] = s[i]
         /\ Append(s, t)[Len(s) + 1] = t
         /\ InWindow(Append(s, t)) = IF t = clock THEN InWindow(s) + 1 ELSE InWindow(s)
<1> DEFINE now == {i \in DOMAIN s : s[i] = clock}
           then == {i \in DOMAIN Append(s, t) : Append(s, t)[i] = clock}
<1>1. /\ Append(s, t) \in Seq(Nat) /\ Len(Append(s, t)) = Len(s) + 1
      /\ \A i \in 1 .. Len(s) : Append(s, t)[i] = s[i]
      /\ Append(s, t)[Len(s) + 1] = t
      /\ DOMAIN Append(s, t) = 1 .. Len(s) + 1
      /\ DOMAIN s = 1 .. Len(s) /\ Len(s) \in Nat
  OBVIOUS
<1>2. IsFiniteSet(now)
  <2>1. IsFiniteSet(1 .. Len(s))
    BY <1>1, FS_Interval
  <2>. QED BY <1>1, <2>1, FS_Subset
<1>3. CASE t = clock
  <2>1. then = now \cup {Len(s) + 1} /\ Len(s) + 1 \notin now
    BY <1>1, <1>3
  <2>2. Cardinality(then) = Cardinality(now) + 1
    <3> HIDE DEF then, now
    <3>. QED BY <1>2, <2>1, FS_AddElement
  <2>. QED BY <1>1, <1>3, <2>2 DEF InWindow
<1>4. CASE t # clock
  <2>1. then = now
    BY <1>1, <1>4
  <2>. QED BY <1>1, <1>4, <2>1 DEF InWindow
<1>. QED BY <1>3, <1>4

LEMMA WindowEmpty ==
  ASSUME clock \in Nat
  PROVE  InWindow(<<>>) = 0
<1>1. {i \in DOMAIN <<>> : (<<>>)[i] = clock} = {}
  OBVIOUS
<1>. QED BY <1>1, FS_EmptySet DEF InWindow

LEMMA KeyKinds ==
  /\ \A n \in LoginNames, a \in Addresses :
       NameKey(n, a) \in LoginKeys /\ NameKey(n, a) \notin ShareKeys
  /\ \A a \in Addresses : /\ AddrKey(a) \in LoginKeys /\ AddrKey(a) \notin ShareKeys
                          /\ ShareKey(a) \in ShareKeys /\ ShareKey(a) \notin LoginKeys
  /\ \A n \in LoginNames, a, b \in Addresses : NameKey(n, a) # AddrKey(b)
  /\ LoginKeys \cup ShareKeys = Keys /\ LoginKeys \cap ShareKeys = {}
<1>1. /\ \A n, a : NameKey(n, a).for = "name"
      /\ \A a : AddrKey(a).for = "addr" /\ ShareKey(a).for = "share"
  BY DEF NameKey, AddrKey, ShareKey
<1>2. /\ \A k \in LoginKeys : k.for # "share"
      /\ \A k \in ShareKeys : k.for = "share"
  BY <1>1 DEF LoginKeys, ShareKeys
<1>3. \A n \in LoginNames, a \in Addresses : NameKey(n, a) \in LoginKeys
  BY DEF LoginKeys
<1>4. \A a \in Addresses : AddrKey(a) \in LoginKeys /\ ShareKey(a) \in ShareKeys
  BY DEF LoginKeys, ShareKeys
<1>5. LoginKeys \cup ShareKeys = Keys
  BY DEF ShareKeys, Keys
<1>6. \A n \in LoginNames, a, b \in Addresses : NameKey(n, a) # AddrKey(b)
  <2> SUFFICES ASSUME NEW n \in LoginNames, NEW a \in Addresses, NEW b \in Addresses,
                      NameKey(n, a) = AddrKey(b)
               PROVE  FALSE
    OBVIOUS
  <2>1. NameKey(n, a).for = AddrKey(b).for
    OBVIOUS
  <2>. QED BY <1>1, <2>1
<1>. QED BY <1>2, <1>3, <1>4, <1>5, <1>6

LEMMA LimitType == \A k \in Keys : Limit(k) \in Nat \ {0}
BY SignInAssumption DEF Limit, SignInAssumption

LEMMA LetGo ==
  ASSUME NEW f \in [Keys -> Seq(Nat)], NEW dropped
  PROVE  /\ Letting(f, dropped) \in [Keys -> Seq(Nat)]
         /\ \A k \in Keys : Letting(f, dropped)[k] = IF k \in dropped THEN <<>> ELSE f[k]
BY DEF Letting

(* What the invariant says of one key, of any charges and any tries.       *)
Within(f, h, k) ==
  /\ \A i \in 1 .. Len(f[k]) : f[k][i] <= clock
  /\ k \in LoginKeys => Len(h[k]) <= Limit(k) /\ Len(h[k]) <= InWindow(f[k])
  /\ k \in ShareKeys => InWindow(f[k]) <= Len(h[k])

(* A step of a request and of the throttle keeps the invariant when it is  *)
(* within it key by key, and the same keys are then let go in both.        *)
LEMMA KeyByKey ==
  ASSUME clock \in Nat, clock' = clock,
         NEW f \in [Keys -> Seq(Nat)], NEW h \in [Keys -> Seq(Nat)], NEW dropped,
         failures' = Letting(f, dropped), tried' = Letting(h, dropped),
         \A k \in Keys : Within(f, h, k),
         knock' \in [Knocks -> KnockStates],
         \A r \in Knocks : knock'[r].at = "token" => knock'[r].since <= clock
  PROVE  SignInInv'
<1>1. /\ failures' \in [Keys -> Seq(Nat)] /\ tried' \in [Keys -> Seq(Nat)]
      /\ \A k \in Keys : /\ failures'[k] = IF k \in dropped THEN <<>> ELSE f[k]
                         /\ tried'[k] = IF k \in dropped THEN <<>> ELSE h[k]
  BY LetGo
<1>2. SignInTypeOK'
  <2>1. \A k \in Keys : \A i \in 1 .. Len(failures'[k]) : failures'[k][i] <= clock
    BY <1>1 DEF Within
  <2>. QED BY <1>1, <2>1 DEF SignInTypeOK
<1>3. \A k \in Keys : Covered(k)'
  <2> SUFFICES ASSUME NEW k \in Keys PROVE Covered(k)'
    OBVIOUS
  <2>2. CASE k \in dropped
    <3>1. failures'[k] = <<>> /\ tried'[k] = <<>>
      BY <1>1, <2>2
    <3>2. Cardinality({i \in DOMAIN failures'[k] : failures'[k][i] = clock'}) = 0
      BY <3>1, WindowEmpty DEF InWindow
    <3>3. Len(tried'[k]) = 0
      BY <3>1
    <3>. QED BY <3>2, <3>3, LimitType DEF Covered, InWindow
  <2>3. CASE k \notin dropped
    <3>1. failures'[k] = f[k] /\ tried'[k] = h[k]
      BY <1>1, <2>3
    <3>2. Cardinality({i \in DOMAIN failures'[k] : failures'[k][i] = clock'}) = InWindow(f[k])
      BY <3>1 DEF InWindow
    <3>3. Within(f, h, k)
      OBVIOUS
    <3>. QED BY <3>1, <3>2, <3>3 DEF Covered, InWindow, Within
  <2>. QED BY <2>2, <2>3
<1>. QED BY <1>2, <1>3 DEF SignInInv

(* What the throttle reads of a key, and what it charges.                  *)
LEMMA Charges ==
  ASSUME SignInInv, NEW k \in Keys
  PROVE  /\ InWindow(failures[k]) \in Nat /\ Limit(k) \in Nat
         /\ Recent(failures[k]) \in Seq(Nat) /\ InWindow(Recent(failures[k])) = InWindow(failures[k])
         /\ \A i \in 1 .. Len(Recent(failures[k])) : Recent(failures[k])[i] <= clock
         /\ Charged(k) \in Seq(Nat) /\ InWindow(Charged(k)) = InWindow(failures[k]) + 1
         /\ \A i \in 1 .. Len(Charged(k)) : Charged(k)[i] <= clock
         /\ Full(k) <=> InWindow(failures[k]) >= Limit(k)
<1>1. failures[k] \in Seq(Nat) /\ clock \in Nat
  BY DEF SignInInv, SignInTypeOK
<1> DEFINE r == Recent(failures[k])
<1>2. /\ InWindow(failures[k]) \in Nat /\ r \in Seq(Nat) /\ Len(r) = InWindow(failures[k])
      /\ \A i \in 1 .. Len(r) : r[i] = clock
      /\ InWindow(r) = InWindow(failures[k])
  BY <1>1, WindowOf
<1>3. Charged(k) = Append(r, clock)
  BY DEF Charged
<1>4. Full(k) <=> Len(r) >= Limit(k)
  BY DEF Full
<1> HIDE DEF r
<1>5. /\ Append(r, clock) \in Seq(Nat) /\ Len(Append(r, clock)) = Len(r) + 1
      /\ \A i \in 1 .. Len(r) : Append(r, clock)[i] = r[i]
      /\ Append(r, clock)[Len(r) + 1] = clock
      /\ InWindow(Append(r, clock)) = InWindow(r) + 1
  BY <1>1, <1>2, WindowAppend
<1>6. \A i \in 1 .. Len(Charged(k)) : Charged(k)[i] <= clock
  <2> SUFFICES ASSUME NEW i \in 1 .. Len(r) + 1 PROVE Append(r, clock)[i] <= clock
    BY <1>3, <1>5
  <2>1. CASE i = Len(r) + 1
    BY <1>1, <1>5, <2>1
  <2>2. CASE i # Len(r) + 1
    <3>1. i \in 1 .. Len(r)
      BY <1>2, <2>2
    <3>. QED BY <1>1, <1>2, <1>5, <3>1
  <2>. QED BY <2>1, <2>2
<1>7. Limit(k) \in Nat
  BY LimitType
<1>8. \A i \in 1 .. Len(r) : r[i] <= clock
  BY <1>1, <1>2
<1>. QED BY <1>2, <1>3, <1>4, <1>5, <1>6, <1>7, <1>8 DEF r

LEMMA LetNone ==
  ASSUME NEW f \in [Keys -> Seq(Nat)]
  PROVE  Letting(f, {}) = f
BY DEF Letting

LEMMA SignInInitInv == SignInInit => SignInInv
<1> SUFFICES ASSUME SignInInit PROVE SignInInv
  OBVIOUS
<1>1. \A k \in Keys : failures[k] = <<>> /\ tried[k] = <<>>
  BY DEF SignInInit
<1>2. clock \in Nat
  BY DEF SignInInit
<1>3. SignInTypeOK
  BY <1>1 DEF SignInInit, SignInTypeOK, KnockStates, Outside
<1>4. InWindow(<<>>) = 0
  BY <1>2, WindowEmpty
<1>5. \A k \in Keys : Covered(k)
  BY <1>1, <1>4, LimitType DEF Covered
<1>. QED BY <1>3, <1>5 DEF SignInInv

-----------------------------------------------------------------------------
(* The actions.                                                            *)

(* What happened in the last window counts no more: no charge of a share   *)
(* key is later than the clock was.                                        *)
LEMMA NextWindowKeeps ==
  ASSUME SignInInv, NextWindow
  PROVE  SignInInv'
<1>1. /\ clock' = clock + 1 /\ clock' \in Nat /\ failures' = failures /\ knock' = knock
      /\ tried' = [k \in Keys |-> <<>>]
  BY DEF NextWindow, SignInInv, SignInTypeOK
<1>2. SignInTypeOK'
  BY <1>1 DEF SignInInv, SignInTypeOK, KnockStates
<1>3. \A k \in Keys : Covered(k)'
  <2> SUFFICES ASSUME NEW k \in Keys PROVE Covered(k)'
    OBVIOUS
  <2>1. {i \in DOMAIN failures'[k] : failures'[k][i] = clock'} = {}
    <3>1. /\ failures'[k] \in Seq(Nat) /\ DOMAIN failures'[k] = 1 .. Len(failures'[k])
          /\ \A i \in 1 .. Len(failures'[k]) : failures'[k][i] <= clock
      BY <1>1 DEF SignInInv, SignInTypeOK
    <3>2. clock \in Nat /\ \A i \in 1 .. Len(failures'[k]) : failures'[k][i] \in Nat
      BY <3>1 DEF SignInInv, SignInTypeOK
    <3>. QED BY <1>1, <3>1, <3>2
  <2>2. Cardinality({i \in DOMAIN failures'[k] : failures'[k][i] = clock'}) = 0
    BY <2>1, FS_EmptySet
  <2>3. Len(tried'[k]) = 0
    BY <1>1
  <2>. QED BY <2>2, <2>3, LimitType DEF Covered, InWindow
<1>. QED BY <1>2, <1>3 DEF SignInInv

LEMMA LoginKeeps ==
  ASSUME SignInInv, NEW r \in Knocks, NEW n \in LoginNames, NEW a \in Addresses, Login(r, n, a)
  PROVE  SignInInv'
<1> DEFINE name  == NameKey(n, a)
           addr  == AddrKey(a)
           atName == IF Full(name) THEN Recent(failures[name]) ELSE Charged(name)
           atAddr == IF Full(addr) THEN Recent(failures[addr]) ELSE Charged(addr)
           named == [failures EXCEPT ![name] = atName]
           both  == [named EXCEPT ![addr] = atAddr]
           tries == [tried EXCEPT ![name] = Append(@, clock), ![addr] = Append(@, clock)]
<1>1. /\ clock \in Nat /\ clock' = clock
      /\ failures \in [Keys -> Seq(Nat)] /\ tried \in [Keys -> Seq(Nat)]
      /\ \A k \in Keys : \A i \in 1 .. Len(failures[k]) : failures[k][i] <= clock
      /\ knock \in [Knocks -> KnockStates]
      /\ \A q \in Knocks : knock[q].at = "token" => knock[q].since <= clock
  BY DEF Login, SignInInv, SignInTypeOK
<1>2. /\ name \in Keys /\ addr \in Keys /\ name # addr
      /\ name \in LoginKeys /\ addr \in LoginKeys /\ name \notin ShareKeys /\ addr \notin ShareKeys
  BY KeyKinds
<1>3. CASE Full(name)
  <2>1. failures' = named /\ tried' = tried /\ knock' = knock
    BY <1>3 DEF Login
  <2> DEFINE rest == Recent(failures[name])
  <2>2. named = [failures EXCEPT ![name] = rest]
    BY <1>3
  <2>3. /\ rest \in Seq(Nat) /\ InWindow(rest) = InWindow(failures[name])
        /\ \A i \in 1 .. Len(rest) : rest[i] <= clock
    BY <1>2, Charges
  <2> HIDE DEF named, name, addr, rest
  <2>4. named \in [Keys -> Seq(Nat)] /\ named[name] = rest
        /\ \A k \in Keys \ {name} : named[k] = failures[k]
    BY <1>1, <1>2, <2>2, <2>3
  <2>5. \A k \in Keys : /\ InWindow(named[k]) = InWindow(failures[k])
                       /\ \A i \in 1 .. Len(named[k]) : named[k][i] <= clock
    BY <1>1, <2>3, <2>4
  <2>6. \A k \in Keys : Covered(k)
    BY DEF SignInInv
  <2>7. failures' = Letting(named, {}) /\ tried' = Letting(tried, {})
    BY <1>1, <2>1, <2>4, LetNone
  <2>8. \A k \in Keys : Within(named, tried, k)
    BY <2>5, <2>6 DEF Covered, Within
  <2>. QED BY <1>1, <2>1, <2>4, <2>7, <2>8, KeyByKey
<1>4. CASE ~Full(name)
  <2>1. /\ Charged(name) \in Seq(Nat) /\ InWindow(Charged(name)) = InWindow(failures[name]) + 1
        /\ \A i \in 1 .. Len(Charged(name)) : Charged(name)[i] <= clock
        /\ InWindow(failures[name]) \in Nat /\ InWindow(failures[name]) < Limit(name)
    BY <1>2, <1>4, Charges
  <2>2. /\ atAddr \in Seq(Nat)
        /\ InWindow(atAddr) = IF Full(addr) THEN InWindow(failures[addr]) ELSE InWindow(failures[addr]) + 1
        /\ \A i \in 1 .. Len(atAddr) : atAddr[i] <= clock
        /\ InWindow(failures[addr]) \in Nat
        /\ ~Full(addr) => InWindow(failures[addr]) < Limit(addr)
    BY <1>2, Charges
  <2> DEFINE charged == Charged(name)
  <2>3. both = [failures EXCEPT ![name] = charged, ![addr] = atAddr]
    BY <1>4
  <2>4. \A k \in Keys : Covered(k)
    BY DEF SignInInv
  <2>5. IF Full(addr)
          THEN failures' = both /\ tried' = tried /\ knock' = knock
          ELSE /\ \E dropped : failures' = Letting(both, dropped) /\ tried' = Letting(tries, dropped)
               /\ knock' = [knock EXCEPT ![r] = [at |-> "password", name |-> n, addr |-> a]]
    BY <1>4 DEF Login
  <2>6. tries = [tried EXCEPT ![name] = Append(tried[name], clock), ![addr] = Append(tried[addr], clock)]
    BY <1>2
  <2> HIDE DEF named, both, tries, name, addr, charged, atAddr
  <2>7. /\ both \in [Keys -> Seq(Nat)] /\ both[name] = charged /\ both[addr] = atAddr
        /\ \A k \in Keys \ {name, addr} : both[k] = failures[k]
    BY <1>1, <1>2, <2>1, <2>2, <2>3 DEF charged
  <2>8. /\ tries \in [Keys -> Seq(Nat)]
        /\ Len(tries[name]) = Len(tried[name]) + 1 /\ Len(tries[addr]) = Len(tried[addr]) + 1
        /\ \A k \in Keys \ {name, addr} : tries[k] = tried[k]
    <3>1. Append(tried[name], clock) \in Seq(Nat) /\ Append(tried[addr], clock) \in Seq(Nat)
      BY <1>1, <1>2
    <3>2. /\ Len(Append(tried[name], clock)) = Len(tried[name]) + 1
          /\ Len(Append(tried[addr], clock)) = Len(tried[addr]) + 1
      BY <1>1, <1>2
    <3> DEFINE x == Append(tried[name], clock)
               y == Append(tried[addr], clock)
    <3>3. tries = [tried EXCEPT ![name] = x, ![addr] = y]
      BY <2>6
    <3> HIDE DEF x, y
    <3>4. x \in Seq(Nat) /\ y \in Seq(Nat)
      BY <3>1 DEF x, y
    <3>5. /\ tries \in [Keys -> Seq(Nat)] /\ tries[name] = x /\ tries[addr] = y
          /\ \A k \in Keys \ {name, addr} : tries[k] = tried[k]
      BY <1>1, <1>2, <3>3, <3>4
    <3>. QED BY <3>2, <3>5 DEF x, y
  <2>9. \A k \in Keys : \A i \in 1 .. Len(both[k]) : both[k][i] <= clock
    BY <1>1, <2>1, <2>2, <2>7 DEF charged
  <2>10. \A k \in Keys : Len(tried[k]) \in Nat /\ Len(tries[k]) \in Nat /\ Limit(k) \in Nat
    BY <1>1, <2>8, LimitType
  <2>11. CASE Full(addr)
    <3>1. failures' = Letting(both, {}) /\ tried' = Letting(tried, {}) /\ knock' = knock
      BY <1>1, <2>5, <2>7, <2>11, LetNone
    <3>2. \A k \in Keys : Within(both, tried, k)
      <4> SUFFICES ASSUME NEW k \in Keys PROVE Within(both, tried, k)
        OBVIOUS
      <4>1. CASE k = name
        BY <1>2, <2>1, <2>4, <2>7, <2>10, <2>9, <4>1 DEF Covered, Within, charged
      <4>2. CASE k = addr
        BY <1>2, <2>2, <2>4, <2>7, <2>10, <2>11, <2>9, <4>2 DEF Covered, Within
      <4>3. CASE k \notin {name, addr}
        BY <2>4, <2>7, <2>9, <4>3 DEF Covered, Within
      <4>. QED BY <4>1, <4>2, <4>3
    <3>. QED BY <1>1, <2>7, <3>1, <3>2, KeyByKey
  <2>12. CASE ~Full(addr)
    <3>1. PICK dropped : failures' = Letting(both, dropped) /\ tried' = Letting(tries, dropped)
      BY <2>5, <2>12
    <3>2. \A k \in Keys : Within(both, tries, k)
      <4> SUFFICES ASSUME NEW k \in Keys PROVE Within(both, tries, k)
        OBVIOUS
      <4>1. CASE k = name
        <5>1. /\ Len(tried[name]) <= Limit(name) /\ Len(tried[name]) <= InWindow(failures[name])
              /\ InWindow(failures[name]) \in Nat /\ InWindow(failures[name]) < Limit(name)
              /\ InWindow(both[name]) = InWindow(failures[name]) + 1
              /\ Len(tries[name]) = Len(tried[name]) + 1
          BY <1>2, <2>1, <2>4, <2>7, <2>8 DEF Covered, charged
        <5>2. Len(tries[name]) <= Limit(name) /\ Len(tries[name]) <= InWindow(both[name])
          BY <1>2, <2>10, <5>1
        <5>. QED BY <1>2, <2>9, <4>1, <5>2 DEF Within
      <4>2. CASE k = addr
        <5>1. /\ Len(tried[addr]) <= Limit(addr) /\ Len(tried[addr]) <= InWindow(failures[addr])
              /\ InWindow(failures[addr]) \in Nat /\ InWindow(failures[addr]) < Limit(addr)
              /\ InWindow(both[addr]) = InWindow(failures[addr]) + 1
              /\ Len(tries[addr]) = Len(tried[addr]) + 1
          BY <1>2, <2>2, <2>4, <2>7, <2>8, <2>12 DEF Covered
        <5>2. Len(tries[addr]) <= Limit(addr) /\ Len(tries[addr]) <= InWindow(both[addr])
          BY <1>2, <2>10, <5>1
        <5>. QED BY <1>2, <2>9, <4>2, <5>2 DEF Within
      <4>3. CASE k \notin {name, addr}
        BY <2>4, <2>7, <2>8, <2>9, <4>3 DEF Covered, Within
      <4>. QED BY <4>1, <4>2, <4>3
    <3>3. /\ knock' \in [Knocks -> KnockStates]
          /\ \A q \in Knocks : knock'[q].at = "token" => knock'[q].since <= clock
      <4> DEFINE to == [at |-> "password", name |-> n, addr |-> a]
      <4>1. to \in KnockStates /\ to.at # "token"
        BY DEF KnockStates
      <4>2. knock' = [knock EXCEPT ![r] = to]
        BY <2>5, <2>12
      <4> HIDE DEF to
      <4>. QED BY <1>1, <4>1, <4>2
    <3>. QED BY <1>1, <2>7, <2>8, <3>1, <3>2, <3>3, KeyByKey
  <2>. QED BY <2>11, <2>12
<1>. QED BY <1>3, <1>4

(* A request that is over, of either door.                                 *)
LEMMA Goes ==
  ASSUME SignInInv, NEW r \in Knocks, knock' = [knock EXCEPT ![r] = Outside]
  PROVE  /\ knock' \in [Knocks -> KnockStates]
         /\ \A q \in Knocks : knock'[q].at = "token" => knock'[q].since <= clock
<1>1. Outside \in KnockStates /\ Outside.at = "outside"
  BY DEF Outside, KnockStates
<1>. QED BY <1>1 DEF SignInInv, SignInTypeOK

LEMMA PasswordKeeps ==
  ASSUME SignInInv, NEW r \in Knocks, WrongPassword(r) \/ RightPassword(r)
  PROVE  SignInInv'
<1>1. /\ clock \in Nat /\ clock' = clock
      /\ failures \in [Keys -> Seq(Nat)] /\ tried \in [Keys -> Seq(Nat)]
      /\ \A k \in Keys : \A i \in 1 .. Len(failures[k]) : failures[k][i] <= clock
      /\ \A k \in Keys : Covered(k)
  BY DEF WrongPassword, RightPassword, SignInInv, SignInTypeOK
<1>2. \E paid : failures' = Letting(failures, paid) /\ tried' = Letting(tried, paid)
  <2>1. CASE WrongPassword(r)
    <3>1. failures' = Letting(failures, {}) /\ tried' = Letting(tried, {})
      BY <1>1, <2>1, LetNone DEF WrongPassword
    <3>. QED BY <3>1
  <2>2. CASE RightPassword(r)
    BY <2>2 DEF RightPassword
  <2>. QED BY <2>1, <2>2
<1>3. /\ knock' \in [Knocks -> KnockStates]
      /\ \A q \in Knocks : knock'[q].at = "token" => knock'[q].since <= clock
  BY Goes DEF WrongPassword, RightPassword
<1>4. \A k \in Keys : Within(failures, tried, k)
  BY <1>1 DEF Within, Covered
<1>. QED BY <1>1, <1>2, <1>3, <1>4, KeyByKey

(* A link is looked at: what its address was charged earlier is forgotten, *)
(* and the charge to come is of now.                                       *)
LEMMA PresentsKeeps ==
  ASSUME SignInInv, NEW r \in Knocks, NEW t \in Tokens, NEW a \in Addresses, Presents(r, t, a)
  PROVE  SignInInv'
<1> DEFINE share == ShareKey(a)
           rest  == Recent(failures[share])
           f     == [failures EXCEPT ![share] = rest]
           to    == [at |-> "token", token |-> t, addr |-> a, since |-> clock]
<1>1. /\ clock \in Nat /\ clock' = clock
      /\ failures \in [Keys -> Seq(Nat)] /\ tried \in [Keys -> Seq(Nat)]
      /\ \A k \in Keys : \A i \in 1 .. Len(failures[k]) : failures[k][i] <= clock
      /\ knock \in [Knocks -> KnockStates]
      /\ \A q \in Knocks : knock[q].at = "token" => knock[q].since <= clock
      /\ \A k \in Keys : Covered(k)
  BY DEF Presents, SignInInv, SignInTypeOK
<1>2. share \in Keys /\ share \in ShareKeys /\ share \notin LoginKeys
  BY KeyKinds
<1>3. failures' = f /\ tried' = tried /\ (knock' = knock \/ knock' = [knock EXCEPT ![r] = to])
  BY DEF Presents
<1>4. /\ rest \in Seq(Nat) /\ InWindow(rest) = InWindow(failures[share])
      /\ \A i \in 1 .. Len(rest) : rest[i] <= clock
  BY <1>2, Charges
<1>5. to \in KnockStates /\ to.since <= clock
  BY <1>1 DEF KnockStates
<1> HIDE DEF to, rest, share
<1>6. f \in [Keys -> Seq(Nat)] /\ f[share] = rest /\ \A k \in Keys \ {share} : f[k] = failures[k]
  BY <1>1, <1>2, <1>4
<1> HIDE DEF f
<1>7. \A k \in Keys : Within(f, tried, k)
  BY <1>1, <1>4, <1>6 DEF Within, Covered
<1>8. /\ knock' \in [Knocks -> KnockStates]
      /\ \A q \in Knocks : knock'[q].at = "token" => knock'[q].since <= clock
  BY <1>1, <1>3, <1>5
<1>9. failures' = Letting(f, {}) /\ tried' = Letting(tried, {})
  BY <1>1, <1>3, <1>6, LetNone
<1>. QED BY <1>1, <1>6, <1>7, <1>8, <1>9, KeyByKey

(* Only a made-up token is charged; when its charge is of an earlier       *)
(* window, it counts for nothing.                                          *)
LEMMA RedeemsKeeps ==
  ASSUME SignInInv, NEW r \in Knocks, Redeems(r)
  PROVE  SignInInv'
<1> DEFINE a      == knock[r].addr
           since  == knock[r].since
           share  == ShareKey(a)
           more   == Append(failures[share], since)
           charge == [failures EXCEPT ![share] = Append(@, since)]
           again  == Append(tried[share], clock)
           tries  == IF since = clock THEN [tried EXCEPT ![share] = Append(@, clock)] ELSE tried
<1>1. /\ clock \in Nat /\ clock' = clock
      /\ failures \in [Keys -> Seq(Nat)] /\ tried \in [Keys -> Seq(Nat)]
      /\ \A k \in Keys : \A i \in 1 .. Len(failures[k]) : failures[k][i] <= clock
      /\ \A k \in Keys : Covered(k)
  BY DEF Redeems, SignInInv, SignInTypeOK
<1>2. /\ knock' \in [Knocks -> KnockStates]
      /\ \A q \in Knocks : knock'[q].at = "token" => knock'[q].since <= clock
  BY Goes DEF Redeems
<1>3. since \in Nat /\ since <= clock /\ a \in Addresses
  BY DEF Redeems, SignInInv, SignInTypeOK, KnockStates
<1>4. share \in Keys /\ share \in ShareKeys /\ share \notin LoginKeys
  BY <1>3, KeyKinds
<1>5. CASE ~Unknown(knock[r].token)
  <2>1. failures' = failures
    BY <1>5 DEF Redeems, Counts
  <2>2. tried' = Letting(tried, {})
    BY <1>5 DEF Redeems, Counts
  <2>3. failures' = Letting(failures, {})
    BY <1>1, <2>1, LetNone
  <2>4. \A k \in Keys : Within(failures, tried, k)
    BY <1>1 DEF Within, Covered
  <2>. QED BY <1>1, <1>2, <2>2, <2>3, <2>4, KeyByKey
<1>6. CASE Unknown(knock[r].token)
  <2>1. PICK dropped : failures' = Letting(charge, dropped) /\ tried' = Letting(tries, dropped)
    BY <1>6 DEF Redeems, Counts
  <2>2. charge = [failures EXCEPT ![share] = more]
    OBVIOUS
  <2>3. tries = IF since = clock THEN [tried EXCEPT ![share] = again] ELSE tried
    OBVIOUS
  <2>4. failures[share] \in Seq(Nat) /\ tried[share] \in Seq(Nat)
    BY <1>1, <1>4
  <2>5. /\ more \in Seq(Nat) /\ Len(more) = Len(failures[share]) + 1
        /\ \A i \in 1 .. Len(failures[share]) : more[i] = failures[share][i]
        /\ more[Len(failures[share]) + 1] = since
        /\ InWindow(more) = IF since = clock THEN InWindow(failures[share]) + 1 ELSE InWindow(failures[share])
    BY <1>1, <1>3, <2>4, WindowAppend
  <2>6. again \in Seq(Nat) /\ Len(again) = Len(tried[share]) + 1
    BY <1>1, <2>4
  <2>7. InWindow(failures[share]) \in Nat /\ Len(tried[share]) \in Nat
        /\ InWindow(failures[share]) <= Len(tried[share])
    BY <1>1, <1>4, <2>4, Charges DEF Covered
  <2> HIDE DEF share, more, charge, again, tries, since, a
  <2>8. \A i \in 1 .. Len(more) : more[i] <= clock
    <3> SUFFICES ASSUME NEW i \in 1 .. Len(failures[share]) + 1 PROVE more[i] <= clock
      BY <2>5
    <3>1. CASE i = Len(failures[share]) + 1
      BY <1>3, <2>5, <3>1
    <3>2. CASE i # Len(failures[share]) + 1
      <4>1. i \in 1 .. Len(failures[share])
        BY <2>4, <3>2
      <4>. QED BY <1>1, <1>4, <2>5, <4>1
    <3>. QED BY <3>1, <3>2
  <2>9. charge \in [Keys -> Seq(Nat)] /\ charge[share] = more
        /\ \A k \in Keys \ {share} : charge[k] = failures[k]
    BY <1>1, <1>4, <2>2, <2>5
  <2>10. tries \in [Keys -> Seq(Nat)] /\ tries[share] = (IF since = clock THEN again ELSE tried[share])
         /\ \A k \in Keys \ {share} : tries[k] = tried[k]
    BY <1>1, <1>4, <2>3, <2>6
  <2>11. \A k \in Keys : Within(charge, tries, k)
    <3> SUFFICES ASSUME NEW k \in Keys PROVE Within(charge, tries, k)
      OBVIOUS
    <3>1. CASE k = share
      <4>1. InWindow(more) <= Len(tries[share])
        BY <2>5, <2>6, <2>7, <2>10
      <4>. QED BY <1>4, <2>8, <2>9, <3>1, <4>1 DEF Within
    <3>2. CASE k # share
      BY <1>1, <2>9, <2>10, <3>2 DEF Within, Covered
    <3>. QED BY <3>1, <3>2
  <2>. QED BY <1>1, <1>2, <2>1, <2>9, <2>10, <2>11, KeyByKey
<1>. QED BY <1>5, <1>6

LEMMA SignInNextInv == SignInInv /\ [SignInNext]_signInVars => SignInInv'
<1> SUFFICES ASSUME SignInInv, [SignInNext]_signInVars PROVE SignInInv'
  OBVIOUS
<1>1. CASE NextWindow
  BY <1>1, NextWindowKeeps
<1>2. ASSUME NEW r \in Knocks, NEW n \in LoginNames, NEW a \in Addresses, Login(r, n, a)
      PROVE  SignInInv'
  BY <1>2, LoginKeeps
<1>3. ASSUME NEW r \in Knocks, NEW t \in Tokens, NEW a \in Addresses, Presents(r, t, a)
      PROVE  SignInInv'
  BY <1>3, PresentsKeeps
<1>4. ASSUME NEW r \in Knocks, WrongPassword(r) \/ RightPassword(r) PROVE SignInInv'
  BY <1>4, PasswordKeeps
<1>5. ASSUME NEW r \in Knocks, Redeems(r) PROVE SignInInv'
  BY <1>5, RedeemsKeeps
<1>6. CASE UNCHANGED <<failures, knock, clock, tried>>
  BY <1>6 DEF SignInInv, SignInTypeOK, Covered, InWindow
<1>7. ASSUME NEW l \in Links, CreateShare(l) \/ \E how \in {"expired", "revoked"} : ShareEnds(l, how)
      PROVE  SignInInv'
  BY <1>6, <1>7 DEF CreateShare, ShareEnds
<1>8. CASE UNCHANGED signInVars
  BY <1>6, <1>8 DEF signInVars
<1>. QED BY <1>1, <1>2, <1>3, <1>4, <1>5, <1>7, <1>8 DEF SignInNext

(* However many logins run at once, no more passwords are checked in one   *)
(* window than their name and their address are allowed (auth_login),      *)
(* counted anew when one is right or the key is dropped for want of room:  *)
(* the charge is made under the lock, before the password is looked at.    *)
THEOREM ChecksAreFewHolds == SignInSpec => []ChecksAreFew
<1>1. SignInInv => ChecksAreFew
  BY KeyKinds DEF SignInInv, Covered, ChecksAreFew
<1>. QED BY <1>1, SignInInitInv, SignInNextInv, PTL DEF SignInSpec

(* The door of links (auth_share) closes on an address only for as many    *)
(* made-up tokens from it in this window, though each is charged after the *)
(* look and with the time of the look.                                     *)
THEOREM FriendsGetInHolds == SignInSpec => []FriendsGetIn
<1>1. SignInInv => FriendsGetIn
  <2> SUFFICES ASSUME SignInInv, NEW a \in Addresses, Full(ShareKey(a))
               PROVE  Len(tried[ShareKey(a)]) >= AddrLimit
    BY DEF FriendsGetIn
  <2> DEFINE k == ShareKey(a)
  <2>1. k \in ShareKeys /\ k \in Keys
    BY KeyKinds
  <2>2. Limit(k) = AddrLimit
    BY DEF Limit, ShareKey
  <2> HIDE DEF k
  <2>3. InWindow(failures[k]) >= AddrLimit /\ InWindow(failures[k]) \in Nat
    <3>1. Full(k)
      BY DEF k
    <3>. QED BY <2>1, <2>2, <3>1, Charges
  <2>4. InWindow(failures[k]) <= Len(tried[k]) /\ Len(tried[k]) \in Nat
    BY <2>1 DEF SignInInv, SignInTypeOK, Covered
  <2>5. AddrLimit \in Nat
    BY SignInAssumption DEF SignInAssumption
  <2>6. Len(tried[k]) >= AddrLimit
    BY <2>3, <2>4, <2>5
  <2>. QED BY <2>6 DEF k
<1>. QED BY <1>1, SignInInitInv, SignInNextInv, PTL DEF SignInSpec

(***************************************************************************)
(* Curves.  Both ways of recognising the current run come to its start:    *)
(* the least point of what was sent from which it never goes back.  A      *)
(* curve put together from reports holds the latest of that run, and what  *)
(* it lacks is older and was dropped for want of room.                     *)
(***************************************************************************)
Iterations == 1 .. MaxIteration

LEMMA IterationNumbers == Iterations \subseteq Nat /\ IsFiniteSet(Iterations)
<1>1. MaxIteration \in Nat
  BY CurvesAssumption DEF CurvesAssumption
<1>. QED BY <1>1, FS_Interval DEF Iterations

IsStart(xs, k) ==
  k \in 1 .. Len(xs) /\ NeverBack(xs, k) /\ \A j \in 1 .. k - 1 : ~NeverBack(xs, j)

(* The least of any natural numbers.                                       *)
LEMMA LeastNumber ==
  ASSUME NEW T \in SUBSET Nat, T # {}
  PROVE  \E k \in T : \A j \in T : k <= j
<1>1. PICK k \in T : \A j \in T : ~(<<j, k>> \in OpToRel(<, Nat))
  BY NatLessThanWellFounded, WFMin
<1>2. \A j \in T : ~(j < k)
  BY <1>1 DEF OpToRel
<1>. QED BY <1>2

LEMMA StartExists ==
  ASSUME NEW xs \in Seq(Iterations), xs # <<>>
  PROVE  \E k : IsStart(xs, k)
<1> DEFINE T == {k \in 1 .. Len(xs) : NeverBack(xs, k)}
<1>1. Len(xs) \in Nat \ {0}
  OBVIOUS
<1>2. NeverBack(xs, Len(xs))
  BY <1>1 DEF NeverBack
<1>3. T \in SUBSET Nat /\ T # {}
  BY <1>1, <1>2
<1>4. PICK k \in T : \A j \in T : k <= j
  BY <1>3, LeastNumber
<1>5. \A j \in 1 .. k - 1 : ~NeverBack(xs, j)
  BY <1>1, <1>4
<1>. QED BY <1>4, <1>5 DEF IsStart

(* There is one start, so LongestEnd begins there.                         *)
LEMMA EndFromStart ==
  ASSUME NEW xs \in Seq(Iterations), NEW k, IsStart(xs, k)
  PROVE  /\ LongestEnd(xs) = SubSeq(xs, k, Len(xs))
         /\ LongestEnd(xs) \in Seq(Iterations) /\ Len(LongestEnd(xs)) = Len(xs) - k + 1
         /\ \A i \in 1 .. Len(xs) - k + 1 : LongestEnd(xs)[i] = xs[k + i - 1]
         /\ IterationsIn(LongestEnd(xs)) = {xs[i] : i \in k .. Len(xs)}
         /\ NeverBack(LongestEnd(xs), 1)
<1>1. Len(xs) \in Nat /\ k \in 1 .. Len(xs) /\ \A i \in 1 .. Len(xs) : xs[i] \in Iterations
  BY DEF IsStart
<1>2. \A j : j \in 1 .. Len(xs) /\ NeverBack(xs, j) /\ (\A l \in 1 .. j - 1 : ~NeverBack(xs, l)) => j = k
  BY <1>1 DEF IsStart
<1>3. (CHOOSE j \in 1 .. Len(xs) : NeverBack(xs, j) /\ \A l \in 1 .. j - 1 : ~NeverBack(xs, l)) = k
  BY <1>2 DEF IsStart
<1>4. LongestEnd(xs) = SubSeq(xs, k, Len(xs))
  BY <1>3 DEF LongestEnd
<1>5. /\ LongestEnd(xs) \in Seq(Iterations) /\ Len(LongestEnd(xs)) = Len(xs) - k + 1
      /\ \A i \in 1 .. Len(xs) - k + 1 : LongestEnd(xs)[i] = xs[k + i - 1]
  BY <1>1, <1>4, SubSeqProperties
<1>6. IterationsIn(LongestEnd(xs)) = {xs[i] : i \in k .. Len(xs)}
  <2>1. ASSUME NEW i \in 1 .. Len(xs) - k + 1 PROVE \E j \in k .. Len(xs) : xs[j] = LongestEnd(xs)[i]
    <3>1. k + i - 1 \in k .. Len(xs)
      BY <1>1
    <3>. QED BY <1>5, <3>1
  <2>2. ASSUME NEW j \in k .. Len(xs) PROVE \E i \in 1 .. Len(xs) - k + 1 : xs[j] = LongestEnd(xs)[i]
    <3>1. j - k + 1 \in 1 .. Len(xs) - k + 1 /\ k + (j - k + 1) - 1 = j
      BY <1>1
    <3>. QED BY <1>5, <3>1
  <2> DEFINE e == LongestEnd(xs)
  <2>3. Len(e) = Len(xs) - k + 1
    BY <1>5
  <2> HIDE DEF e
  <2>4. IterationsIn(e) = {e[i] : i \in 1 .. Len(xs) - k + 1}
    BY <2>3 DEF IterationsIn
  <2>5. {e[i] : i \in 1 .. Len(xs) - k + 1} = {xs[i] : i \in k .. Len(xs)}
    <3>1. \A x : x \in {e[i] : i \in 1 .. Len(xs) - k + 1} => x \in {xs[i] : i \in k .. Len(xs)}
      BY <2>1 DEF e
    <3>2. \A x : x \in {xs[i] : i \in k .. Len(xs)} => x \in {e[i] : i \in 1 .. Len(xs) - k + 1}
      BY <2>2 DEF e
    <3>. QED BY <3>1, <3>2
  <2>. QED BY <2>4, <2>5 DEF e
<1>7. NeverBack(LongestEnd(xs), 1)
  <2> SUFFICES ASSUME NEW i \in 2 .. Len(xs) - k + 1
               PROVE  LongestEnd(xs)[i] >= LongestEnd(xs)[i - 1]
    BY <1>1, <1>5 DEF NeverBack
  <2>1. /\ i \in 1 .. Len(xs) - k + 1 /\ i - 1 \in 1 .. Len(xs) - k + 1
        /\ k + i - 1 \in k + 1 .. Len(xs) /\ k + (i - 1) - 1 = (k + i - 1) - 1
    BY <1>1
  <2>2. xs[k + i - 1] >= xs[(k + i - 1) - 1]
    BY <2>1 DEF IsStart, NeverBack
  <2>. QED BY <1>5, <2>1, <2>2
<1>. QED BY <1>4, <1>5, <1>6, <1>7

(* normalize_residuals cuts there.                                         *)
LEMMA CutAtStart ==
  ASSUME NEW xs \in Seq(Iterations), xs # <<>>
  PROVE  CurrentRun(xs) = LongestEnd(xs)
<1>1. PICK k : IsStart(xs, k)
  BY StartExists
<1>2. Len(xs) \in Nat /\ k \in 1 .. Len(xs) /\ \A i \in 1 .. Len(xs) : xs[i] \in Nat
  <2>1. Len(xs) \in Nat /\ \A i \in 1 .. Len(xs) : xs[i] \in Iterations
    OBVIOUS
  <2>2. k \in 1 .. Len(xs)
    BY <1>1 DEF IsStart
  <2>3. \A x \in Iterations : x \in Nat
    BY IterationNumbers
  <2>. QED BY <2>1, <2>2, <2>3
<1>3. \A j \in Descents(xs) : j \in 2 .. Len(xs) /\ xs[j] < xs[j - 1]
  BY DEF Descents
<1>4. \A j \in Descents(xs) : j <= k
  <2> SUFFICES ASSUME NEW j \in Descents(xs), j > k PROVE FALSE
    BY <1>2, <1>3
  <2>1. j \in k + 1 .. Len(xs) /\ j - 1 \in 1 .. Len(xs)
    BY <1>2, <1>3
  <2>2. xs[j] >= xs[j - 1]
    BY <1>1, <2>1 DEF IsStart, NeverBack
  <2>. QED BY <1>2, <1>3, <2>1, <2>2
<1>5. CASE k = 1
  <2>1. Descents(xs) = {}
    BY <1>3, <1>4, <1>5
  <2>. QED BY <1>1, <1>5, <2>1, EndFromStart, SubSeqFull DEF CurrentRun
<1>6. CASE k # 1
  <2>1. ~NeverBack(xs, k - 1) /\ k - 1 \in Nat
    BY <1>1, <1>2, <1>6 DEF IsStart
  <2>2. PICK i \in k .. Len(xs) : ~(xs[i] >= xs[i - 1])
    BY <1>2, <2>1 DEF NeverBack
  <2>3. i = k
    BY <1>1, <1>2, <2>2 DEF IsStart, NeverBack
  <2>4. k \in Descents(xs)
    BY <1>2, <1>6, <2>2, <2>3 DEF Descents
  <2>5. (CHOOSE j \in Descents(xs) : \A l \in Descents(xs) : j >= l) = k
    <3>1. \A j \in Descents(xs) : (\A l \in Descents(xs) : j >= l) => j = k
      BY <1>2, <1>3, <1>4, <2>4
    <3>2. \A l \in Descents(xs) : k >= l
      BY <1>2, <1>3, <1>4
    <3>. QED BY <2>4, <3>1, <3>2
  <2>. QED BY <1>1, <2>4, <2>5, EndFromStart DEF CurrentRun
<1>. QED BY <1>5, <1>6

(* Where the run starts when one more report is sent.                      *)
LEMMA StartOfAppend ==
  ASSUME NEW xs \in Seq(Iterations), NEW it \in Iterations
  PROVE  /\ xs = <<>> => IsStart(Append(xs, it), 1)
         /\ xs # <<>> /\ it < Latest(xs) => IsStart(Append(xs, it), Len(xs) + 1)
         /\ \A k : IsStart(xs, k) /\ it >= Latest(xs) => IsStart(Append(xs, it), k)
<1> DEFINE ys == Append(xs, it)
<1>1. /\ Len(xs) \in Nat /\ Len(ys) = Len(xs) + 1 /\ ys[Len(xs) + 1] = it
      /\ \A i \in 1 .. Len(xs) : ys[i] = xs[i] /\ xs[i] \in Nat
      /\ it \in Nat /\ (xs # <<>> => Len(xs) >= 1)
  <2>1. \A i \in 1 .. Len(xs) : xs[i] \in Iterations
    OBVIOUS
  <2>2. /\ Len(xs) \in Nat /\ Len(ys) = Len(xs) + 1 /\ ys[Len(xs) + 1] = it
        /\ \A i \in 1 .. Len(xs) : ys[i] = xs[i]
    OBVIOUS
  <2>3. xs # <<>> => Len(xs) >= 1
    OBVIOUS
  <2>. QED BY <2>1, <2>2, <2>3, IterationNumbers
<1> HIDE DEF ys
<1>2. NeverBack(ys, Len(xs) + 1)
  BY <1>1 DEF NeverBack
<1>3. ASSUME xs = <<>> PROVE IsStart(ys, 1)
  <2>1. Len(xs) = 0
    BY <1>3
  <2>. QED BY <1>1, <1>2, <2>1 DEF IsStart
<1>4. ASSUME xs # <<>>, it < Latest(xs) PROVE IsStart(ys, Len(xs) + 1)
  <2> SUFFICES ASSUME NEW j \in 1 .. Len(xs), NeverBack(ys, j) PROVE FALSE
    BY <1>1, <1>2 DEF IsStart
  <2>1. Len(xs) + 1 \in j + 1 .. Len(ys) /\ Len(xs) \in 1 .. Len(xs) /\ (Len(xs) + 1) - 1 = Len(xs)
    BY <1>1
  <2>2. ys[Len(xs) + 1] >= ys[Len(xs)]
    BY <2>1 DEF NeverBack
  <2>. QED BY <1>1, <1>4, <2>1, <2>2 DEF Latest
<1>5. ASSUME NEW k, IsStart(xs, k), it >= Latest(xs) PROVE IsStart(ys, k)
  <2>1. k \in 1 .. Len(xs)
    BY <1>5 DEF IsStart
  <2>2. \A j \in 1 .. Len(xs) : NeverBack(ys, j) <=> NeverBack(xs, j)
    <3> SUFFICES ASSUME NEW j \in 1 .. Len(xs) PROVE NeverBack(ys, j) <=> NeverBack(xs, j)
      OBVIOUS
    <3>1. \A i \in j + 1 .. Len(xs) : ys[i] = xs[i] /\ ys[i - 1] = xs[i - 1]
      BY <1>1
    <3>2. ys[Len(xs) + 1] >= ys[Len(xs)] /\ (Len(xs) + 1) - 1 = Len(xs)
      BY <1>1, <1>5, <2>1 DEF Latest
    <3>3. \A i \in j + 1 .. Len(xs) + 1 : i \in j + 1 .. Len(xs) \/ i = Len(xs) + 1
      BY <1>1
    <3>4. \A i \in j + 1 .. Len(xs) : i \in j + 1 .. Len(xs) + 1
      BY <1>1
    <3>. QED BY <1>1, <3>1, <3>2, <3>3, <3>4 DEF NeverBack
  <2>. QED BY <1>1, <1>5, <2>1, <2>2 DEF IsStart
<1>. QED BY <1>3, <1>4, <1>5 DEF ys

-----------------------------------------------------------------------------
(* A curve of reports xs of which S is all that was reported of the run.   *)
Above(S, it) == {l \in S : l > it}

PutTogether(xs, S) ==
  /\ xs # <<>> /\ Len(xs) <= MaxSamples
  /\ \A i \in 2 .. Len(xs) : xs[i - 1] < xs[i]
  /\ \A i \in 1 .. Len(xs) : xs[i] \in S /\ Cardinality(Above(S, xs[i])) = Len(xs) - i
  /\ \A it \in S : it \in IterationsIn(xs) \/ (it < xs[1] /\ Len(xs) = MaxSamples)

LEMMA AboveFinite ==
  ASSUME NEW S \in SUBSET Iterations, NEW it
  PROVE  /\ IsFiniteSet(S) /\ IsFiniteSet(Above(S, it))
         /\ Cardinality(Above(S, it)) \in Nat
<1>1. Above(S, it) \subseteq S
  BY DEF Above
<1>. QED BY <1>1, IterationNumbers, FS_Subset, FS_CardinalityType

(* Nothing was reported beyond its latest point.                           *)
LEMMA LatestIsMost ==
  ASSUME NEW S \in SUBSET Iterations, NEW xs \in Seq(Iterations), PutTogether(xs, S)
  PROVE  Latest(xs) \in S /\ \A it \in S : it <= Latest(xs)
<1>1. Len(xs) \in 1 .. Len(xs) /\ Len(xs) \in Nat
  BY DEF PutTogether
<1>2. Latest(xs) \in S /\ Cardinality(Above(S, Latest(xs))) = 0
  BY <1>1 DEF PutTogether, Latest
<1>3. Above(S, Latest(xs)) = {}
  BY <1>2, AboveFinite, FS_EmptySet
<1>4. \A l \in S : l \in Nat
  BY IterationNumbers
<1>5. \A l \in S : ~(l > Latest(xs))
  BY <1>3 DEF Above
<1>. QED BY <1>2, <1>4, <1>5

(* It holds the latest MaxSamples of what was reported.                    *)
LEMMA HoldsLatest ==
  ASSUME NEW S \in SUBSET Iterations, NEW xs \in Seq(Iterations), PutTogether(xs, S)
  PROVE  /\ IterationsIn(xs) = {it \in S : Cardinality({l \in S : l > it}) < MaxSamples}
         /\ NeverBack(xs, 1)
<1>1. Len(xs) \in Nat \ {0} /\ Len(xs) <= MaxSamples /\ MaxSamples \in Nat
  BY CurvesAssumption DEF PutTogether, CurvesAssumption
<1>2. \A it : {l \in S : l > it} = Above(S, it)
  BY DEF Above
<1>3. ASSUME NEW i \in 1 .. Len(xs) PROVE xs[i] \in S /\ Cardinality(Above(S, xs[i])) < MaxSamples
  <2>1. xs[i] \in S /\ Cardinality(Above(S, xs[i])) = Len(xs) - i
    BY DEF PutTogether
  <2>. QED BY <1>1, <2>1
<1>4. ASSUME NEW it \in S, Cardinality(Above(S, it)) < MaxSamples PROVE it \in IterationsIn(xs)
  <2> SUFFICES ASSUME it \notin IterationsIn(xs) PROVE FALSE
    OBVIOUS
  <2>1. it < xs[1] /\ Len(xs) = MaxSamples
    BY DEF PutTogether
  <2>2. xs[1] \in S /\ Cardinality(Above(S, xs[1])) = Len(xs) - 1
    BY <1>1 DEF PutTogether
  <2> DEFINE T == Above(S, xs[1]) \cup {xs[1]}
  <2>3. xs[1] \notin Above(S, xs[1]) /\ T \subseteq Above(S, it)
    <3>1. \A l \in S : l \in Nat
      BY IterationNumbers
    <3>. QED BY <2>1, <2>2, <3>1 DEF Above
  <2>4. Cardinality(T) = Cardinality(Above(S, xs[1])) + 1
    BY <2>3, AboveFinite, FS_AddElement
  <2>5. Cardinality(T) <= Cardinality(Above(S, it))
    <3> HIDE DEF T
    <3>. QED BY <2>3, AboveFinite, FS_Subset
  <2>6. Cardinality(Above(S, it)) \in Nat
    BY AboveFinite
  <2>. QED BY <1>1, <1>4, <2>1, <2>2, <2>4, <2>5, <2>6
<1>5. NeverBack(xs, 1)
  <2> SUFFICES ASSUME NEW i \in 2 .. Len(xs) PROVE xs[i] >= xs[i - 1]
    BY <1>1 DEF NeverBack
  <2>1. xs[i - 1] < xs[i] /\ i \in 1 .. Len(xs) /\ i - 1 \in 1 .. Len(xs)
    BY <1>1 DEF PutTogether
  <2>2. xs[i] \in Nat /\ xs[i - 1] \in Nat
    BY <1>3, <2>1, IterationNumbers
  <2>. QED BY <2>1, <2>2
<1>. QED BY <1>2, <1>3, <1>4, <1>5 DEF IterationsIn

(* A report of a later iteration is added, and the oldest point then goes  *)
(* for want of room.                                                       *)
LEMMA LaterReport ==
  ASSUME NEW S \in SUBSET Iterations, NEW xs \in Seq(Iterations), PutTogether(xs, S),
         NEW it \in Iterations, it > Latest(xs)
  PROVE  /\ PutTogether(Added(xs, it), S \cup {it})
         /\ Added(xs, it) \in Seq(Iterations) /\ Latest(Added(xs, it)) = it
<1> DEFINE R   == S \cup {it}
           all == Append(xs, it)
           n   == Len(xs)
<1>1. n \in Nat \ {0} /\ n <= MaxSamples /\ MaxSamples \in Nat /\ xs # <<>>
  BY CurvesAssumption DEF PutTogether, CurvesAssumption
<1>2. \A l \in S : l \in Nat /\ l < it
  <2>1. \A l \in S : l \in Nat /\ l <= Latest(xs)
    BY LatestIsMost, IterationNumbers
  <2>2. Latest(xs) \in Nat /\ it \in Nat
    BY <2>1, LatestIsMost, IterationNumbers
  <2>. QED BY <2>1, <2>2
<1>3. it \in Nat /\ it \notin S
  BY <1>2, IterationNumbers
<1>4. \A i \in 1 .. n : xs[i] \in S /\ xs[i] \in Nat /\ Cardinality(Above(S, xs[i])) = n - i
  BY <1>2 DEF PutTogether
<1>5. \A i \in 1 .. n : Cardinality(Above(R, xs[i])) = n - i + 1
  <2> SUFFICES ASSUME NEW i \in 1 .. n PROVE Cardinality(Above(R, xs[i])) = n - i + 1
    OBVIOUS
  <2>1. xs[i] \in Nat /\ it > xs[i] /\ Cardinality(Above(S, xs[i])) = n - i
    BY <1>2, <1>4
  <2>2. Above(R, xs[i]) = Above(S, xs[i]) \cup {it} /\ it \notin Above(S, xs[i])
    BY <1>3, <2>1 DEF Above
  <2>3. IsFiniteSet(Above(S, xs[i]))
    BY AboveFinite
  <2>4. Cardinality(Above(S, xs[i]) \cup {it}) = Cardinality(Above(S, xs[i])) + 1
    BY <2>2, <2>3, FS_AddElement
  <2>. QED BY <2>1, <2>2, <2>4
<1>6. Cardinality(Above(R, it)) = 0
  <2>1. \A l \in R : ~(l > it)
    <3> SUFFICES ASSUME NEW l \in R PROVE ~(l > it)
      OBVIOUS
    <3>1. CASE l \in S
      BY <1>2, <1>3, <3>1
    <3>2. CASE l = it
      BY <1>3, <3>2
    <3>. QED BY <3>1, <3>2
  <2> HIDE DEF R
  <2>2. Above(R, it) = {}
    BY <2>1 DEF Above
  <2>. QED BY <2>2, FS_EmptySet
<1>7. Added(xs, it) = IF Len(all) > MaxSamples THEN Tail(all) ELSE all
  <2>1. Latest(xs) \in Nat
    BY <1>2, LatestIsMost
  <2>2. it # Latest(xs) /\ ~(it < Latest(xs))
    BY <1>3, <2>1
  <2>. QED BY <1>1, <2>2 DEF Added
<1>8. /\ all \in Seq(Iterations) /\ Len(all) = n + 1 /\ all[n + 1] = it /\ all # <<>>
      /\ \A i \in 1 .. n : all[i] = xs[i]
  OBVIOUS
<1>9. \A i \in 2 .. n + 1 : all[i - 1] < all[i]
  <2> SUFFICES ASSUME NEW i \in 2 .. n + 1 PROVE all[i - 1] < all[i]
    OBVIOUS
  <2>1. CASE i = n + 1
    BY <1>1, <1>2, <1>4, <1>8, <2>1
  <2>2. CASE i # n + 1
    <3>1. i \in 2 .. n /\ i \in 1 .. n /\ i - 1 \in 1 .. n
      BY <1>1, <2>2
    <3>. QED BY <1>8, <3>1 DEF PutTogether
  <2>. QED BY <2>1, <2>2
<1>10. \A i \in 1 .. n + 1 : all[i] \in R /\ Cardinality(Above(R, all[i])) = n + 1 - i
  <2> SUFFICES ASSUME NEW i \in 1 .. n + 1
               PROVE  all[i] \in R /\ Cardinality(Above(R, all[i])) = n + 1 - i
    OBVIOUS
  <2>1. CASE i = n + 1
    BY <1>1, <1>6, <1>8, <2>1
  <2>2. CASE i # n + 1
    <3>1. i \in 1 .. n
      BY <1>1, <2>2
    <3>2. all[i] = xs[i] /\ xs[i] \in R
      BY <1>4, <1>8, <3>1
    <3>3. Cardinality(Above(R, xs[i])) = n - i + 1
      BY <1>5, <3>1
    <3>4. n - i + 1 = n + 1 - i
      BY <1>1, <3>1
    <3>. QED BY <3>2, <3>3, <3>4
  <2>. QED BY <2>1, <2>2
<1>11. \A l \in R : l \in IterationsIn(all) \/ (l < xs[1] /\ n = MaxSamples)
  <2> SUFFICES ASSUME NEW l \in R PROVE l \in IterationsIn(all) \/ (l < xs[1] /\ n = MaxSamples)
    OBVIOUS
  <2>1. CASE l = it
    BY <1>1, <1>8, <2>1 DEF IterationsIn
  <2>2. CASE l \in IterationsIn(xs)
    <3>1. PICK i \in 1 .. n : l = xs[i]
      BY <2>2 DEF IterationsIn
    <3>2. i \in 1 .. Len(all) /\ all[i] = l
      BY <1>1, <1>8, <3>1
    <3>. QED BY <3>2 DEF IterationsIn
  <2>3. CASE l # it /\ l \notin IterationsIn(xs)
    BY <2>3 DEF PutTogether
  <2>. QED BY <2>1, <2>2, <2>3
<1>12. CASE n < MaxSamples
  <2>1. Added(xs, it) = all
    BY <1>1, <1>7, <1>8, <1>12
  <2> HIDE DEF all, R
  <2>2. PutTogether(all, R)
    BY <1>1, <1>8, <1>9, <1>10, <1>11, <1>12 DEF PutTogether
  <2>. QED BY <1>8, <2>1, <2>2 DEF Latest, R
<1>13. CASE n = MaxSamples
  <2>1. Added(xs, it) = Tail(all)
    BY <1>1, <1>7, <1>8, <1>13
  <2> DEFINE ys == Tail(all)
  <2> HIDE DEF all, R
  <2>2. ys \in Seq(Iterations) /\ Len(ys) = n /\ \A i \in 1 .. n : ys[i] = all[i + 1]
    BY <1>1, <1>8, HeadTailProperties
  <2> HIDE DEF ys
  <2>3. \A i \in 2 .. n : ys[i - 1] < ys[i]
    <3> SUFFICES ASSUME NEW i \in 2 .. n PROVE ys[i - 1] < ys[i]
      OBVIOUS
    <3>1. /\ i \in 1 .. n /\ i - 1 \in 1 .. n /\ i + 1 \in 2 .. n + 1
          /\ (i - 1) + 1 = i /\ (i + 1) - 1 = i
      BY <1>1
    <3>. QED BY <1>9, <2>2, <3>1
  <2>4. \A i \in 1 .. n : ys[i] \in R /\ Cardinality(Above(R, ys[i])) = n - i
    <3> SUFFICES ASSUME NEW i \in 1 .. n PROVE ys[i] \in R /\ Cardinality(Above(R, ys[i])) = n - i
      OBVIOUS
    <3>1. i + 1 \in 1 .. n + 1 /\ n + 1 - (i + 1) = n - i
      BY <1>1
    <3>. QED BY <1>10, <2>2, <3>1
  <2>5. \A l \in R : l \in IterationsIn(ys) \/ l < ys[1]
    <3> SUFFICES ASSUME NEW l \in R PROVE l \in IterationsIn(ys) \/ l < ys[1]
      OBVIOUS
    <3>1. ys[1] = all[2] /\ all[1] < all[2] /\ all[1] = xs[1]
      <4>1. 1 \in 1 .. n /\ 2 \in 2 .. n + 1 /\ 2 - 1 = 1 /\ 1 + 1 = 2
        BY <1>1
      <4>. QED BY <1>8, <1>9, <2>2, <4>1
    <3>2. l \in Nat /\ xs[1] \in Nat /\ all[2] \in Nat
      <4>1. 1 \in 1 .. n /\ 2 \in 1 .. n + 1
        BY <1>1
      <4>2. all[2] \in R
        BY <1>10, <4>1
      <4>. QED BY <1>2, <1>3, <1>4, <4>1, <4>2 DEF R
    <3>3. CASE l \in IterationsIn(all)
      <4>1. PICK i \in 1 .. n + 1 : l = all[i]
        BY <1>8, <3>3 DEF IterationsIn
      <4>2. CASE i = 1
        BY <3>1, <4>1, <4>2
      <4>3. CASE i # 1
        <5>1. i - 1 \in 1 .. n /\ (i - 1) + 1 = i
          BY <1>1, <4>3
        <5>2. ys[i - 1] = l
          BY <2>2, <4>1, <5>1
        <5>. QED BY <2>2, <5>1, <5>2 DEF IterationsIn
      <4>. QED BY <4>2, <4>3
    <3>4. CASE l < xs[1]
      BY <3>1, <3>2, <3>4
    <3>. QED BY <1>11, <3>3, <3>4
  <2>6. PutTogether(ys, R)
    BY <1>1, <1>13, <2>2, <2>3, <2>4, <2>5 DEF PutTogether
  <2>7. Latest(ys) = it
    BY <1>1, <1>8, <2>2 DEF Latest
  <2>. QED BY <2>1, <2>2, <2>6, <2>7 DEF ys, R
<1>. QED BY <1>1, <1>12, <1>13

(* The curve starts with its first report, and starts over with one that   *)
(* goes back.                                                              *)
LEMMA OnlyReport ==
  ASSUME NEW it \in Iterations
  PROVE  /\ PutTogether(<<it>>, {it}) /\ Latest(<<it>>) = it /\ <<it>> \in Seq(Iterations)
         /\ Added(<<>>, it) = <<it>>
         /\ \A xs : xs # <<>> /\ it < Latest(xs) /\ it # Latest(xs) => Added(xs, it) = <<it>>
<1>1. it \in Nat /\ MaxSamples \in Nat \ {0}
  BY IterationNumbers, CurvesAssumption DEF CurvesAssumption
<1>2. Len(<<it>>) = 1 /\ <<it>>[1] = it /\ <<it>> # <<>> /\ <<it>> \in Seq(Iterations)
  OBVIOUS
<1>3. Above({it}, it) = {}
  BY <1>1 DEF Above
<1>4. Cardinality(Above({it}, it)) = 0
  BY <1>3, FS_EmptySet
<1>5. it \in IterationsIn(<<it>>)
  BY <1>2 DEF IterationsIn
<1>6. PutTogether(<<it>>, {it})
  BY <1>1, <1>2, <1>4, <1>5 DEF PutTogether
<1>7. Added(<<>>, it) = <<it>>
  <2>1. Append(<<>>, it) = <<it>>
    OBVIOUS
  <2>2. ~(Len(<<it>>) > MaxSamples)
    BY <1>1, <1>2
  <2>. QED BY <2>1, <2>2 DEF Added
<1>8. \A xs : xs # <<>> /\ it < Latest(xs) /\ it # Latest(xs) => Added(xs, it) = <<it>>
  BY DEF Added
<1>. QED BY <1>2, <1>6, <1>7, <1>8 DEF Latest

(* What was reported of the run that is current.                           *)
Reported(s) == IterationsIn(LongestEnd(s))

LEMMA ReportedIterations ==
  ASSUME NEW s \in Seq(Iterations), s # <<>>
  PROVE  Reported(s) \in SUBSET Iterations
<1>1. PICK k : IsStart(s, k)
  BY StartExists
<1>2. Reported(s) = {s[i] : i \in k .. Len(s)}
  BY <1>1, EndFromStart DEF Reported
<1>3. \A i \in k .. Len(s) : i \in 1 .. Len(s)
  BY <1>1 DEF IsStart
<1>4. \A i \in 1 .. Len(s) : s[i] \in Iterations
  OBVIOUS
<1>. QED BY <1>2, <1>3, <1>4

LEMMA ReportedByAppend ==
  ASSUME NEW s \in Seq(Iterations), NEW it \in Iterations
  PROVE  /\ s = <<>> \/ it < Latest(s) => Reported(Append(s, it)) = {it}
         /\ s # <<>> /\ it >= Latest(s) => Reported(Append(s, it)) = Reported(s) \cup {it}
<1> DEFINE t == Append(s, it)
<1>1. /\ t \in Seq(Iterations) /\ Len(t) = Len(s) + 1 /\ t[Len(s) + 1] = it /\ Len(s) \in Nat
      /\ \A i \in 1 .. Len(s) : t[i] = s[i]
      /\ (s = <<>> => Len(s) = 0)
  OBVIOUS
<1>2. ASSUME NEW k, IsStart(t, k) PROVE Reported(t) = {t[i] : i \in k .. Len(s) + 1}
  BY <1>1, <1>2, EndFromStart DEF Reported
<1>3. ASSUME s = <<>> \/ it < Latest(s) PROVE Reported(t) = {it}
  <2>1. IsStart(t, Len(s) + 1)
    BY <1>1, <1>3, StartOfAppend
  <2> HIDE DEF t
  <2>2. Reported(t) = {t[i] : i \in Len(s) + 1 .. Len(s) + 1}
    BY <1>2, <2>1
  <2>. QED BY <1>1, <2>2
<1>4. ASSUME s # <<>>, it >= Latest(s) PROVE Reported(t) = Reported(s) \cup {it}
  <2>1. PICK k : IsStart(s, k)
    BY <1>4, StartExists
  <2>2. IsStart(t, k)
    BY <1>4, <2>1, StartOfAppend
  <2>3. Reported(s) = {s[i] : i \in k .. Len(s)}
    BY <2>1, EndFromStart DEF Reported
  <2> HIDE DEF t
  <2>4. Reported(t) = {t[i] : i \in k .. Len(s) + 1}
    BY <1>2, <2>2
  <2>5. k \in 1 .. Len(s)
    BY <2>1 DEF IsStart
  <2>6. /\ \A i \in k .. Len(s) : i \in k .. Len(s) + 1 /\ t[i] = s[i]
        /\ Len(s) + 1 \in k .. Len(s) + 1
        /\ \A i \in k .. Len(s) + 1 : i \in k .. Len(s) \/ i = Len(s) + 1
    BY <1>1, <2>5
  <2>7. \A x \in Reported(t) : x \in Reported(s) \cup {it}
    <3> SUFFICES ASSUME NEW i \in k .. Len(s) + 1 PROVE t[i] \in Reported(s) \cup {it}
      BY <2>4
    <3>1. CASE i \in k .. Len(s)
      BY <2>3, <2>6, <3>1
    <3>2. CASE i = Len(s) + 1
      BY <1>1, <3>2
    <3>. QED BY <2>6, <3>1, <3>2
  <2>8. \A i \in k .. Len(s) : s[i] \in Reported(t)
    <3> SUFFICES ASSUME NEW i \in k .. Len(s) PROVE s[i] \in Reported(t)
      OBVIOUS
    <3>1. i \in k .. Len(s) + 1 /\ t[i] = s[i]
      BY <2>6
    <3>. QED BY <2>4, <3>1
  <2>9. it \in Reported(t)
    BY <1>1, <2>4, <2>6
  <2>. QED BY <2>3, <2>7, <2>8, <2>9
<1>. QED BY <1>3, <1>4 DEF t

(* A curve xs put together from the reports s.                             *)
FromReports(xs, s) ==
  s # <<>> /\ Latest(xs) = Latest(s) /\ PutTogether(xs, Reported(s))

LEMMA FirstReport ==
  ASSUME NEW it \in Iterations
  PROVE  FromReports(Added(<<>>, it), Append(<<>>, it)) /\ Added(<<>>, it) \in Seq(Iterations)
<1>1. Append(<<>>, it) = <<it>> /\ <<>> \in Seq(Iterations) /\ <<it>> # <<>>
  OBVIOUS
<1>2. Reported(Append(<<>>, it)) = {it}
  BY <1>1, ReportedByAppend
<1>3. Latest(<<it>>) = it /\ PutTogether(<<it>>, {it}) /\ Added(<<>>, it) = <<it>> /\ <<it>> \in Seq(Iterations)
  BY OnlyReport
<1>. QED BY <1>1, <1>2, <1>3 DEF FromReports

LEMMA NextReport ==
  ASSUME NEW s \in Seq(Iterations), NEW xs \in Seq(Iterations), FromReports(xs, s),
         NEW it \in Iterations
  PROVE  FromReports(Added(xs, it), Append(s, it)) /\ Added(xs, it) \in Seq(Iterations)
<1> DEFINE t == Append(s, it)
<1>1. t # <<>> /\ Latest(t) = it
  <2>1. Len(t) = Len(s) + 1 /\ t[Len(s) + 1] = it /\ t # <<>>
    OBVIOUS
  <2>. QED BY <2>1 DEF Latest
<1>2. /\ s # <<>> /\ Latest(xs) = Latest(s) /\ PutTogether(xs, Reported(s))
      /\ Reported(s) \in SUBSET Iterations /\ xs # <<>>
  BY ReportedIterations DEF FromReports, PutTogether
<1>3. Latest(xs) \in Reported(s)
  BY <1>2, LatestIsMost
<1>4. Latest(xs) \in Nat /\ it \in Nat
  BY <1>2, <1>3, IterationNumbers
<1>5. CASE it > Latest(xs)
  <2>1. Reported(t) = Reported(s) \cup {it}
    BY <1>2, <1>4, <1>5, ReportedByAppend
  <2>2. /\ PutTogether(Added(xs, it), Reported(s) \cup {it})
        /\ Added(xs, it) \in Seq(Iterations) /\ Latest(Added(xs, it)) = it
    BY <1>2, <1>5, LaterReport
  <2> HIDE DEF t
  <2>3. FromReports(Added(xs, it), t)
    BY <1>1, <2>1, <2>2 DEF FromReports
  <2>. QED BY <2>2, <2>3 DEF t
<1>6. CASE it = Latest(xs)
  <2>1. Reported(t) = Reported(s) \cup {it}
    BY <1>2, <1>4, <1>6, ReportedByAppend
  <2>2. Reported(t) = Reported(s)
    BY <1>3, <1>6, <2>1
  <2>3. Added(xs, it) = xs
    BY <1>2, <1>6 DEF Added
  <2> HIDE DEF t
  <2>. QED BY <1>1, <1>2, <1>6, <2>2, <2>3 DEF FromReports, t
<1>7. CASE it < Latest(xs)
  <2>1. Reported(t) = {it}
    BY <1>2, <1>7, ReportedByAppend
  <2>2. Added(xs, it) = <<it>>
    BY <1>2, <1>4, <1>7 DEF Added
  <2> HIDE DEF t
  <2>. QED BY <1>1, <2>1, <2>2, OnlyReport DEF FromReports, t
<1>. QED BY <1>4, <1>5, <1>6, <1>7

(* A direction without a curve has sent nothing, or found no room; one     *)
(* with a curve has that of the current run of what it sent.               *)
Rows == {NoCurve} \cup [source : {"trace", "reports"}, iterations : Seq(Iterations)]

CurvesTypeOK ==
  /\ log \in [Directions -> Seq(Iterations)]
  /\ sent \in [Directions -> Seq(Iterations)]
  /\ curve \in [Directions -> Rows]

IsCurveOf(row, s) ==
  \/ row.source = "trace" /\ s # <<>> /\ row.iterations = LongestEnd(s)
  \/ row.source = "reports" /\ FromReports(row.iterations, s)

CurvesInv ==
  /\ CurvesTypeOK
  /\ \A d \in Directions :
       IF curve[d] = NoCurve THEN sent[d] = <<>> \/ ~HasRoom(d) ELSE IsCurveOf(curve[d], sent[d])

(* There is never more room than before.                                   *)
LEMMA RoomOnlyShrinks ==
  ASSUME \A d \in Directions : curve[d] # NoCurve => curve'[d] # NoCurve,
         NEW d \in Directions, curve'[d] = NoCurve, ~HasRoom(d)
  PROVE  ~HasRoom(d)'
<1> DEFINE S == {e \in Directions : curve[e] # NoCurve}
           T == {e \in Directions : curve'[e] # NoCurve}
<1>1. IsFiniteSet(Directions) /\ MaxDirections \in Nat
  BY CurvesAssumption DEF CurvesAssumption
<1>2. S \subseteq T /\ T \subseteq Directions
  OBVIOUS
<1>3. ~(Cardinality(S) < MaxDirections)
  BY DEF HasRoom
<1>4. HasRoom(d)' <=> Cardinality(T) < MaxDirections
  BY DEF HasRoom
<1> HIDE DEF S, T
<1>5. IsFiniteSet(T) /\ Cardinality(T) \in Nat /\ Cardinality(S) \in Nat /\ Cardinality(S) <= Cardinality(T)
  <2>1. IsFiniteSet(T)
    BY <1>1, <1>2, FS_Subset
  <2>. QED BY <1>2, <2>1, FS_Subset, FS_CardinalityType
<1>. QED BY <1>1, <1>3, <1>4, <1>5

(* A post that puts the row of d.                                          *)
LEMMA PutKeeps ==
  ASSUME CurvesInv, NEW d \in Directions, log' = log,
         NEW source \in {"trace", "reports"}, NEW xs \in Seq(Iterations), NEW s \in Seq(Iterations),
         HasRoom(d), Puts(d, source, xs), sent' = [sent EXCEPT ![d] = s],
         IsCurveOf([source |-> source, iterations |-> xs], s)
  PROVE  CurvesInv'
<1> DEFINE row == [source |-> source, iterations |-> xs]
<1>1. curve' = [curve EXCEPT ![d] = row]
  BY DEF Puts
<1>2. row \in Rows /\ row # NoCurve
  BY DEF Rows, NoCurve
<1>3. IsCurveOf(row, s)
  OBVIOUS
<1> HIDE DEF row
<1>4. CurvesTypeOK'
  BY <1>1, <1>2 DEF CurvesInv, CurvesTypeOK
<1>5. /\ curve'[d] = row /\ sent'[d] = s
      /\ \A e \in Directions : e # d => curve'[e] = curve[e] /\ sent'[e] = sent[e]
  BY <1>1 DEF CurvesInv, CurvesTypeOK
<1>6. \A e \in Directions : curve[e] # NoCurve => curve'[e] # NoCurve
  BY <1>2, <1>5
<1>7. ASSUME NEW e \in Directions
      PROVE  IF curve'[e] = NoCurve THEN sent'[e] = <<>> \/ ~HasRoom(e)' ELSE IsCurveOf(curve'[e], sent'[e])
  <2>1. CASE e = d
    BY <1>2, <1>3, <1>5, <2>1
  <2>2. CASE e # d
    <3>1. curve'[e] = curve[e] /\ sent'[e] = sent[e]
      BY <1>5, <2>2
    <3>2. IF curve[e] = NoCurve THEN sent[e] = <<>> \/ ~HasRoom(e) ELSE IsCurveOf(curve[e], sent[e])
      BY DEF CurvesInv
    <3>3. curve'[e] = NoCurve /\ ~HasRoom(e) => ~HasRoom(e)'
      BY <1>6, RoomOnlyShrinks
    <3>. QED BY <3>1, <3>2, <3>3
  <2>. QED BY <2>1, <2>2
<1>. QED BY <1>4, <1>7 DEF CurvesInv

LEMMA PostsSeriesKeeps ==
  ASSUME CurvesInv, NEW d \in Directions, PostsSeries(d)
  PROVE  CurvesInv'
<1>1. log[d] \in Seq(Iterations) /\ log[d] # <<>> /\ log' = log /\ sent' = [sent EXCEPT ![d] = log[d]]
  BY DEF PostsSeries, CurvesInv, CurvesTypeOK
<1>2. CASE HasRoom(d)
  <2>1. PICK k : IsStart(log[d], k)
    BY <1>1, StartExists
  <2>2. LongestEnd(log[d]) \in Seq(Iterations)
    BY <1>1, <2>1, EndFromStart
  <2>3. Puts(d, "trace", LongestEnd(log[d]))
    BY <1>1, CutAtStart DEF PostsSeries
  <2>4. IsCurveOf([source |-> "trace", iterations |-> LongestEnd(log[d])], log[d])
    BY <1>1 DEF IsCurveOf
  <2>. QED BY <1>1, <1>2, <2>2, <2>3, <2>4, PutKeeps
<1>3. CASE ~HasRoom(d)
  <2>1. curve' = curve /\ curve[d] = NoCurve
    BY <1>3 DEF PostsSeries, Puts, HasRoom
  <2>2. \A e \in Directions : HasRoom(e)' <=> HasRoom(e)
    BY <2>1 DEF HasRoom
  <2>3. CurvesTypeOK'
    BY <1>1, <2>1 DEF CurvesInv, CurvesTypeOK
  <2>4. \A e \in Directions : e # d => sent'[e] = sent[e]
    BY <1>1 DEF CurvesInv, CurvesTypeOK
  <2>. QED BY <1>3, <2>1, <2>2, <2>3, <2>4 DEF CurvesInv
<1>. QED BY <1>2, <1>3

LEMMA ReportsSolveKeeps ==
  ASSUME CurvesInv, NEW d \in Directions, ReportsSolve(d)
  PROVE  CurvesInv'
<1>1. log[d] \in Seq(Iterations) /\ log[d] # <<>> /\ log' = log /\ sent[d] \in Seq(Iterations)
  BY DEF ReportsSolve, CurvesInv, CurvesTypeOK
<1> DEFINE it == Latest(log[d])
<1>2. it \in Iterations
  <2>1. Len(log[d]) \in 1 .. Len(log[d])
    BY <1>1
  <2>. QED BY <1>1, <2>1 DEF Latest
<1>3. CASE HasSeries(d) \/ ~HasRoom(d)
  <2>1. UNCHANGED curveVars
    BY <1>3 DEF ReportsSolve, Puts, curveVars
  <2>. QED BY <2>1 DEF CurvesInv, CurvesTypeOK, HasRoom, curveVars
<1>4. CASE ~HasSeries(d) /\ HasRoom(d)
  <2> DEFINE xs == curve[d].iterations
             s  == Append(sent[d], it)
  <2>1. Puts(d, "reports", Added(xs, it)) /\ sent' = [sent EXCEPT ![d] = s]
    BY <1>4 DEF ReportsSolve
  <2>2. s \in Seq(Iterations)
    BY <1>1, <1>2
  <2>3. FromReports(Added(xs, it), s) /\ Added(xs, it) \in Seq(Iterations)
    <3>1. CASE curve[d] = NoCurve
      <4>1. sent[d] = <<>> /\ xs = <<>>
        BY <1>4, <3>1 DEF CurvesInv, NoCurve
      <4> HIDE DEF it
      <4>. QED BY <1>2, <4>1, FirstReport
    <3>2. CASE curve[d] # NoCurve
      <4>1. IsCurveOf(curve[d], sent[d]) /\ curve[d].source # "trace"
        BY <1>4, <3>2 DEF CurvesInv, HasSeries
      <4>2. FromReports(xs, sent[d])
        BY <4>1 DEF IsCurveOf
      <4>3. xs \in Seq(Iterations)
        BY <3>2 DEF CurvesInv, CurvesTypeOK, Rows
      <4> HIDE DEF it, xs
      <4>. QED BY <1>1, <1>2, <4>2, <4>3, NextReport DEF s
    <3>. QED BY <3>1, <3>2
  <2> HIDE DEF it, xs, s
  <2>4. IsCurveOf([source |-> "reports", iterations |-> Added(xs, it)], s)
    BY <2>3 DEF IsCurveOf
  <2>. QED BY <1>1, <1>4, <2>1, <2>2, <2>3, <2>4, PutKeeps
<1>. QED BY <1>3, <1>4

LEMMA CurvesInitInv == CurvesInit => CurvesInv
<1>1. NoCurve \in Rows /\ <<>> \in Seq(Iterations)
  BY DEF Rows
<1>. QED BY <1>1 DEF CurvesInit, CurvesInv, CurvesTypeOK

LEMMA CurvesNextInv == CurvesInv /\ [CurvesNext]_curveVars => CurvesInv'
<1> SUFFICES ASSUME CurvesInv, [CurvesNext]_curveVars PROVE CurvesInv'
  OBVIOUS
<1>1. ASSUME NEW d \in Directions, PostsSeries(d) PROVE CurvesInv'
  BY <1>1, PostsSeriesKeeps
<1>2. ASSUME NEW d \in Directions, ReportsSolve(d) PROVE CurvesInv'
  BY <1>2, ReportsSolveKeeps
<1>3. ASSUME NEW d \in Directions, NEW it \in 1 .. MaxIteration, Logs(d, it) PROVE CurvesInv'
  <2>1. sent' = sent /\ curve' = curve /\ log' = [log EXCEPT ![d] = Append(log[d], it)]
    BY <1>3 DEF Logs
  <2>2. Append(log[d], it) \in Seq(Iterations)
    BY DEF CurvesInv, CurvesTypeOK, Iterations
  <2>. QED BY <2>1, <2>2 DEF CurvesInv, CurvesTypeOK, HasRoom
<1>4. CASE UNCHANGED curveVars
  BY <1>4 DEF CurvesInv, CurvesTypeOK, HasRoom, curveVars
<1>. QED BY <1>1, <1>2, <1>3, <1>4 DEF CurvesNext

(* A curve is of the solver run that is current and of nothing older, in   *)
(* whichever way it was made (normalize_residuals cuts the log,            *)
(* _note_solve_report adds the reports), and it never doubles back.        *)
THEOREM CurveIsCurrentRunHolds == CurvesSpec => []CurveIsCurrentRun
<1>1. CurvesInv => CurveIsCurrentRun
  <2> SUFFICES ASSUME CurvesInv, NEW d \in Directions, curve[d] # NoCurve
               PROVE  LET xs == curve[d].iterations
                      IN /\ NeverBack(xs, 1)
                         /\ curve[d].source = "trace" => xs = LongestEnd(sent[d])
                         /\ curve[d].source = "reports" =>
                              IterationsIn(xs) = {it \in Reported(sent[d]) :
                                 Cardinality({l \in Reported(sent[d]) : l > it}) < MaxSamples}
    BY DEF CurveIsCurrentRun, Reported
  <2>1. IsCurveOf(curve[d], sent[d]) /\ sent[d] \in Seq(Iterations) /\ curve[d].iterations \in Seq(Iterations)
    BY DEF CurvesInv, CurvesTypeOK, Rows
  <2>2. CASE curve[d].source = "trace"
    <3>1. sent[d] # <<>> /\ curve[d].iterations = LongestEnd(sent[d])
      BY <2>1, <2>2 DEF IsCurveOf
    <3>2. PICK k : IsStart(sent[d], k)
      BY <2>1, <3>1, StartExists
    <3>3. NeverBack(LongestEnd(sent[d]), 1)
      BY <2>1, <3>2, EndFromStart
    <3>. QED BY <2>2, <3>1, <3>3
  <2>3. CASE curve[d].source = "reports"
    <3>1. sent[d] # <<>> /\ PutTogether(curve[d].iterations, Reported(sent[d]))
      BY <2>1, <2>3 DEF IsCurveOf, FromReports
    <3>2. Reported(sent[d]) \in SUBSET Iterations
      BY <2>1, <3>1, ReportedIterations
    <3>. QED BY <2>1, <2>3, <3>1, <3>2, HoldsLatest
  <2>. QED BY <2>1, <2>2, <2>3 DEF IsCurveOf
<1>. QED BY <1>1, CurvesInitInv, CurvesNextInv, PTL DEF CurvesSpec
=============================================================================
