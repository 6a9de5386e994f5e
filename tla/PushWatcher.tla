---------------------------- MODULE PushWatcher ----------------------------
(***************************************************************************)
(* What a tick of the push notifier announces (casebroker/push.py tick,    *)
(* casebroker/db.py push_events_after, push_snapshot, claim_push_state):   *)
(* the events after a cursor, and conditions that have come to hold.       *)
(*                                                                         *)
(* Two broker processes may tick at once, during a deploy, and on Postgres *)
(* each SELECT has its own snapshot: each is a step.  An event's id is     *)
(* given out before its transaction commits.  What is announced here is    *)
(* what a tick goes on to deliver; PushDelivery has the sending.           *)
(***************************************************************************)
EXTENDS Integers, FiniteSets

CONSTANTS
  Tickers,           \* processes that tick
  MaxEvents,         \* bound: events written
  Page,              \* the limit of push_events_after
  Silent,            \* a machine silent with a case, for each such pair
  Remember,          \* how many of those the state remembers
  Standing,          \* the other conditions: store, stall, empty
  Hysteretic         \* those with readings that neither fire nor clear

ASSUME WatcherAssumption ==
  /\ MaxEvents \in Nat /\ Page \in Nat \ {0} /\ Remember \in Nat
  /\ Silent \cap Standing = {} /\ Hysteretic \subseteq Standing
  /\ IsFiniteSet(Silent)

Ids        == 1..MaxEvents
Conditions == Silent \cup Standing

VARIABLES
  event,     \* the events table: each id's row
  reading,   \* what a snapshot says of each condition
  pushed,    \* the push_state setting
  ticking,   \* what each tick has read
  outrun,    \* (history) ticks that looked at a state since moved
  announced, \* (history) how often each event was announced, 2 for more
  chimed,    \* (history) how often each condition was since it last rose
  slipped,   \* (history) events passed over as FIRST or BETWEEN, below
  unborn,    \* (history) events passed over before they were committed
  doubled    \* (history) conditions announced from a recycled state, or past
             \* what the state remembers

watcherVars == <<event, reading, pushed, ticking, outrun, announced, chimed, slipped, unborn, doubled>>

Never   == [first |-> "yes"]
NoTick  == [at |-> "rest"]

WatcherInit ==
  /\ event = [i \in Ids |-> "none"]
  /\ reading = [c \in Conditions |-> "clear"]
  /\ pushed = Never
  /\ ticking = [p \in Tickers |-> NoTick]
  /\ outrun = {}
  /\ announced = [i \in Ids |-> 0] /\ chimed = [c \in Conditions |-> 0]
  /\ slipped = {} /\ unborn = {} /\ doubled = {}

-----------------------------------------------------------------------------
(* The world: an event's row is open, then committed and young, then past  *)
(* LAG_SECONDS, then past MAX_AGE_SECONDS: by its stamp, which a later id  *)
(* may have earlier than a lower one.                                      *)

Visible == {i \in Ids : event[i] \in {"young", "aged", "old"}}

Highest(m, S, otherwise) == IF S = {} THEN m = otherwise ELSE m \in S /\ \A i \in S : i <= m
Lowest(m, S, otherwise)  == IF S = {} THEN m = otherwise ELSE m \in S /\ \A i \in S : m <= i

Happens(i, from, to) ==
  /\ event[i] = from
  /\ event' = [event EXCEPT ![i] = to]
  /\ UNCHANGED <<reading, pushed, ticking, outrun, announced, chimed, slipped, unborn, doubled>>

EventOpens(i) == (\A j \in 1..(i - 1) : event[j] # "none") /\ Happens(i, "none", "open")
Commits(i)    == Happens(i, "open", "young")
Ages(i)       == Happens(i, "young", "aged")
GrowsOld(i)   == Happens(i, "aged", "old")

Changes(c, to) ==
  /\ reading[c] # to /\ (to = "between" => c \in Hysteretic)
  /\ reading' = [reading EXCEPT ![c] = to]
  /\ chimed' = IF reading[c] = "clear" THEN [chimed EXCEPT ![c] = 0] ELSE chimed
  /\ doubled' = IF reading[c] = "clear" THEN doubled \ {c} ELSE doubled
  /\ UNCHANGED <<event, pushed, ticking, outrun, announced, slipped, unborn>>

-----------------------------------------------------------------------------
(* A tick.  Its record is what it has read so far.  Of it "seen", "out",   *)
(* "lost" and "missed" are history: what was visible when it looked where  *)
(* to stop and when it read, and what it passes over: lost FIRST, all      *)
(* there was when the state was new, or BETWEEN, behind a row that came    *)
(* into sight after it had looked for young ones; missed, all that was not *)
(* visible when it read.                                                   *)

Looks(p) ==
  /\ ticking[p] = NoTick
  /\ ticking' = [ticking EXCEPT ![p] = [at |-> "looked", raw |-> pushed]]
  /\ UNCHANGED <<event, reading, pushed, outrun, announced, chimed, slipped, unborn, doubled>>

Goes(p, t) ==
  /\ ticking' = [ticking EXCEPT ![p] = t]
  /\ UNCHANGED <<event, reading, pushed, outrun, announced, chimed, slipped, unborn, doubled>>

HasRead(raw, snap, rows, cursor, lost, missed) ==
  [at |-> "read", raw |-> raw, snap |-> snap, rows |-> rows, cursor |-> cursor,
   lost |-> lost, missed |-> missed]

(* push_snapshot.  The first tick ever starts from the newest event.       *)
Snaps(p) ==
  /\ ticking[p].at = "looked"
  /\ LET raw == ticking[p].raw
     IN \/ /\ raw = Never
           /\ \E newest \in 0..MaxEvents :
                Highest(newest, Visible, 0) /\ Goes(p, HasRead(raw, reading, {}, newest, 1..newest, {}))
        \/ raw # Never /\ Goes(p, [at |-> "snapped", raw |-> raw, snap |-> reading])

(* push_events_after: where to stop, at the first row that is young ...    *)
FindsStop(p) ==
  /\ ticking[p].at = "snapped"
  /\ LET later == {i \in Visible : i > ticking[p].raw.cursor}
     IN \E stop, seen \in 0..MaxEvents :
          /\ Lowest(stop, {i \in later : event[i] = "young"}, 0)
          /\ Highest(seen, later, 0)
          /\ Goes(p, [at |-> "stopped", raw |-> ticking[p].raw, snap |-> ticking[p].snap,
                      stop |-> stop, seen |-> seen])

(* The first rows, as many as a page holds.                                *)
PageOf(rows, all) ==
  /\ \A i \in rows, j \in all : j < i => j \in rows
  /\ rows = all \/ Cardinality(rows) = Page
  /\ Cardinality(rows) <= Page

(* ... the rows before it, a page of them, none of them old ...            *)
Lists(p) ==
  /\ ticking[p].at = "stopped"
  /\ LET after == ticking[p].raw.cursor
         stop  == ticking[p].stop
         all   == {i \in Visible : i > after /\ event[i] # "old" /\ (stop # 0 => i < stop)}
     IN \E rows \in SUBSET all :
          /\ PageOf(rows, all)
          /\ Goes(p, [at |-> "listed", raw |-> ticking[p].raw, snap |-> ticking[p].snap, stop |-> stop,
                      seen |-> ticking[p].seen, rows |-> rows, out |-> Ids \ Visible])

(* Wrong: the row to stop at counts as read.                               *)
UpTo(stop) == stop

Before(stop) == stop - 1

(* ... and how far that was, by a look of its own if nothing stopped it.   *)
Tops(p) ==
  /\ ticking[p].at = "listed"
  /\ LET after == ticking[p].raw.cursor
         rows  == ticking[p].rows
         full  == Cardinality(rows) >= Page
     IN \E cursor \in 0..MaxEvents :
          /\ full => Highest(cursor, rows, after)
          /\ ~full /\ ticking[p].stop # 0 => cursor = Before(ticking[p].stop)
          /\ ~full /\ ticking[p].stop = 0 => Highest(cursor, {i \in Visible : i > after}, after)
          /\ LET missed == ((after + 1)..cursor) \cap ticking[p].out
                 lost   == IF cursor > ticking[p].seen THEN missed ELSE {}
             IN Goes(p, HasRead(ticking[p].raw, ticking[p].snap, rows, cursor, lost, missed))

(* _conditions: what holds, and what of it the state remembers next.       *)
Holding(snap) == {c \in Conditions : snap[c] = "holds"}

(* Wrong: a reading between the levels clears the flag.                    *)
StillForgotten(snap, fired) == {}

(* Neither holding nor clear: as it was.                                   *)
StillFired(snap, fired) == {c \in Standing : snap[c] = "between"} \cap fired

Fired(raw) == IF raw = Never THEN {} ELSE raw.fired

(* Wrong: a state another process has moved is written over.               *)
Overwrites(raw) == TRUE

(* claim_push_state: compare and set, so that one process announces.       *)
Unmoved(raw) == pushed = raw

More(n) == IF n = 0 THEN 1 ELSE 2

Midway == {q \in Tickers : ticking[q] # NoTick}

(* What comes to hold, and the state the tick is to leave, with the silent *)
(* machines it remembers.                                                  *)
Fresh(t) == Holding(t.snap) \ Fired(t.raw)

NextState(t, kept) ==
  [first |-> "no", cursor |-> t.cursor,
   fired |-> kept \cup (Holding(t.snap) \cap Standing) \cup StillFired(t.snap, Fired(t.raw))]

Remembers(t, kept) ==
  /\ kept \subseteq Holding(t.snap) \cap Silent
  /\ Cardinality(kept) <= Remember
  /\ kept # Holding(t.snap) \cap Silent => Cardinality(kept) = Remember

Odd(p, t, kept) ==
  (IF p \in outrun THEN Fresh(t) \cup (Fired(t.raw) \ Holding(t.snap)) ELSE {})
    \cup ((Holding(t.snap) \cap Silent) \ kept)

Announces(t) ==
  /\ announced' = [i \in Ids |-> IF i \in t.rows THEN More(announced[i]) ELSE announced[i]]
  /\ chimed' = [c \in Conditions |-> IF c \in Fresh(t) THEN More(chimed[c]) ELSE chimed[c]]
  /\ slipped' = slipped \cup t.lost /\ unborn' = unborn \cup t.missed

(* The state is claimed before anything is sent, unless it is the same.    *)
Claims(p) ==
  /\ ticking[p].at = "read"
  /\ \E kept \in SUBSET Silent :
       LET t   == ticking[p]
           new == NextState(t, kept)
       IN /\ Remembers(t, kept)
          /\ \/ /\ new = t.raw /\ Announces(t) /\ doubled' = doubled \cup Odd(p, t, kept)
                /\ outrun' = outrun \ {p} /\ UNCHANGED pushed
             \/ /\ new # t.raw /\ Unmoved(t.raw) /\ pushed' = new
                /\ Announces(t) /\ doubled' = doubled \cup Odd(p, t, kept)
                /\ outrun' = Midway \ {p}
             \/ /\ new # t.raw /\ ~Unmoved(t.raw) /\ outrun' = outrun \ {p}
                /\ UNCHANGED <<pushed, announced, chimed, slipped, unborn, doubled>>
  /\ ticking' = [ticking EXCEPT ![p] = NoTick]
  /\ UNCHANGED <<event, reading>>

(* A tick fails, or its process goes away.                                 *)
TickFails(p) ==
  /\ ticking[p] # NoTick
  /\ ticking' = [ticking EXCEPT ![p] = NoTick] /\ outrun' = outrun \ {p}
  /\ UNCHANGED <<event, reading, pushed, announced, chimed, slipped, unborn, doubled>>

-----------------------------------------------------------------------------
WatcherNext ==
  \/ \E i \in Ids : EventOpens(i) \/ Commits(i) \/ Ages(i) \/ GrowsOld(i)
  \/ \E c \in Conditions, to \in {"clear", "between", "holds"} : Changes(c, to)
  \/ \E p \in Tickers :
       Looks(p) \/ Snaps(p) \/ FindsStop(p) \/ Lists(p) \/ Tops(p) \/ Claims(p) \/ TickFails(p)

WatcherSpec == WatcherInit /\ [][WatcherNext]_watcherVars

-----------------------------------------------------------------------------
PushedState == [first : {"no"}, cursor : 0..MaxEvents, fired : SUBSET Conditions]

(* The type of every variable but the ticks' records.                      *)
WatcherTypeOK ==
  /\ event \in [Ids -> {"none", "open", "young", "aged", "old"}]
  /\ reading \in [Conditions -> {"clear", "between", "holds"}]
  /\ pushed \in {Never} \cup PushedState
  /\ outrun \in SUBSET Tickers
  /\ announced \in [Ids -> 0..2] /\ chimed \in [Conditions -> 0..2]
  /\ slipped \in SUBSET Ids /\ unborn \in SUBSET Ids /\ doubled \in SUBSET Conditions

(* An event is announced at most once, however many processes tick.        *)
AnnouncedAtMostOnce == \A i \in Ids : announced[i] <= 1

(* A condition is announced once while it lasts, and again only after it   *)
(* has cleared -- but for silent machines beyond those remembered, and for *)
(* a tick whose state was moved on and back again behind it.               *)
FiresOnce == \A c \in Conditions : chimed[c] > 1 => c \in doubled

(* The cursor passes no event that is still news and was not announced --  *)
(* but for those there before the first tick, and those that were not yet  *)
(* committed when the tick read.                                           *)
NothingSeenSkipped ==
  pushed # Never =>
    \A i \in 1..pushed.cursor :
      event[i] \in {"open", "young", "aged"} => announced[i] > 0 \/ i \in slipped \cup unborn

(* A row whose transaction took a moment to commit is not skipped: as      *)
(* above, without the last exception, but for rows behind one that came    *)
(* into sight between two reads of one tick.                               *)
NothingSkipped ==
  pushed # Never =>
    \A i \in 1..pushed.cursor :
      event[i] \in {"open", "young", "aged"} => announced[i] > 0 \/ i \in slipped
=============================================================================
