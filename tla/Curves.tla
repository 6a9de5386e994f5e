------------------------------- MODULE Curves -------------------------------
(***************************************************************************)
(* The residual curve of each wind direction of a case, as the dashboard   *)
(* draws it (table case_residuals of casebroker/db.py).  A node that knows *)
(* the kind posts the series itself, its solver's log; from any other the  *)
(* curve is put together, a point at a time, from its solve reports.       *)
(*                                                                         *)
(* The solver of a direction may be restarted from 0 on a safer rung of    *)
(* the numerics ladder, into the same log, so both ways must recognise the *)
(* run that is current.  The lease check, shapes and sizes of a post are   *)
(* left out, and what drops a case's curves is in CaseParts.               *)
(***************************************************************************)
EXTENDS Integers, Sequences, FiniteSets

CONSTANTS
  Directions,
  MaxDirections, \* RESIDUAL_MAX_DIRECTIONS
  MaxSamples,    \* RESIDUAL_SAMPLE_MAX
  MaxIteration,  \* bound: iterations of a run
  MaxReports     \* bound: points a log holds, or reports of a direction

ASSUME CurvesAssumption ==
  /\ IsFiniteSet(Directions) /\ MaxDirections \in Nat \ {0} /\ MaxSamples \in Nat \ {0}
  /\ MaxIteration \in Nat \ {0} /\ MaxReports \in Nat

VARIABLES
  log,   \* the iterations in the log of each direction's solver
  sent,  \* what the node has sent of it: each iteration reported, or its log
  curve  \* the row of each direction

curveVars == <<log, sent, curve>>

NoCurve == [source |-> "none", iterations |-> <<>>]

CurvesInit ==
  /\ log = [d \in Directions |-> <<>>]
  /\ sent = [d \in Directions |-> <<>>]
  /\ curve = [d \in Directions |-> NoCurve]

-----------------------------------------------------------------------------
Latest(xs) == xs[Len(xs)]

(* The solver logs a later iteration, or is restarted and logs an early one*)
Logs(d, it) ==
  /\ Len(log[d]) < MaxReports
  /\ log' = [log EXCEPT ![d] = Append(log[d], it)]
  /\ UNCHANGED <<sent, curve>>

(* _put_residuals: the direction's row, if there is room for one more.     *)
HasRoom(d) ==
  \/ curve[d] # NoCurve
  \/ Cardinality({e \in Directions : curve[e] # NoCurve}) < MaxDirections

Puts(d, source, iterations) ==
  curve' = IF HasRoom(d) THEN [curve EXCEPT ![d] = [source |-> source, iterations |-> iterations]] ELSE curve

Descents(xs) == {i \in 2 .. Len(xs) : xs[i] < xs[i - 1]}

(* Wrong: cut where the log first goes back.                               *)
CutAtFirst(xs) ==
  IF Descents(xs) = {} THEN xs
  ELSE SubSeq(xs, CHOOSE i \in Descents(xs) : \A j \in Descents(xs) : i <= j, Len(xs))

(* normalize_residuals: cut where it last goes back.                       *)
CurrentRun(xs) ==
  IF Descents(xs) = {} THEN xs
  ELSE SubSeq(xs, CHOOSE i \in Descents(xs) : \A j \in Descents(xs) : i >= j, Len(xs))

(* post_telemetry, kind "residuals".                                       *)
PostsSeries(d) ==
  /\ log[d] # <<>>
  /\ Puts(d, "trace", CurrentRun(log[d]))
  /\ sent' = [sent EXCEPT ![d] = log[d]]
  /\ UNCHANGED log

(* The solver's own series is finer than any report.                       *)
HasSeries(d) == curve[d].source = "trace"

(* _note_solve_report: a repeated report adds nothing, one that goes back  *)
(* starts the curve over, and the oldest points go beyond MaxSamples.      *)
Added(xs, it) ==
  IF xs # <<>> /\ it = Latest(xs) THEN xs
  ELSE IF xs # <<>> /\ it < Latest(xs) THEN <<it>>
  ELSE LET all == Append(xs, it)
       IN IF Len(all) > MaxSamples THEN Tail(all) ELSE all

(* post_telemetry, kind "solve": the latest iteration.                     *)
ReportsSolve(d) ==
  /\ log[d] # <<>> /\ Len(sent[d]) < MaxReports
  /\ IF HasSeries(d) THEN UNCHANGED <<sent, curve>>
     ELSE /\ Puts(d, "reports", Added(curve[d].iterations, Latest(log[d])))
          /\ sent' = IF HasRoom(d) THEN [sent EXCEPT ![d] = Append(sent[d], Latest(log[d]))] ELSE sent
  /\ UNCHANGED log

CurvesNext ==
  \E d \in Directions :
    \/ PostsSeries(d) \/ ReportsSolve(d)
    \/ \E it \in 1 .. MaxIteration : Logs(d, it)

CurvesSpec == CurvesInit /\ [][CurvesNext]_curveVars

-----------------------------------------------------------------------------
(* The longest end of what was sent that never goes back, each iteration   *)
(* once: the run that is current, as far as the numbers can tell.          *)
NeverBack(xs, k) == \A i \in k + 1 .. Len(xs) : xs[i] >= xs[i - 1]

LongestEnd(xs) ==
  SubSeq(xs, CHOOSE k \in 1 .. Len(xs) : NeverBack(xs, k) /\ \A j \in 1 .. k - 1 : ~NeverBack(xs, j), Len(xs))

IterationsIn(xs) == {xs[i] : i \in 1 .. Len(xs)}

(* A curve is of the current run, and of nothing older: all of it in the   *)
(* solver's own series; in one put together from reports all that was      *)
(* reported of it, or the latest MaxSamples; and it never doubles back.    *)
CurveIsCurrentRun ==
  \A d \in Directions : curve[d] # NoCurve =>
    LET xs   == curve[d].iterations
        reported == IterationsIn(LongestEnd(sent[d]))
    IN /\ NeverBack(xs, 1)
       /\ curve[d].source = "trace" => xs = LongestEnd(sent[d])
       /\ curve[d].source = "reports" =>
            IterationsIn(xs) = {it \in reported : Cardinality({l \in reported : l > it}) < MaxSamples}
=============================================================================
