-------------------------------- MODULE Pipeline --------------------------------
(***************************************************************************)
(* The analytics pipeline (analytics/dashboard_pipeline.py): observe fills *)
(* windows, recompute gives each consumer its turn, in a fixed order, when *)
(* its cadence is due and its window long enough.  Most consumers catch    *)
(* what their estimator raises and some do not: then recompute ends there, *)
(* and the consumer is due again at the next call.  Results are named by   *)
(* the time they were computed at.                                         *)
(***************************************************************************)
EXTENDS Maps

CONSTANTS
  Consumers,     \* a sequence of records: name, cadence, needs (observations), guarded;
                 \* the regression and the logit are among them
  Relaxed,       \* the names whose cadence a low privacy budget doubles
  MaxTime, MaxObserved      \* bounds

ASSUME PipelineAssumption ==
  /\ {MaxTime, MaxObserved} \subseteq Nat
  /\ Consumers \in Seq([name : STRING, cadence : Nat \ {0}, needs : Nat \ {0}, guarded : BOOLEAN])
  /\ {"regression", "logit"} \subseteq {Consumers[i].name : i \in DOMAIN Consumers}

VARIABLES
  clock, observed,      \* time.monotonic(), the length of the windows
  cadences, warned,     \* DashboardPipeline.cadences, _dp_warning_applied
  lastRun, results,     \* when each consumer ran, and of when its result is (0: none)
  points, rocAt,        \* what is derived from the regression, and from the logit
  failedAt,             \* history: the place at which the last recompute raised, or 0
  lastRuns              \* history: the consumers that the last recompute ran

pipelineVars == <<clock, observed, cadences, warned, lastRun, results, points, rocAt, failedAt, lastRuns>>

Names == {Consumers[i].name : i \in DOMAIN Consumers}
Place(name) == CHOOSE i \in DOMAIN Consumers : Consumers[i].name = name

PipelineInit ==
  /\ clock = 1 /\ observed = 0 /\ warned = FALSE
  /\ cadences = [c \in Names |-> Consumers[Place(c)].cadence]
  /\ lastRun = [c \in Names |-> 0] /\ results = [c \in Names |-> 0]
  /\ points = 0 /\ rocAt = 0 /\ failedAt = 0 /\ lastRuns = {}

Observe ==
  /\ observed < MaxObserved /\ observed' = observed + 1
  /\ UNCHANGED <<clock, cadences, warned, lastRun, results, points, rocAt, failedAt, lastRuns>>

PassTime ==
  /\ clock < MaxTime /\ clock' = clock + 1
  /\ UNCHANGED <<observed, cadences, warned, lastRun, results, points, rocAt, failedAt, lastRuns>>

\* Fault: a consumer waits for more than its cadence.
DueLate(c) == clock - lastRun[c] > cadences[c]

Due(c) == clock - lastRun[c] >= cadences[c]

Ready(c) == observed >= Consumers[Place(c)].needs

\* Fault: what raises is as good as run.
RunsIncludingFailed(failed) == {c \in Names : Due(c) /\ Ready(c) /\ Place(c) <= failed}

\* The consumers a recompute runs to their end; failed is the place where it raises.
RunsBefore(failed) == {c \in Names : Due(c) /\ Ready(c) /\ Place(c) < failed}

\* Fault: the points are computed once, like the ROC.
PointsKept(runs, new) == IF points = 0 /\ "regression" \in runs THEN new["regression"] ELSE points

PointsAfter(runs, new) ==
  IF "regression" \in runs /\ new["regression"] # 0 THEN new["regression"] ELSE points

\* recompute.  An unguarded consumer may raise; a guarded one may have no result instead.  The
\* ROC is computed when there is a logit and no ROC yet, so that it stays the first one.
Recompute ==
  \E failed \in {Len(Consumers) + 1} \cup
                {Place(c) : c \in {d \in Names : Due(d) /\ Ready(d) /\ ~Consumers[Place(d)].guarded}} :
    LET runs == RunsBefore(failed) IN
    /\ \E empty \in SUBSET {c \in runs : Consumers[Place(c)].guarded} :
         LET new == [c \in Names |-> IF c \in empty THEN 0 ELSE IF c \in runs THEN clock ELSE results[c]] IN
         /\ results' = new
         /\ points' = PointsAfter(runs, new)
         /\ rocAt' = IF failed > Place("logit") /\ new["logit"] # 0 /\ rocAt = 0 THEN clock ELSE rocAt
    /\ lastRun' = [c \in Names |-> IF c \in runs THEN clock ELSE lastRun[c]]
    /\ failedAt' = IF failed \in DOMAIN Consumers THEN failed ELSE 0
    /\ lastRuns' = runs
    /\ UNCHANGED <<clock, observed, cadences, warned>>

\* Fault: every warning doubles.
MayRelaxAgain == TRUE

MayRelax == ~warned

\* degrade_for_dp_warning.
RelaxForBudget ==
  /\ warned' = TRUE
  /\ cadences' = [c \in Names |-> IF c \in Relaxed /\ MayRelax THEN 2 * cadences[c] ELSE cadences[c]]
  /\ UNCHANGED <<clock, observed, lastRun, results, points, rocAt, failedAt, lastRuns>>

PipelineNext == Observe \/ PassTime \/ Recompute \/ RelaxForBudget

------------------------------------------------------------------------------
\* After a recompute that raised nothing, no consumer that is ready is due; after one that
\* raised, none before the place where it raised is.
NothingDueIsSkipped ==
  [][lastRuns' # lastRuns \/ failedAt' # failedAt =>
       \A c \in Names :
         Ready(c) /\ (failedAt' = 0 \/ Place(c) < failedAt') => clock - lastRun'[c] < cadences[c]]_pipelineVars

\* The consumer that raises stays due: the next recompute tries it again, and not a cadence later.
FailedStaysDue ==
  [][failedAt' # 0 /\ failedAt' # failedAt =>
       LET c == Consumers[failedAt'].name IN clock - lastRun'[c] >= cadences[c]]_pipelineVars

\* The points shown under a regression are of the latest regression that had a result.
PointsOfTheLatestFit == results["regression"] # 0 => points = results["regression"]

\* However often a low budget is announced, a cadence is doubled once.
CadencesDoubledOnce ==
  \A c \in Names : cadences[c] \in {Consumers[Place(c)].cadence, 2 * Consumers[Place(c)].cadence}

\* Whatever raises, and however often the budget is announced to be low: no consumer that is due
\* is skipped or forgotten, points belong to the latest fit, a cadence is doubled once.
TurnsSound ==
  [](PointsOfTheLatestFit /\ CadencesDoubledOnce) /\ NothingDueIsSkipped /\ FailedStaysDue
=============================================================================
