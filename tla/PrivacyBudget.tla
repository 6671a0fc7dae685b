---------------------------- MODULE PrivacyBudget ----------------------------
(***************************************************************************)
(* The differential-privacy accountant of crypto/dp.py, shared by the      *)
(* encrypted heatmap, which releases a density from a worker thread every  *)
(* few seconds, and by the operator's query_dp action on the event loop;   *)
(* and what its two signals do to the analytics pipeline.                  *)
(*                                                                         *)
(* Privacy loss is counted in indivisible units.  The code adds floats,    *)
(* and the default budget (1000.0 in releases of 0.01) is used up by       *)
(* 100000 releases with 7.6e-10 left over, more than the tolerance of      *)
(* deduct: a budget whose last release leaves something over is the rule.  *)
(*                                                                         *)
(* deduct calls nothing between its tests and its additions, so the        *)
(* interpreter runs it as one step; _maybe_signal calls float() and the    *)
(* property remaining_epsilon between its reads.  Signals reach their      *)
(* handlers over the event bus, at once or later (module Delivery).        *)
(***************************************************************************)
EXTENDS Integers

CONSTANTS
    Total,          \* PrivacyBudget.epsilon
    PerRelease,     \* dp_epsilon_per_release
    QueryEpsilon    \* what a query may ask for

ASSUME BudgetAssumption ==
    /\ Total \in Nat \ {0}
    /\ PerRelease \in Nat \ {0}
    /\ QueryEpsilon \subseteq Nat \ {0}

VARIABLES
    spent,      \* epsilon_spent
    warnedLow,     \* _warned
    exhausted,  \* _exhausted
    paused,     \* OperatorContext.defenses.dp_paused
    call,       \* per thread, its call of laplace or laplace_vector
    bus,        \* signals emitted and not yet handled
    slowed,     \* DashboardPipeline._dp_warning_applied
    degraded,   \* DashboardPipeline._dp_degraded
    latest,     \* the heatmap's latest sample: "none", "noised" or "clean"
    released,   \* history: privacy loss of the noised densities published
    answered,   \* history: privacy loss of the queries answered
    sent        \* history: how often each signal was emitted

accountant == <<spent, warnedLow, exhausted>>
budgetVars == <<accountant, paused, call, bus, slowed, degraded, latest, released, answered, sent>>

Thread == {"heatmap", "loop"}
Signal == {"warning", "exhausted"}

Idle == [at |-> "idle", epsilon |-> 0, granted |-> FALSE, seen |-> 0]
Call == [at : {"idle", "test", "read", "decide", "return"},
         epsilon : Nat, granted : BOOLEAN, seen : 0 .. Total]

BudgetInit ==
    /\ spent = 0 /\ warnedLow = FALSE /\ exhausted = FALSE
    /\ paused = FALSE
    /\ call = [t \in Thread |-> Idle]
    /\ bus = [s \in Signal |-> 0]
    /\ slowed = FALSE /\ degraded = FALSE
    /\ latest = "none"
    /\ released = 0 /\ answered = 0
    /\ sent = [s \in Signal |-> 0]

remaining_epsilon == IF spent < Total THEN Total - spent ELSE 0

\* Fault: the deduction is made before it is tested.
deduct_then_test(t, epsilon) ==
    /\ spent' = IF spent < Total THEN spent + epsilon ELSE spent
    /\ call' = [call EXCEPT ![t] = [at |-> "test", epsilon |-> epsilon,
                                   granted |-> spent + epsilon <= Total, seen |-> 0]]

\* PrivacyBudget.deduct, called by laplace and by laplace_vector: a deduction
\* that does not fit raises and changes nothing.
deduct(t, epsilon) ==
    LET fits == spent + epsilon <= Total
    IN  /\ spent' = IF fits THEN spent + epsilon ELSE spent
        /\ call' = [call EXCEPT ![t] =
                [at |-> "test", epsilon |-> epsilon, granted |-> fits, seen |-> 0]]

\* EncryptedHeatmap.compute, up to the deduction.
ComputeHeatmap ==
    /\ call["heatmap"].at = "idle"
    /\ deduct("heatmap", PerRelease)
    /\ UNCHANGED <<warnedLow, exhausted, paused, bus, slowed, degraded, latest, released,
                   answered, sent>>

\* _handle_query_dp, up to the deduction.
QueryDp(epsilon) ==
    /\ call["loop"].at = "idle"
    /\ ~paused
    /\ deduct("loop", epsilon)
    /\ UNCHANGED <<warnedLow, exhausted, paused, bus, slowed, degraded, latest, released,
                   answered, sent>>

\* defense_pause_dp and defense_resume_dp.
PauseDp(flag) ==
    /\ call["loop"].at = "idle"
    /\ paused' = flag
    /\ UNCHANGED <<accountant, call, bus, slowed, degraded, latest, released, answered, sent>>

\* The call of thread t goes on to pc, having seen so much left.
Goto(t, pc, seen) ==
    call' = [call EXCEPT ![t] = [at |-> pc, epsilon |-> call[t].epsilon,
                                 granted |-> call[t].granted, seen |-> seen]]

\* _maybe_signal: the latch is tested ...
TestLatch(t) ==
    /\ call[t].at = "test"
    /\ Goto(t, IF exhausted THEN "return" ELSE "read", 0)
    /\ UNCHANGED <<accountant, paused, bus, slowed, degraded, latest, released, answered, sent>>

\* ... what is left is read ...
ReadRemaining(t) ==
    /\ call[t].at = "read"
    /\ Goto(t, "decide", remaining_epsilon)
    /\ UNCHANGED <<accountant, paused, bus, slowed, degraded, latest, released, answered, sent>>

emit(s) ==
    /\ bus' = [bus EXCEPT ![s] = @ + 1]
    /\ sent' = [sent EXCEPT ![s] = @ + 1]

\* _WARNING_THRESHOLD: less than 5 % is left.
Low(left) == 20 * left < Total

\* Fault: a warning that has been given is the last signal.
Decide_warned_is_enough(t) ==
    /\ call[t].at = "decide"
    /\ IF call[t].seen <= 0 /\ ~warnedLow
       THEN exhausted' = TRUE /\ warnedLow' = TRUE /\ emit("exhausted")
       ELSE IF ~warnedLow /\ Low(call[t].seen)
       THEN warnedLow' = TRUE /\ emit("warning") /\ UNCHANGED exhausted
       ELSE UNCHANGED <<warnedLow, exhausted, bus, sent>>
    /\ Goto(t, "return", 0)
    /\ UNCHANGED <<spent, paused, slowed, degraded, latest, released, answered>>

\* ... and a latch is set and its signal sent on what was read.
Decide(t) ==
    /\ call[t].at = "decide"
    /\ IF call[t].seen <= 0
       THEN exhausted' = TRUE /\ warnedLow' = TRUE /\ emit("exhausted")
       ELSE IF ~warnedLow /\ Low(call[t].seen)
       THEN warnedLow' = TRUE /\ emit("warning") /\ UNCHANGED exhausted
       ELSE UNCHANGED <<warnedLow, exhausted, bus, sent>>
    /\ Goto(t, "return", 0)
    /\ UNCHANGED <<spent, paused, slowed, degraded, latest, released, answered>>

\* compute publishes its sample: noised, or the clean density when the
\* deduction was refused.
PublishHeatmap ==
    /\ call["heatmap"].at = "return"
    /\ latest' = IF call["heatmap"].granted THEN "noised" ELSE "clean"
    /\ released' = released + (IF call["heatmap"].granted THEN PerRelease ELSE 0)
    /\ call' = [call EXCEPT !["heatmap"] = Idle]
    /\ UNCHANGED <<accountant, paused, bus, slowed, degraded, answered, sent>>

\* query_dp returns the noised statistic, or the error budget_exhausted.
AnswerQuery ==
    /\ call["loop"].at = "return"
    /\ answered' = answered + (IF call["loop"].granted THEN call["loop"].epsilon ELSE 0)
    /\ call' = [call EXCEPT !["loop"] = Idle]
    /\ UNCHANGED <<accountant, paused, bus, slowed, degraded, latest, released, sent>>

\* DashboardPipeline.degrade_for_dp_warning and enter_dp_fallback.
degrade_for_dp_warning == slowed' = TRUE
enter_dp_fallback == degraded' = TRUE

\* Fault: the fallback is only entered from the slowed-down mode.
Deliver_in_order(s) ==
    /\ bus[s] > 0
    /\ bus' = [bus EXCEPT ![s] = @ - 1]
    /\ IF s = "warning"
       THEN degrade_for_dp_warning /\ UNCHANGED degraded
       ELSE degraded' = slowed /\ UNCHANGED slowed
    /\ UNCHANGED <<accountant, paused, call, latest, released, answered, sent>>

\* on_dp_budget_warning and on_dp_budget_exhausted, when the bus hands the
\* signal over.
Deliver(s) ==
    /\ bus[s] > 0
    /\ bus' = [bus EXCEPT ![s] = @ - 1]
    /\ IF s = "warning"
       THEN degrade_for_dp_warning /\ UNCHANGED degraded
       ELSE enter_dp_fallback /\ UNCHANGED slowed
    /\ UNCHANGED <<accountant, paused, call, latest, released, answered, sent>>

Continue(t) == TestLatch(t) \/ ReadRemaining(t) \/ Decide(t)

BudgetNext ==
    \/ ComputeHeatmap
    \/ \E epsilon \in QueryEpsilon : QueryDp(epsilon)
    \/ \E flag \in BOOLEAN : PauseDp(flag)
    \/ \E t \in Thread : Continue(t)
    \/ PublishHeatmap
    \/ AnswerQuery
    \/ \E s \in Signal : Deliver(s)

BudgetSpec == BudgetInit /\ [][BudgetNext]_budgetVars

\* A call that has begun goes on to its end, and the bus hands every signal
\* over; that anybody asks or that a heatmap is computed is not assumed.
FairSpec ==
    /\ BudgetSpec
    /\ \A t \in Thread : WF_budgetVars(Continue(t))
    /\ \A s \in Signal : WF_budgetVars(Deliver(s))

----------------------------------------------------------------------------
(* What the accountant promises.                                           *)

\* Every variable holds the kind of value the code keeps in it, and the two
\* threads together never spend more than the budget.
BudgetTypeOK ==
    /\ spent \in 0 .. Total
    /\ warnedLow \in BOOLEAN /\ exhausted \in BOOLEAN /\ paused \in BOOLEAN
    /\ call \in [Thread -> Call]
    /\ bus \in [Signal -> Nat] /\ sent \in [Signal -> Nat]
    /\ slowed \in BOOLEAN /\ degraded \in BOOLEAN
    /\ latest \in {"none", "noised", "clean"}
    /\ released \in Nat /\ answered \in Nat

InFlight(t) == IF call[t].at # "idle" /\ call[t].granted THEN call[t].epsilon ELSE 0

\* Every noised value that leaves the process has been paid for, once, and
\* every payment is for a value that leaves or is about to: a refused release
\* costs nothing, and no thread pays for the other.
SpendingAccounted == spent = released + answered + InFlight("heatmap") + InFlight("loop")

\* When no call is under way, a budget that is used up to the last unit has
\* been announced, and one that is nearly used up has been announced too,
\* whatever each thread had read when the other one spent.
LowBudgetAnnounced ==
    (\A t \in Thread : call[t].at = "idle") =>
        /\ remaining_epsilon = 0 => exhausted /\ sent["exhausted"] > 0
        /\ Low(remaining_epsilon) => sent["warning"] + sent["exhausted"] > 0

\* A used-up budget puts the pipeline in its fallback mode.
ExhaustionDegrades == spent = Total ~> degraded
==============================================================================
