---------------------------- MODULE OperatorProofs ----------------------------
(***************************************************************************)
(* Theorems about what the operator may do: the privacy budget its queries *)
(* share with the heatmap (PrivacyBudget), and the queue its actions wait  *)
(* in until a tick drains it (OperatorActions).                            *)
(*                                                                         *)
(* The budget's theorems are about its own specification, for every        *)
(* budget, every size of a release and every set of queries.  The queue's  *)
(* lemmas end in SlotSteps and SlotInvSound, about the slot's own state;   *)
(* ServicesProofs takes them to the specification the slot is a part of.   *)
(***************************************************************************)
EXTENDS OperatorActions, PrivacyBudget, SetSums, SequenceTheorems

----------------------------------------------------------------------------
(* The budget.  The equation of SpendingAccounted is not inductive over    *)
(* the types alone: compute records PerRelease as released, so it must     *)
(* also be known that this is what the heatmap's call paid.                *)

\* The heatmap only ever asks for one release.
HeatmapAsks == call["heatmap"].at # "idle" => call["heatmap"].epsilon = PerRelease

BudgetInv == BudgetTypeOK /\ SpendingAccounted /\ HeatmapAsks

\* What remains is between nothing and the whole budget.
LEMMA RemainingType == ASSUME BudgetTypeOK PROVE remaining_epsilon \in 0 .. Total
  BY BudgetAssumption DEF BudgetTypeOK, remaining_epsilon

\* The two threads that spend.
LEMMA ThreadsAreTwo == Thread = {"heatmap", "loop"} /\ "heatmap" # "loop"
  BY DEF Thread

\* The payment of a call in flight is a number, and depends on the call only.
LEMMA InFlightType ==
    ASSUME BudgetTypeOK
    PROVE  \A t \in Thread :
            /\ InFlight(t) \in Nat
            /\ call'[t] = call[t] => InFlight(t)' = InFlight(t)
  BY DEF BudgetTypeOK, InFlight, Call

\* A deduction by an idle thread: what is spent grows by what its call pays.
LEMMA DeductStep ==
    ASSUME BudgetTypeOK, NEW t \in Thread, NEW epsilon \in Nat, deduct(t, epsilon),
           call[t].at = "idle"
    PROVE  /\ spent' \in 0 .. Total /\ call' \in [Thread -> Call]
           /\ spent' = spent + InFlight(t)' /\ InFlight(t) = 0 /\ InFlight(t)' \in Nat
           /\ call'[t].epsilon = epsilon
           /\ \A u \in Thread \ {t} : call'[u] = call[u]
<1> DEFINE fits == spent + epsilon <= Total
           c == [at |-> "test", epsilon |-> epsilon, granted |-> fits, seen |-> 0]
<1>1. fits \in BOOLEAN /\ 0 \in 0 .. Total /\ (fits => spent + epsilon \in 0 .. Total)
  BY BudgetAssumption DEF BudgetTypeOK
<1>2. c \in Call
  BY <1>1 DEF Call
<1>3. /\ call' = [call EXCEPT ![t] = c]
      /\ spent' = IF fits THEN spent + epsilon ELSE spent
  BY DEF deduct
<1>4. call \in [Thread -> Call] /\ spent \in 0 .. Total
  BY DEF BudgetTypeOK
<1>5. call'[t] = c /\ call' \in [Thread -> Call] /\ \A u \in Thread \ {t} : call'[u] = call[u]
  BY <1>2, <1>3, <1>4
<1>6. InFlight(t)' = IF fits THEN epsilon ELSE 0
  <2>1. call'[t].at = "test" /\ call'[t].epsilon = epsilon /\ call'[t].granted = fits
    BY <1>5
  <2>2. InFlight(t)' = IF call'[t].at # "idle" /\ call'[t].granted THEN call'[t].epsilon ELSE 0
    BY DEF InFlight
  <2> HIDE DEF fits
  <2> QED BY <2>1, <2>2
<1>7. InFlight(t) = 0
  BY DEF InFlight
<1> QED BY <1>1, <1>3, <1>4, <1>5, <1>6, <1>7

\* A call that goes on keeps what it pays.
LEMMA GotoStep ==
    ASSUME BudgetTypeOK, NEW t \in Thread, NEW pc \in {"read", "decide", "return"},
           NEW seen \in 0 .. Total, Goto(t, pc, seen), call[t].at # "idle"
    PROVE  /\ call' \in [Thread -> Call]
           /\ \A u \in Thread : InFlight(u)' = InFlight(u)
           /\ HeatmapAsks => HeatmapAsks'
<1> DEFINE c == [at |-> pc, epsilon |-> call[t].epsilon, granted |-> call[t].granted,
                 seen |-> seen]
<1>1. call \in [Thread -> Call]
  BY DEF BudgetTypeOK
<1>2. c \in Call
  BY <1>1 DEF Call
<1>3. call' = [call EXCEPT ![t] = c]
  BY DEF Goto
<1>4. call' \in [Thread -> Call] /\ call'[t] = c /\ \A u \in Thread \ {t} : call'[u] = call[u]
  BY <1>1, <1>2, <1>3
<1>5. InFlight(t)' = InFlight(t)
  BY <1>4 DEF InFlight
<1>6. \A u \in Thread \ {t} : InFlight(u)' = InFlight(u)
  BY <1>4 DEF InFlight
<1>7. HeatmapAsks => HeatmapAsks'
  <2>1. c.epsilon = call[t].epsilon
    OBVIOUS
  <2>2. CASE t = "heatmap"
    BY <1>4, <2>1, <2>2 DEF HeatmapAsks
  <2>3. CASE t # "heatmap"
    BY <1>4, <2>3, ThreadsAreTwo DEF HeatmapAsks
  <2> QED BY <2>2, <2>3
<1> QED BY <1>4, <1>5, <1>6, <1>7

\* A call that returns is idle and pays nothing more.
LEMMA ReturnStep ==
    ASSUME BudgetTypeOK, NEW t \in Thread, call' = [call EXCEPT ![t] = Idle]
    PROVE  /\ call' \in [Thread -> Call]
           /\ InFlight(t)' = 0
           /\ \A u \in Thread \ {t} : InFlight(u)' = InFlight(u)
           /\ HeatmapAsks => HeatmapAsks'
<1>1. call \in [Thread -> Call]
  BY DEF BudgetTypeOK
<1>2. Idle \in Call
  BY BudgetAssumption DEF Idle, Call
<1>3. call' \in [Thread -> Call] /\ call'[t] = Idle /\ \A u \in Thread \ {t} : call'[u] = call[u]
  BY <1>1, <1>2
<1>4. InFlight(t)' = 0
  BY <1>3 DEF InFlight, Idle
<1>5. \A u \in Thread \ {t} : InFlight(u)' = InFlight(u)
  BY <1>3 DEF InFlight
<1>6. HeatmapAsks => HeatmapAsks'
  BY <1>3 DEF HeatmapAsks, Idle
<1> QED BY <1>3, <1>4, <1>5, <1>6

\* Sending a signal counts it.
LEMMA EmitStep ==
    ASSUME BudgetTypeOK, NEW s \in Signal, emit(s)
    PROVE  bus' \in [Signal -> Nat] /\ sent' \in [Signal -> Nat]
<1>1. bus[s] + 1 \in Nat /\ sent[s] + 1 \in Nat
  BY DEF BudgetTypeOK
<1>2. bus' = [bus EXCEPT ![s] = bus[s] + 1] /\ sent' = [sent EXCEPT ![s] = sent[s] + 1]
  BY DEF emit
<1> QED BY <1>1, <1>2 DEF BudgetTypeOK

\* Every step keeps the invariant.
THEOREM BudgetInductive == BudgetInv /\ [BudgetNext]_budgetVars => BudgetInv'
<1> SUFFICES ASSUME BudgetInv, [BudgetNext]_budgetVars PROVE BudgetInv'
  OBVIOUS
<1>0. BudgetTypeOK /\ SpendingAccounted /\ HeatmapAsks /\ "heatmap" \in Thread /\ "loop" \in Thread
  BY ThreadsAreTwo DEF BudgetInv
<1>a. InFlight("heatmap") \in Nat /\ InFlight("loop") \in Nat
  BY <1>0, InFlightType
<1>1. CASE ComputeHeatmap
  <2>1. /\ spent' \in 0 .. Total /\ call' \in [Thread -> Call]
        /\ spent' = spent + InFlight("heatmap")' /\ InFlight("heatmap") = 0
        /\ InFlight("heatmap")' \in Nat /\ call'["loop"] = call["loop"]
        /\ call'["heatmap"].epsilon = PerRelease
    BY <1>0, <1>1, DeductStep, BudgetAssumption, ThreadsAreTwo DEF ComputeHeatmap
  <2>2. InFlight("loop")' = InFlight("loop")
    BY <1>0, <2>1, InFlightType
  <2>3. BudgetTypeOK'
    BY <1>0, <1>1, <2>1 DEF ComputeHeatmap, BudgetTypeOK
  <2>4. SpendingAccounted'
    BY <1>0, <1>1, <1>a, <2>1, <2>2 DEF SpendingAccounted, ComputeHeatmap, BudgetTypeOK
  <2>5. HeatmapAsks'
    BY <1>0, <2>1 DEF HeatmapAsks
  <2> QED BY <2>3, <2>4, <2>5 DEF BudgetInv
<1>2. ASSUME NEW epsilon \in QueryEpsilon, QueryDp(epsilon) PROVE BudgetInv'
  <2>1. /\ spent' \in 0 .. Total /\ call' \in [Thread -> Call]
        /\ spent' = spent + InFlight("loop")' /\ InFlight("loop") = 0
        /\ InFlight("loop")' \in Nat /\ call'["heatmap"] = call["heatmap"]
    BY <1>0, <1>2, DeductStep, BudgetAssumption, ThreadsAreTwo DEF QueryDp
  <2>2. InFlight("heatmap")' = InFlight("heatmap")
    BY <1>0, <2>1, InFlightType
  <2>3. BudgetTypeOK'
    BY <1>0, <1>2, <2>1 DEF QueryDp, BudgetTypeOK
  <2>4. SpendingAccounted'
    BY <1>0, <1>2, <1>a, <2>1, <2>2 DEF SpendingAccounted, QueryDp, BudgetTypeOK
  <2>5. HeatmapAsks'
    BY <1>0, <2>1 DEF HeatmapAsks
  <2> QED BY <2>3, <2>4, <2>5 DEF BudgetInv
<1>3. ASSUME NEW flag \in BOOLEAN, PauseDp(flag) PROVE BudgetInv'
  BY <1>0, <1>3 DEF PauseDp, BudgetInv, BudgetTypeOK, SpendingAccounted, HeatmapAsks, InFlight, accountant
<1>4. ASSUME NEW t \in Thread, TestLatch(t) \/ ReadRemaining(t) \/ Decide(t) PROVE BudgetInv'
  <2>1. \E pc \in {"read", "decide", "return"}, seen \in 0 .. Total :
            Goto(t, pc, seen) /\ call[t].at # "idle"
    BY <1>0, <1>4, RemainingType, BudgetAssumption DEF TestLatch, ReadRemaining, Decide
  <2>2. /\ call' \in [Thread -> Call] /\ HeatmapAsks'
        /\ \A u \in Thread : InFlight(u)' = InFlight(u)
    BY <1>0, <2>1, GotoStep
  <2>3. /\ UNCHANGED <<spent, paused, slowed, degraded, latest, released, answered>>
        /\ warnedLow' \in BOOLEAN /\ exhausted' \in BOOLEAN
        /\ bus' \in [Signal -> Nat] /\ sent' \in [Signal -> Nat]
    <3>1. CASE TestLatch(t)
      BY <1>0, <3>1 DEF TestLatch, accountant, BudgetTypeOK
    <3>2. CASE ReadRemaining(t)
      BY <1>0, <3>2 DEF ReadRemaining, accountant, BudgetTypeOK
    <3>3. CASE Decide(t)
      <4>1. UNCHANGED <<spent, paused, slowed, degraded, latest, released, answered>>
        BY <3>3 DEF Decide
      <4>2. warnedLow' \in BOOLEAN /\ exhausted' \in BOOLEAN
        BY <1>0, <3>3 DEF Decide, BudgetTypeOK
      <4>3. UNCHANGED <<bus, sent>> \/ emit("exhausted") \/ emit("warning")
        BY <3>3 DEF Decide
      <4>4. bus' \in [Signal -> Nat] /\ sent' \in [Signal -> Nat]
        BY <1>0, <4>3, EmitStep DEF BudgetTypeOK, Signal
      <4> QED BY <4>1, <4>2, <4>4
    <3> QED BY <1>4, <3>1, <3>2, <3>3
  <2> QED BY <1>0, <2>2, <2>3 DEF BudgetInv, BudgetTypeOK, SpendingAccounted
<1>5. CASE PublishHeatmap
  <2>1. /\ call' \in [Thread -> Call] /\ InFlight("heatmap")' = 0 /\ HeatmapAsks'
        /\ InFlight("loop")' = InFlight("loop")
    BY <1>0, <1>5, ReturnStep, ThreadsAreTwo DEF PublishHeatmap
  <2>2. InFlight("heatmap") = IF call["heatmap"].granted THEN PerRelease ELSE 0
    BY <1>0, <1>5 DEF PublishHeatmap, InFlight, HeatmapAsks
  <2>3. released' = released + InFlight("heatmap") /\ released' \in Nat
    BY <1>0, <1>5, <1>a, <2>2 DEF PublishHeatmap, BudgetTypeOK
  <2>4. latest' \in {"none", "noised", "clean"}
    BY <1>5 DEF PublishHeatmap
  <2> QED BY <1>0, <1>5, <1>a, <2>1, <2>3, <2>4
       DEF PublishHeatmap, BudgetInv, BudgetTypeOK, SpendingAccounted, accountant
<1>6. CASE AnswerQuery
  <2>1. /\ call' \in [Thread -> Call] /\ InFlight("loop")' = 0 /\ HeatmapAsks'
        /\ InFlight("heatmap")' = InFlight("heatmap")
    BY <1>0, <1>6, ReturnStep, ThreadsAreTwo DEF AnswerQuery
  <2>2. InFlight("loop") = IF call["loop"].granted THEN call["loop"].epsilon ELSE 0
    BY <1>6 DEF AnswerQuery, InFlight
  <2>3. answered' = answered + InFlight("loop") /\ answered' \in Nat
    BY <1>0, <1>6, <1>a, <2>2 DEF AnswerQuery, BudgetTypeOK
  <2> QED BY <1>0, <1>6, <1>a, <2>1, <2>3
       DEF AnswerQuery, BudgetInv, BudgetTypeOK, SpendingAccounted, accountant
<1>7. ASSUME NEW s \in Signal, Deliver(s) PROVE BudgetInv'
  <2>1. bus' \in [Signal -> Nat] /\ slowed' \in BOOLEAN /\ degraded' \in BOOLEAN
    <3>1. bus[s] - 1 \in Nat /\ bus' = [bus EXCEPT ![s] = bus[s] - 1]
      BY <1>0, <1>7 DEF Deliver, BudgetTypeOK
    <3>2. bus' \in [Signal -> Nat]
      BY <1>0, <3>1 DEF BudgetTypeOK
    <3>3. slowed' \in BOOLEAN /\ degraded' \in BOOLEAN
      BY <1>0, <1>7 DEF Deliver, BudgetTypeOK, degrade_for_dp_warning, enter_dp_fallback
    <3> QED BY <3>2, <3>3
  <2>2. UNCHANGED <<spent, warnedLow, exhausted, paused, call, latest, released, answered, sent>>
    BY <1>7 DEF Deliver, accountant
  <2> QED BY <1>0, <2>1, <2>2 DEF BudgetInv, BudgetTypeOK, SpendingAccounted, HeatmapAsks, InFlight
<1>8. CASE UNCHANGED budgetVars
  BY <1>0, <1>8 DEF budgetVars, accountant, BudgetInv, BudgetTypeOK, SpendingAccounted, HeatmapAsks, InFlight
<1> QED BY <1>1, <1>2, <1>3, <1>4, <1>5, <1>6, <1>7, <1>8 DEF BudgetNext, Continue

\* The invariant holds at the start.
LEMMA BudgetInvStarts == BudgetInit => BudgetInv
<1> SUFFICES ASSUME BudgetInit PROVE BudgetInv
  OBVIOUS
<1>1. Idle \in Call /\ 0 \in 0 .. Total
  BY BudgetAssumption DEF Idle, Call
<1>2. BudgetTypeOK
  BY <1>1 DEF BudgetInit, BudgetTypeOK, Signal
<1>3. call["heatmap"].at = "idle" /\ call["loop"].at = "idle"
  BY ThreadsAreTwo DEF BudgetInit, Idle
<1>4. InFlight("heatmap") = 0 /\ InFlight("loop") = 0
  BY <1>3 DEF InFlight
<1> QED BY <1>2, <1>3, <1>4 DEF BudgetInv, BudgetInit, SpendingAccounted, HeatmapAsks

\* The heatmap and the operator together never spend more than the budget,
\* and every variable keeps its type, for every budget and release.
THEOREM BudgetTypeCorrect == BudgetSpec => []BudgetTypeOK
<1>1. BudgetInv => BudgetTypeOK
  BY DEF BudgetInv
<1> QED BY <1>1, BudgetInvStarts, BudgetInductive, PTL DEF BudgetSpec

\* What is spent is what was released, answered or is on its way out.
THEOREM SpendingAccountedHolds == BudgetSpec => []SpendingAccounted
<1>1. BudgetInv => SpendingAccounted
  BY DEF BudgetInv
<1> QED BY <1>1, BudgetInvStarts, BudgetInductive, PTL DEF BudgetSpec

----------------------------------------------------------------------------
(* The two signals                                                         *)

\* Thread t has yet to look at what is left, or has seen what makes it send the signal.
WillExhaust(t) ==
    \/ call[t].at \in {"test", "read"}
    \/ call[t].at = "decide" /\ call[t].seen = 0
WillWarn(t) ==
    \/ call[t].at \in {"test", "read"}
    \/ call[t].at = "decide" /\ Low(call[t].seen)

Announced == sent["warning"] + sent["exhausted"] > 0

\* A latch is only set with its signal; and whoever brings the budget down, a call that will
\* notice it is under way until one has.
SignalInv ==
    /\ exhausted => sent["exhausted"] > 0
    /\ warnedLow => Announced
    /\ remaining_epsilon = 0 => exhausted \/ \E t \in Thread : WillExhaust(t)
    /\ Low(remaining_epsilon) => Announced \/ \E t \in Thread : WillWarn(t)

\* A thread that is about to look at the latch notices whatever it has deducted.
LEMMA TestingNotices ==
    ASSUME SignalInv, NEW t \in Thread, call'[t].at = "test",
           UNCHANGED <<warnedLow, exhausted, sent>>
    PROVE  SignalInv'
<1>1. WillExhaust(t)' /\ WillWarn(t)'
  BY DEF WillExhaust, WillWarn
<1>2. Announced' = Announced
  BY DEF Announced
<1> QED BY <1>1, <1>2 DEF SignalInv

\* Nothing is forgotten by the end of a call that has nothing to notice any more.
LEMMA NoticeKept ==
    ASSUME SignalInv, NEW t \in Thread, ~WillExhaust(t), ~WillWarn(t),
           \A u \in Thread \ {t} : call'[u] = call[u],
           UNCHANGED <<spent, warnedLow, exhausted, sent>>
    PROVE  SignalInv'
<1>1. \A u \in Thread \ {t} : WillExhaust(u)' = WillExhaust(u) /\ WillWarn(u)' = WillWarn(u)
  BY DEF WillExhaust, WillWarn, Low
<1>2. remaining_epsilon' = remaining_epsilon /\ Announced' = Announced
  BY DEF remaining_epsilon, Announced
<1> QED BY <1>1, <1>2 DEF SignalInv, Low

\* The latch, the reading and the decision of one call.
LEMMA ContinueNotices ==
    ASSUME BudgetTypeOK, SignalInv, NEW t \in Thread, Continue(t)
    PROVE  SignalInv'
<1>1. call \in [Thread -> Call] /\ spent' = spent /\ remaining_epsilon \in 0 .. Total
  BY RemainingType DEF BudgetTypeOK, Continue, TestLatch, ReadRemaining, Decide, accountant
<1>2. remaining_epsilon' = remaining_epsilon
  BY <1>1 DEF remaining_epsilon
<1>3. ASSUME NEW pc, NEW seen, Goto(t, pc, seen)
      PROVE  /\ call'[t].at = pc /\ call'[t].seen = seen
             /\ \A u \in Thread \ {t} : call'[u] = call[u]
  BY <1>1, <1>3 DEF Goto
<1>4. CASE TestLatch(t)
  <2>1. UNCHANGED <<warnedLow, exhausted, sent>>
    BY <1>4 DEF TestLatch, accountant
  <2>2. /\ call'[t].at = (IF exhausted THEN "return" ELSE "read")
        /\ \A u \in Thread \ {t} : call'[u] = call[u]
    BY <1>3, <1>4 DEF TestLatch
  <2>3. CASE exhausted
    <3>1. exhausted' /\ sent["exhausted"] > 0 /\ Announced
      BY <2>1, <2>3 DEF SignalInv, Announced, BudgetTypeOK, Signal
    <3> QED BY <2>1, <3>1 DEF SignalInv, Announced
  <2>4. CASE ~exhausted
    <3>1. WillExhaust(t)' /\ WillWarn(t)' /\ Announced' = Announced
      BY <2>1, <2>2, <2>4 DEF WillExhaust, WillWarn, Announced
    <3> QED BY <2>1, <3>1 DEF SignalInv
  <2> QED BY <2>3, <2>4
<1>5. CASE ReadRemaining(t)
  <2>1. UNCHANGED <<warnedLow, exhausted, sent>>
    BY <1>5 DEF ReadRemaining, accountant
  <2>2. call'[t].at = "decide" /\ call'[t].seen = remaining_epsilon
    BY <1>3, <1>5 DEF ReadRemaining
  <2> QED BY <1>2, <2>1, <2>2 DEF SignalInv, WillExhaust, WillWarn, Announced, Low
<1>6. CASE Decide(t)
  <2>1. call[t].at = "decide" /\ call[t].seen \in 0 .. Total
    BY <1>1, <1>6 DEF Decide, Call
  <2>2. \A u \in Thread \ {t} : call'[u] = call[u]
    BY <1>3, <1>6 DEF Decide
  <2>3. \A s \in Signal : emit(s) => sent'[s] > 0 /\ Announced'
    <3>1. sent \in [Signal -> Nat] /\ "warning" \in Signal /\ "exhausted" \in Signal
      BY DEF BudgetTypeOK, Signal
    <3> QED BY <3>1 DEF emit, Announced, Signal
  <2>4. CASE call[t].seen <= 0
    <3>1. exhausted' /\ sent'["exhausted"] > 0 /\ Announced'
      BY <1>6, <2>3, <2>4 DEF Decide, Signal
    <3> QED BY <3>1 DEF SignalInv
  <2>5. CASE ~(call[t].seen <= 0) /\ ~warnedLow /\ Low(call[t].seen)
    <3>1. Announced' /\ emit("warning") /\ exhausted' = exhausted
      BY <1>6, <2>3, <2>5 DEF Decide, Signal
    <3>2. sent'["exhausted"] = sent["exhausted"]
      BY <3>1 DEF emit, BudgetTypeOK, Signal
    <3>3. ~WillExhaust(t)
      BY <2>1, <2>5 DEF WillExhaust
    <3>4. \A u \in Thread \ {t} : WillExhaust(u)' = WillExhaust(u)
      BY <2>2 DEF WillExhaust
    <3> QED BY <1>2, <3>1, <3>2, <3>3, <3>4 DEF SignalInv
  <2>6. CASE ~(call[t].seen <= 0) /\ ~(~warnedLow /\ Low(call[t].seen))
    <3>1. UNCHANGED <<warnedLow, exhausted, sent>> /\ ~WillExhaust(t)
      BY <1>6, <2>1, <2>6 DEF Decide, WillExhaust
    <3>2. CASE warnedLow
      <4>1. Announced /\ Announced'
        BY <3>1, <3>2 DEF SignalInv, Announced
      <4>2. \A u \in Thread \ {t} : WillExhaust(u)' = WillExhaust(u)
        BY <2>2 DEF WillExhaust
      <4> QED BY <1>2, <3>1, <4>1, <4>2 DEF SignalInv
    <3>3. CASE ~Low(call[t].seen)
      <4>1. ~WillWarn(t)
        BY <2>1, <3>3 DEF WillWarn
      <4> QED BY <1>1, <2>2, <3>1, <4>1, NoticeKept
    <3> QED BY <2>6, <3>2, <3>3
  <2> QED BY <2>4, <2>5, <2>6
<1> QED BY <1>4, <1>5, <1>6 DEF Continue

\* Every step keeps what is known of latches, signals and calls.
THEOREM SignalInvInductive == BudgetTypeOK /\ SignalInv /\ [BudgetNext]_budgetVars => SignalInv'
<1> SUFFICES ASSUME BudgetTypeOK, SignalInv, [BudgetNext]_budgetVars PROVE SignalInv'
  OBVIOUS
<1>0. "heatmap" \in Thread /\ "loop" \in Thread /\ call \in [Thread -> Call]
  BY ThreadsAreTwo DEF BudgetTypeOK
<1>1. CASE ComputeHeatmap
  <2>1. call'["heatmap"].at = "test" /\ UNCHANGED <<warnedLow, exhausted, sent>>
    BY <1>0, <1>1 DEF ComputeHeatmap, deduct
  <2> QED BY <1>0, <2>1, TestingNotices
<1>2. ASSUME NEW epsilon \in QueryEpsilon, QueryDp(epsilon) PROVE SignalInv'
  <2>1. call'["loop"].at = "test" /\ UNCHANGED <<warnedLow, exhausted, sent>>
    BY <1>0, <1>2 DEF QueryDp, deduct
  <2> QED BY <1>0, <2>1, TestingNotices
<1>3. CASE UNCHANGED <<spent, warnedLow, exhausted, call, sent>>
  BY <1>3 DEF SignalInv, WillExhaust, WillWarn, Announced, remaining_epsilon, Low
<1>4. \A t \in Thread : Continue(t) => SignalInv'
  BY ContinueNotices
<1>5. ASSUME NEW t \in Thread, call[t].at = "return", call' = [call EXCEPT ![t] = Idle],
             UNCHANGED <<spent, warnedLow, exhausted, sent>>
      PROVE  SignalInv'
  <2>1. ~WillExhaust(t) /\ ~WillWarn(t)
    BY <1>5 DEF WillExhaust, WillWarn
  <2>2. \A u \in Thread \ {t} : call'[u] = call[u]
    BY <1>0, <1>5
  <2> QED BY <1>5, <2>1, <2>2, NoticeKept
<1>6. PublishHeatmap \/ AnswerQuery => SignalInv'
  BY <1>0, <1>5 DEF PublishHeatmap, AnswerQuery, accountant
<1>7. \A s \in Signal : Deliver(s) => UNCHANGED <<spent, warnedLow, exhausted, call, sent>>
  BY DEF Deliver, accountant
<1>8. \A flag \in BOOLEAN : PauseDp(flag) => UNCHANGED <<spent, warnedLow, exhausted, call, sent>>
  BY DEF PauseDp, accountant
<1>9. UNCHANGED budgetVars => UNCHANGED <<spent, warnedLow, exhausted, call, sent>>
  BY DEF budgetVars, accountant
<1> QED BY <1>1, <1>2, <1>3, <1>4, <1>6, <1>7, <1>8, <1>9 DEF BudgetNext

\* Whatever the two threads read of each other's spending, a budget that is used up, or nearly, has
\* been announced by the time both are idle: no interleaving of _maybe_signal swallows a signal.
THEOREM LowBudgetAnnouncedHolds == BudgetSpec => []LowBudgetAnnounced
<1>1. BudgetInit => SignalInv
  <2> SUFFICES ASSUME BudgetInit PROVE SignalInv
    OBVIOUS
  <2>1. remaining_epsilon = Total /\ Total # 0 /\ ~Low(Total)
    BY BudgetAssumption DEF BudgetInit, remaining_epsilon, Low
  <2> QED BY <2>1 DEF BudgetInit, SignalInv
<1>2. SignalInv => LowBudgetAnnounced
  BY DEF SignalInv, LowBudgetAnnounced, WillExhaust, WillWarn, Announced
<1> QED BY <1>1, <1>2, BudgetTypeCorrect, SignalInvInductive, PTL DEF BudgetSpec

----------------------------------------------------------------------------
(* Places in the queue, and the n-th of a set of numbers.                  *)

\* A finite set of numbers has an element that exactly so many of its numbers are less than.
LEMMA NthExists ==
    ASSUME NEW S \in SUBSET Nat, IsFiniteSet(S), NEW i \in Nat, i < Cardinality(S)
    PROVE  Nth(S, i) \in S /\ Cardinality({m \in S : m < Nth(S, i)}) = i
<1> DEFINE Below(n) == {m \in S : m < n}
           Q == {k \in Nat : k < Cardinality(S) => \E n \in S : Cardinality(Below(n)) = k}
<1>0. Cardinality(S) \in Nat
  BY FS_CardinalityType
<1>1. 0 \in Q
  <2> SUFFICES ASSUME 0 < Cardinality(S) PROVE \E n \in S : Cardinality(Below(n)) = 0
    OBVIOUS
  <2>1. S # {}
    BY FS_EmptySet
  <2>2. PICK n \in S : \A m \in S : n <= m
    BY <2>1, LeastNatural
  <2>3. Below(n) = {}
    <3>1. n \in Nat /\ \A m \in S : m \in Nat /\ n <= m
      BY <2>2
    <3>2. \A m \in S : ~(m < n)
      BY <3>1
    <3> QED
      BY <3>2
  <2> QED
    BY <2>3, FS_EmptySet
<1>2. ASSUME NEW k \in Nat, k \in Q
      PROVE  k + 1 \in Q
  <2> SUFFICES ASSUME k + 1 < Cardinality(S) PROVE \E n \in S : Cardinality(Below(n)) = k + 1
    OBVIOUS
  <2>1. PICK n \in S : Cardinality(Below(n)) = k
    BY <1>0, <1>2
  <2> DEFINE B == Below(n)
             above == S \ (B \cup {n})
  <2>2. IsFiniteSet(B) /\ n \notin B /\ B \subseteq S
    BY FS_Subset
  <2> HIDE DEF B
  <2>3. IsFiniteSet(B \cup {n}) /\ Cardinality(B \cup {n}) = k + 1
    BY <2>1, <2>2, FS_AddElement DEF B
  <2>4. above # {}
    <3>1. above = {} => B \cup {n} = S
      BY <2>2
    <3> QED
      BY <2>3, <3>1
  <2>5. above \subseteq S /\ above \subseteq Nat
    OBVIOUS
  <2>6. PICK next \in above : \A m \in above : next <= m
    <3> HIDE DEF above
    <3> QED
      BY <2>4, <2>5, LeastNatural
  <2>7. Below(next) = B \cup {n}
    <3>1. next \in Nat /\ n \in Nat /\ next \notin B /\ next # n /\ next \in S
      BY <2>6
    <3>2. n < next
      BY <3>1 DEF B
    <3>3. \A m \in S : m < next <=> m \in B \cup {n}
      <4> TAKE m \in S
      <4>1. m \in Nat /\ (m \in B <=> m < n)
        BY DEF B
      <4>2. m \notin B \cup {n} => next <= m
        BY <2>6
      <4> QED
        BY <3>1, <3>2, <4>1, <4>2
    <3> QED
      BY <2>2, <3>3
  <2> QED
    BY <2>3, <2>5, <2>6, <2>7
<1> HIDE DEF Q
<1>3. Nat \subseteq Q
  BY <1>1, <1>2, SetInduction
<1>4. \E n \in S : Cardinality({m \in S : m < n}) = i
  BY <1>3 DEF Q
<1> QED
  BY <1>4 DEF Nth


----------------------------------------------------------------------------
(* The operator's actions                                                  *)

\* The numbers up to n are n.
LEMMA UpToN ==
    ASSUME NEW n \in Nat
    PROVE  IsFiniteSet(1 .. n) /\ Cardinality(1 .. n) = n
<1>1. 1 \in Int /\ n \in Int
  OBVIOUS
<1>2. IsFiniteSet(1 .. n) /\ Cardinality(1 .. n) = IF 1 > n THEN 0 ELSE n - 1 + 1
  BY <1>1, FS_Interval
<1> QED
  BY <1>2

\* The places of a set of numbers are in order, and every element has one.
LEMMA PlacesAre ==
    ASSUME NEW S \in SUBSET Nat, IsFiniteSet(S)
    PROVE  /\ Cardinality(S) \in Nat
           /\ \A k \in 1 .. Cardinality(S) : Nth(S, k - 1) \in S
           /\ \A k, l \in 1 .. Cardinality(S) : k < l => Nth(S, k - 1) < Nth(S, l - 1)
           /\ \A n \in S : \E k \in 1 .. Cardinality(S) : Nth(S, k - 1) = n
<1> DEFINE Below(n) == {m \in S : m < n}
<1>1. Cardinality(S) \in Nat
  BY FS_CardinalityType
<1>2. ASSUME NEW n \in S
      PROVE  /\ IsFiniteSet(Below(n)) /\ Cardinality(Below(n)) \in Nat
             /\ Cardinality(Below(n)) < Cardinality(S)
  <2>1. Below(n) \in SUBSET S /\ n \notin Below(n)
    OBVIOUS
  <2> HIDE DEF Below
  <2>2. /\ IsFiniteSet(Below(n)) /\ Cardinality(Below(n)) <= Cardinality(S)
        /\ Cardinality(S) = Cardinality(Below(n)) => S = Below(n)
    BY <2>1, FS_Subset
  <2>3. Cardinality(Below(n)) \in Nat /\ S # Below(n)
    BY <1>2, <2>1, <2>2, FS_CardinalityType
  <2> QED
    BY <1>1, <2>2, <2>3
<1>3. ASSUME NEW m \in S, NEW n \in S, m < n
      PROVE  Cardinality(Below(m)) < Cardinality(Below(n))
  <2>1. m \in Nat /\ n \in Nat
    OBVIOUS
  <2>2. Below(m) \in SUBSET Below(n) /\ m \in Below(n) /\ m \notin Below(m)
    <3>1. \A j \in S : j \in Nat /\ (j < m => j < n)
      BY <1>3, <2>1
    <3>2. m < n /\ ~(m < m)
      BY <1>3, <2>1
    <3>3. m \in Below(n) /\ m \notin Below(m)
      BY <3>2
    <3>4. \A j \in Below(m) : j \in Below(n)
      BY <3>1
    <3> QED
      BY <3>3, <3>4
  <2>3. IsFiniteSet(Below(n)) /\ Cardinality(Below(m)) \in Nat /\ Cardinality(Below(n)) \in Nat
    BY <1>2
  <2> HIDE DEF Below
  <2>4. /\ Cardinality(Below(m)) <= Cardinality(Below(n))
        /\ Cardinality(Below(n)) = Cardinality(Below(m)) => Below(n) = Below(m)
    BY <2>2, <2>3, FS_Subset
  <2> QED
    BY <2>2, <2>3, <2>4
<1>4. ASSUME NEW k \in 1 .. Cardinality(S)
      PROVE  Nth(S, k - 1) \in S /\ Cardinality(Below(Nth(S, k - 1))) = k - 1
  <2>1. k - 1 \in Nat /\ k - 1 < Cardinality(S)
    BY <1>1
  <2> QED
    BY <2>1, NthExists
<1>5. ASSUME NEW m \in S, NEW n \in S, Cardinality(Below(m)) = Cardinality(Below(n))
      PROVE  m = n
  <2>1. m \in Nat /\ n \in Nat /\ Cardinality(Below(m)) \in Nat
    BY <1>2
  <2>2. ~(m < n) /\ ~(n < m)
    <3> HIDE DEF Below
    <3> QED
      BY <1>3, <1>5, <2>1
  <2> QED
    BY <2>1, <2>2
<1>6. ASSUME NEW k \in 1 .. Cardinality(S), NEW l \in 1 .. Cardinality(S), k < l
      PROVE  Nth(S, k - 1) < Nth(S, l - 1)
  <2> DEFINE m == Nth(S, k - 1)
             n == Nth(S, l - 1)
  <2>1. /\ m \in S /\ n \in S /\ Cardinality(Below(m)) = k - 1 /\ Cardinality(Below(n)) = l - 1
        /\ k \in Int /\ l \in Int
    BY <1>1, <1>4
  <2> HIDE DEF m, n, Below
  <2>2. m # n /\ ~(n < m)
    BY <1>3, <1>6, <2>1
  <2>3. m \in Nat /\ n \in Nat
    BY <2>1
  <2> QED
    BY <2>2, <2>3 DEF m, n
<1>7. ASSUME NEW n \in S
      PROVE  \E k \in 1 .. Cardinality(S) : Nth(S, k - 1) = n
  <2> DEFINE k == Cardinality(Below(n)) + 1
  <2>1. k \in 1 .. Cardinality(S) /\ Cardinality(Below(n)) = k - 1
    BY <1>1, <1>2
  <2>2. Nth(S, k - 1) \in S /\ Cardinality(Below(Nth(S, k - 1))) = k - 1
    BY <1>4, <2>1
  <2>3. Nth(S, k - 1) = n
    <3> HIDE DEF Below, k
    <3> QED
      BY <1>5, <2>1, <2>2
  <2> QED
    BY <2>1, <2>3
<1> HIDE DEF Below
<1> QED
  BY <1>1, <1>4, <1>6, <1>7

\* What is picked out of a sequence.
LEMMA Picks ==
    ASSUME NEW T, NEW seq \in Seq(T), NEW S \in SUBSET DOMAIN seq
    PROVE  /\ AtPlaces(seq, S) \in Seq(T) /\ Len(AtPlaces(seq, S)) = Cardinality(S)
           /\ Cardinality(S) \in Nat /\ Cardinality(S) <= Len(seq)
           /\ \A k \in DOMAIN AtPlaces(seq, S) : Nth(S, k - 1) \in S /\ AtPlaces(seq, S)[k] = seq[Nth(S, k - 1)]
           /\ \A k, l \in DOMAIN AtPlaces(seq, S) : k < l => Nth(S, k - 1) < Nth(S, l - 1)
           /\ \A n \in S : \E k \in DOMAIN AtPlaces(seq, S) : Nth(S, k - 1) = n
<1>1. DOMAIN seq = 1 .. Len(seq) /\ Len(seq) \in Nat /\ IsFiniteSet(DOMAIN seq)
      /\ Cardinality(DOMAIN seq) = Len(seq)
  <2>1. DOMAIN seq = 1 .. Len(seq) /\ Len(seq) \in Nat
    OBVIOUS
  <2>2. IsFiniteSet(1 .. Len(seq)) /\ Cardinality(1 .. Len(seq)) = Len(seq)
    BY <2>1, UpToN
  <2> QED
    BY <2>1, <2>2
<1>2. IsFiniteSet(S) /\ Cardinality(S) <= Len(seq) /\ S \in SUBSET Nat
  BY <1>1, FS_Subset
<1>3. /\ Cardinality(S) \in Nat
      /\ \A k \in 1 .. Cardinality(S) : Nth(S, k - 1) \in S
      /\ \A k, l \in 1 .. Cardinality(S) : k < l => Nth(S, k - 1) < Nth(S, l - 1)
      /\ \A n \in S : \E k \in 1 .. Cardinality(S) : Nth(S, k - 1) = n
  BY <1>2, PlacesAre
<1>4. \A n \in S : seq[n] \in T
  BY <1>1
<1> DEFINE some == AtPlaces(seq, S)
<1>5. some = [k \in 1 .. Cardinality(S) |-> seq[Nth(S, k - 1)]]
  BY DEF AtPlaces
<1>6. some \in [1 .. Cardinality(S) -> T]
  BY <1>3, <1>4, <1>5
<1>7. some \in Seq(T) /\ Len(some) = Cardinality(S) /\ DOMAIN some = 1 .. Cardinality(S)
  <2> DEFINE n == Cardinality(S)
  <2>1. n \in Nat /\ some \in [1 .. n -> T]
    BY <1>3, <1>6
  <2> HIDE DEF some, n
  <2>2. some \in Seq(T) /\ Len(some) = n
    BY <2>1
  <2> QED
    BY <2>1, <2>2 DEF n
<1>8. \A k \in DOMAIN some : some[k] = seq[Nth(S, k - 1)]
  <2> HIDE DEF some
  <2> QED
    BY <1>5, <1>7
<1> HIDE DEF some
<1>9. some = AtPlaces(seq, S)
  BY DEF some
<1> QED
  BY <1>2, <1>3, <1>7, <1>8, <1>9

\* What is picked and what is left are together all there was.
LEMMA PicksAreAll ==
    ASSUME NEW T, NEW seq \in Seq(T), NEW S \in SUBSET DOMAIN seq
    PROVE  Len(AtPlaces(seq, S)) + Len(AtPlaces(seq, DOMAIN seq \ S)) = Len(seq)
<1> DEFINE R == DOMAIN seq \ S
<1>1. /\ Len(AtPlaces(seq, S)) = Cardinality(S) /\ Len(AtPlaces(seq, R)) = Cardinality(R)
      /\ Cardinality(S) \in Nat /\ Cardinality(R) \in Nat
  BY Picks
<1>2. DOMAIN seq = 1 .. Len(seq) /\ Len(seq) \in Nat
  OBVIOUS
<1>3. IsFiniteSet(1 .. Len(seq)) /\ Cardinality(1 .. Len(seq)) = Len(seq)
  BY <1>2, UpToN
<1>4. IsFiniteSet(S) /\ IsFiniteSet(R)
  BY <1>2, <1>3, FS_Subset
<1>5. S \cap R = {} /\ S \cup R = DOMAIN seq
  OBVIOUS
<1> HIDE DEF R
<1>6. Cardinality(S \cup R) = Cardinality(S) + Cardinality(R) - Cardinality(S \cap R)
  BY <1>4, FS_Union
<1>7. Cardinality(S \cap R) = 0
  BY <1>5, FS_EmptySet
<1>8. Cardinality(S \cup R) = Len(seq)
  <2>1. S \cup R = 1 .. Len(seq)
    BY <1>2, <1>5
  <2> QED
    BY <1>3, <2>1
<1>9. Len(AtPlaces(seq, S)) + Len(AtPlaces(seq, R)) = Len(seq)
  BY <1>1, <1>2, <1>6, <1>7, <1>8
<1> QED
  BY <1>9 DEF R

Submittable == Requests \cup Scheduled
Args == {a.arg : a \in Submittable}
Entry == [seq : Nat, submit : Nat, target : Nat, action : Submittable]
Posture == [k_anonymity : Args \cup {0}, dp_paused : BOOLEAN, krum_f : Args \cup {-1},
            key_rotations : Nat]
Attachment == [attached : BOOLEAN, trainer : Nat, defences : Posture, position : Args \cup {0},
               released : Nat]
Code == {"ok", "refused", "budget_exhausted", "bad_payload", "no_trainer", "unknown_kind"}
Outcome == {<<>>} \cup [code : Code, shown : Args \cup Nat]
DrainState == [ctx : Attachment, key : Nat, krum : Seq(Args \cup {-1}), result : Outcome]

\* The trainer of a context exists, and a Krum defence that is reported is its own.
KrumIsSet(ctx, krum) ==
    /\ ctx.trainer <= Len(krum)
    /\ ctx.defences.krum_f >= 0 => ctx.trainer \in DOMAIN krum /\ krum[ctx.trainer] = ctx.defences.krum_f

\* What an action does to a drain.
ActionDone(s, a, u) ==
    /\ u \in DrainState
    /\ u.ctx.trainer = s.ctx.trainer /\ u.ctx.attached = s.ctx.attached /\ Len(u.krum) = Len(s.krum)
    /\ KrumIsSet(s.ctx, s.krum) => KrumIsSet(u.ctx, u.krum)
    /\ u.ctx.defences.dp_paused <=>
         (a.kind = "defense_pause_dp" \/ (s.ctx.defences.dp_paused /\ a.kind # "defense_resume_dp"))
    /\ s.ctx.defences.dp_paused => u.ctx.released = s.ctx.released
    /\ u.ctx.defences.key_rotations = s.ctx.defences.key_rotations
         + (IF a.kind = "defense_rotate_keys" THEN 1 ELSE 0)
    /\ u.key = s.key + (IF a.kind = "defense_rotate_keys" THEN 1 ELSE 0)
    /\ u.result # <<>> /\ (a.kind = "sign" => u.result.shown = s.key)

\* The fields of a state of a drain.
LEMMA DrainFields ==
    ASSUME NEW s \in DrainState
    PROVE  /\ s.ctx \in Attachment /\ s.key \in Nat /\ s.krum \in Seq(Args \cup {-1}) /\ s.result \in Outcome
           /\ s.ctx.defences \in Posture /\ s.ctx.trainer \in Nat /\ s.ctx.released \in Nat
           /\ s.ctx.attached \in BOOLEAN /\ s.ctx.position \in Args \cup {0}
           /\ s.ctx.defences.dp_paused \in BOOLEAN /\ s.ctx.defences.krum_f \in Args \cup {-1}
           /\ s.ctx.defences.key_rotations \in Nat /\ s.ctx.defences.k_anonymity \in Args \cup {0}
<1>1. s.ctx \in Attachment /\ s.key \in Nat /\ s.krum \in Seq(Args \cup {-1}) /\ s.result \in Outcome
  BY DEF DrainState
<1>2. s.ctx.defences \in Posture /\ s.ctx.trainer \in Nat /\ s.ctx.released \in Nat
      /\ s.ctx.attached \in BOOLEAN /\ s.ctx.position \in Args \cup {0}
  BY <1>1 DEF Attachment
<1>3. /\ s.ctx.defences.dp_paused \in BOOLEAN /\ s.ctx.defences.krum_f \in Args \cup {-1}
      /\ s.ctx.defences.key_rotations \in Nat /\ s.ctx.defences.k_anonymity \in Args \cup {0}
  BY <1>2 DEF Posture
<1> QED
  BY <1>1, <1>2, <1>3

\* What a result is and what it leaves alone.
LEMMA ResultIs ==
    ASSUME NEW s \in DrainState, NEW a, a.arg \in Args \cup Nat, NEW code \in Code
    PROVE  /\ Result(s, a, code) \in DrainState
           /\ Result(s, a, code).ctx = s.ctx /\ Result(s, a, code).key = s.key
           /\ Result(s, a, code).krum = s.krum
           /\ Result(s, a, code).result # <<>> /\ Result(s, a, code).result.shown = a.arg
<1> DEFINE r == [code |-> code, shown |-> a.arg]
           u == Result(s, a, code)
<1>1. r \in Outcome /\ r.shown = a.arg
  BY DEF Outcome
<1>2. r # <<>>
  <2>1. DOMAIN r = {"code", "shown"} /\ DOMAIN <<>> = 1 .. 0
    OBVIOUS
  <2>2. 1 .. 0 = {}
    OBVIOUS
  <2> QED BY <2>1, <2>2
<1>3. u = [s EXCEPT !.result = r]
  BY DEF Result
<1> HIDE DEF r, u
<1>4. u \in DrainState /\ u.ctx = s.ctx /\ u.key = s.key /\ u.krum = s.krum /\ u.result = r
  BY <1>1, <1>3 DEF DrainState
<1> QED
  BY <1>1, <1>2, <1>4 DEF u

\* Nothing but the result.
LEMMA OnlyResult ==
    ASSUME NEW s \in DrainState, NEW a, NEW b, b.arg \in Args \cup Nat, NEW code \in Code,
           a.kind # "defense_pause_dp", a.kind # "defense_resume_dp", a.kind # "defense_rotate_keys",
           a.kind = "sign" => b.arg = s.key
    PROVE  ActionDone(s, a, Result(s, b, code))
<1> DEFINE u == Result(s, b, code)
<1>1. u \in DrainState /\ u.ctx = s.ctx /\ u.key = s.key /\ u.krum = s.krum /\ u.result # <<>> /\ u.result.shown = b.arg
  BY ResultIs
<1>2. s.key \in Nat /\ s.ctx.defences.key_rotations \in Nat /\ s.ctx.defences.dp_paused \in BOOLEAN
  BY DrainFields
<1> HIDE DEF u
<1>3. ActionDone(s, a, u)
  BY <1>1, <1>2 DEF ActionDone
<1> QED
  BY <1>3 DEF u

\* A state of a drain with another context, key and trainers; a context with other defences, another
\* place and another number of releases.
StateWith(s, c, k, krum) == [s EXCEPT !.ctx = c, !.key = k, !.krum = krum]
ContextWith(s, d, at, n) == [s.ctx EXCEPT !.defences = d, !.position = at, !.released = n]

\* The context changes, and the result says so.
LEMMA ContextChanged ==
    ASSUME NEW s \in DrainState, NEW a, a.arg \in Args \cup Nat, a.kind # "sign", NEW code \in Code,
           NEW c \in Attachment, NEW k \in Nat, NEW krum \in Seq(Args \cup {-1}), Len(krum) = Len(s.krum),
           c.trainer = s.ctx.trainer, c.attached = s.ctx.attached,
           KrumIsSet(s.ctx, s.krum) => KrumIsSet(c, krum),
           c.defences.dp_paused <=>
             (a.kind = "defense_pause_dp" \/ (s.ctx.defences.dp_paused /\ a.kind # "defense_resume_dp")),
           s.ctx.defences.dp_paused => c.released = s.ctx.released,
           c.defences.key_rotations = s.ctx.defences.key_rotations
             + (IF a.kind = "defense_rotate_keys" THEN 1 ELSE 0),
           k = s.key + (IF a.kind = "defense_rotate_keys" THEN 1 ELSE 0)
    PROVE  ActionDone(s, a, Result(StateWith(s, c, k, krum), a, code))
<1> DEFINE t == StateWith(s, c, k, krum)
           u == Result(t, a, code)
<1>1. t \in DrainState /\ t.ctx = c /\ t.key = k /\ t.krum = krum
  BY DEF DrainState, StateWith
<1> HIDE DEF t
<1>2. u \in DrainState /\ u.ctx = c /\ u.key = k /\ u.krum = krum /\ u.result # <<>>
  BY <1>1, ResultIs
<1> HIDE DEF u
<1>3. ActionDone(s, a, u)
  BY <1>2 DEF ActionDone
<1> QED
  BY <1>3 DEF t, u

\* A context with other defences, another place or another release.
LEMMA ContextFields ==
    ASSUME NEW s \in DrainState, NEW d \in Posture, NEW at \in Args \cup {0}, NEW n \in Nat
    PROVE  /\ ContextWith(s, d, at, n) \in Attachment
           /\ ContextWith(s, d, at, n).trainer = s.ctx.trainer
           /\ ContextWith(s, d, at, n).attached = s.ctx.attached
           /\ ContextWith(s, d, at, n).defences = d /\ ContextWith(s, d, at, n).released = n
<1>1. s.ctx \in Attachment
  BY DrainFields
<1> QED
  BY <1>1 DEF Attachment, ContextWith

\* A state is rebuilt from its parts, whichever of them change.
LEMMA StateParts ==
    ASSUME NEW s \in DrainState
    PROVE  /\ \A c : [s EXCEPT !.ctx = c] = StateWith(s, c, s.key, s.krum)
           /\ \A c, k : [s EXCEPT !.ctx = c, !.key = k] = StateWith(s, c, k, s.krum)
           /\ \A c, f : [s EXCEPT !.ctx = c, !.krum = f] = StateWith(s, c, s.key, f)
           /\ \A at : [s.ctx EXCEPT !.position = at]
                        = ContextWith(s, s.ctx.defences, at, s.ctx.released)
           /\ \A d : [s.ctx EXCEPT !.defences = d]
                       = ContextWith(s, d, s.ctx.position, s.ctx.released)
           /\ \A n : [s.ctx EXCEPT !.released = n]
                       = ContextWith(s, s.ctx.defences, s.ctx.position, n)
<1>1. s.ctx \in Attachment
  BY DrainFields
<1>2. /\ \A c : [s EXCEPT !.ctx = c] = StateWith(s, c, s.key, s.krum)
      /\ \A c, k : [s EXCEPT !.ctx = c, !.key = k] = StateWith(s, c, k, s.krum)
      /\ \A c, f : [s EXCEPT !.ctx = c, !.krum = f] = StateWith(s, c, s.key, f)
  BY DEF DrainState, StateWith
<1> QED
  BY <1>1, <1>2 DEF Attachment, ContextWith

\* A context with other defences.
LEMMA OtherDefences ==
    ASSUME NEW s \in DrainState, NEW d \in Posture,
           NEW c, c = ContextWith(s, d, s.ctx.position, s.ctx.released)
    PROVE  /\ c \in Attachment /\ c.trainer = s.ctx.trainer /\ c.attached = s.ctx.attached
           /\ c.defences = d /\ c.released = s.ctx.released
<1>1. s.ctx.position \in Args \cup {0} /\ s.ctx.released \in Nat
  BY DrainFields
<1> QED
  BY <1>1, ContextFields

\* A place of a sequence gets another element.
WithPlace(f, t, v) == [f EXCEPT ![t] = v]

\* What a function whose value at one place is changed is, there and elsewhere.
LEMMA PlaceChanged ==
    ASSUME NEW T, NEW f \in Seq(T), NEW t, NEW v \in T
    PROVE  /\ WithPlace(f, t, v) \in Seq(T) /\ Len(WithPlace(f, t, v)) = Len(f)
           /\ DOMAIN WithPlace(f, t, v) = DOMAIN f
           /\ t \in DOMAIN f => WithPlace(f, t, v)[t] = v
<1> DEFINE g == WithPlace(f, t, v)
<1>1. Len(f) \in Nat /\ f \in [1 .. Len(f) -> T] /\ DOMAIN f = 1 .. Len(f)
  OBVIOUS
<1>2. g \in [1 .. Len(f) -> T] /\ DOMAIN g = 1 .. Len(f) /\ (t \in DOMAIN f => g[t] = v)
  BY <1>1 DEF WithPlace
<1> HIDE DEF g
<1>3. g \in Seq(T) /\ Len(g) = Len(f)
  <2> DEFINE n == Len(f)
  <2>1. n \in Nat /\ g \in [1 .. n -> T]
    BY <1>1, <1>2
  <2> HIDE DEF n
  <2>2. g \in Seq(T) /\ Len(g) = n
    BY <2>1
  <2> QED
    BY <2>2 DEF n
<1> QED
  BY <1>1, <1>2, <1>3 DEF g

\* The defences that an action sets; the key and the trainers may go along.
LEMMA DefencesChanged ==
    ASSUME NEW s \in DrainState, NEW a, a.arg \in Args \cup Nat, a.kind # "sign", NEW code \in Code,
           NEW d \in Posture, NEW k \in Nat, NEW krum \in Seq(Args \cup {-1}), Len(krum) = Len(s.krum),
           NEW c, c = ContextWith(s, d, s.ctx.position, s.ctx.released),
           KrumIsSet(s.ctx, s.krum) => KrumIsSet(c, krum),
           d.dp_paused <=>
             (a.kind = "defense_pause_dp" \/ (s.ctx.defences.dp_paused /\ a.kind # "defense_resume_dp")),
           d.key_rotations = s.ctx.defences.key_rotations
             + (IF a.kind = "defense_rotate_keys" THEN 1 ELSE 0),
           k = s.key + (IF a.kind = "defense_rotate_keys" THEN 1 ELSE 0)
    PROVE  ActionDone(s, a, Result(StateWith(s, c, k, krum), a, code))
<1>1. /\ c \in Attachment /\ c.trainer = s.ctx.trainer /\ c.attached = s.ctx.attached
      /\ c.defences = d /\ c.released = s.ctx.released
  BY OtherDefences
<1> QED
  BY <1>1, ContextChanged

\* Every handler does what an action may do.
LEMMA HandleDone ==
    ASSUME NEW s \in DrainState, NEW a \in Submittable
    PROVE  ActionDone(s, a, Handle(s, a))
<1>0. a.arg \in Args /\ a.arg \in Args \cup Nat
  BY DEF Args
<1>00. /\ s.ctx \in Attachment /\ s.key \in Nat /\ s.krum \in Seq(Args \cup {-1})
       /\ s.ctx.defences \in Posture /\ s.ctx.released \in Nat /\ s.ctx.defences.dp_paused \in BOOLEAN
       /\ s.ctx.position \in Args \cup {0} /\ s.ctx.trainer \in Nat
       /\ s.ctx.defences.key_rotations \in Nat
  BY DrainFields
<1> DEFINE D == s.ctx.defences
<1>1. CASE a.kind = "move"
  <2> DEFINE c == [s.ctx EXCEPT !.position = a.arg]
  <2>1. c = ContextWith(s, D, a.arg, s.ctx.released)
    BY StateParts
  <2>2. c \in Attachment /\ c.trainer = s.ctx.trainer /\ c.attached = s.ctx.attached
        /\ c.defences = D /\ c.released = s.ctx.released
    BY <1>0, <1>00, <2>1, ContextFields
  <2>3. Handle(s, a) = Result([s EXCEPT !.ctx = c], a, "ok")
    BY <1>1 DEF Handle
  <2>4. Handle(s, a) = Result(StateWith(s, c, s.key, s.krum), a, "ok")
    BY <2>3, StateParts
  <2> HIDE DEF c
  <2>5. KrumIsSet(s.ctx, s.krum) => KrumIsSet(c, s.krum)
    BY <2>2 DEF KrumIsSet
  <2>6. c.defences.dp_paused <=>
          (a.kind = "defense_pause_dp" \/ (s.ctx.defences.dp_paused /\ a.kind # "defense_resume_dp"))
    BY <1>1, <2>2
  <2>7. /\ c.defences.key_rotations = s.ctx.defences.key_rotations
              + (IF a.kind = "defense_rotate_keys" THEN 1 ELSE 0)
        /\ s.key = s.key + (IF a.kind = "defense_rotate_keys" THEN 1 ELSE 0)
        /\ a.kind # "sign" /\ "ok" \in Code
    BY <1>00, <1>1, <2>2 DEF Code
  <2>8. ActionDone(s, a, Result(StateWith(s, c, s.key, s.krum), a, "ok"))
    BY <1>0, <1>00, <2>2, <2>5, <2>6, <2>7, ContextChanged
  <2> QED
    BY <2>4, <2>8
<1>2. CASE a.kind = "query_dp"
  <2>1. Handle(s, a) = HandleQuery(s, a)
    BY <1>2 DEF Handle
  <2>2. CASE QueryRefused(s, a) \/ s.ctx.released >= Budget
    <3>1. \E code \in {"refused", "budget_exhausted"} : Handle(s, a) = Result(s, a, code)
      BY <2>1, <2>2 DEF HandleQuery, Refuse
    <3> QED
      BY <1>0, <1>2, <3>1, OnlyResult DEF Code
  <2>3. CASE ~(QueryRefused(s, a) \/ s.ctx.released >= Budget)
    <3> DEFINE n == s.ctx.released + 1
               c == [s.ctx EXCEPT !.released = n]
    <3>1. c = ContextWith(s, D, s.ctx.position, n)
      BY StateParts
    <3>2. c \in Attachment /\ c.trainer = s.ctx.trainer /\ c.attached = s.ctx.attached /\ c.defences = D
      <4>1. n \in Nat
        BY <1>00
      <4> HIDE DEF n
      <4> QED
        BY <1>00, <3>1, <4>1, ContextFields
    <3>3. Handle(s, a) = Result([s EXCEPT !.ctx = c], a, "ok")
      BY <2>1, <2>3 DEF HandleQuery
    <3>4. Handle(s, a) = Result(StateWith(s, c, s.key, s.krum), a, "ok")
      BY <3>3, StateParts
    <3>5. ~s.ctx.defences.dp_paused
      BY <2>3 DEF QueryRefused
    <3> HIDE DEF c
    <3>6. KrumIsSet(s.ctx, s.krum) => KrumIsSet(c, s.krum)
      BY <3>2 DEF KrumIsSet
    <3>7. c.defences.dp_paused <=>
            (a.kind = "defense_pause_dp" \/ (s.ctx.defences.dp_paused /\ a.kind # "defense_resume_dp"))
      BY <1>2, <3>2
    <3>8. /\ c.defences.key_rotations = s.ctx.defences.key_rotations
                + (IF a.kind = "defense_rotate_keys" THEN 1 ELSE 0)
          /\ s.key = s.key + (IF a.kind = "defense_rotate_keys" THEN 1 ELSE 0)
          /\ a.kind # "sign" /\ "ok" \in Code
      BY <1>00, <1>2, <3>2 DEF Code
    <3>9. ActionDone(s, a, Result(StateWith(s, c, s.key, s.krum), a, "ok"))
      BY <1>0, <1>00, <3>2, <3>5, <3>6, <3>7, <3>8, ContextChanged
    <3> QED
      BY <3>4, <3>9
  <2> QED
    BY <2>2, <2>3
<1>3. CASE a.kind = "sign"
  <2> DEFINE b == [a EXCEPT !.arg = s.key]
  <2>1. Handle(s, a) = Result(s, b, "ok")
    BY <1>3 DEF Handle, HandleSign
  <2>2. b.arg = s.key
    <3>1. "arg" \in DOMAIN a
      BY OperatorActionsAssumption DEF Submittable
    <3> QED
      BY <3>1
  <2> HIDE DEF b
  <2> QED
    BY <1>00, <1>3, <2>1, <2>2, OnlyResult DEF Code
<1>4. CASE a.kind = "attack_byzantine"
  <2>1. \E code \in {"bad_payload", "ok"} : Handle(s, a) = Result(s, a, code)
    BY <1>4 DEF Handle, HandleAttack, Refuse
  <2> QED
    BY <1>0, <1>4, <2>1, OnlyResult DEF Code
<1>5. CASE a.kind = "defense_k_anonymity"
  <2>1. CASE a.arg < 1
    <3>1. Handle(s, a) = Result(s, a, "bad_payload")
      BY <1>5, <2>1 DEF Handle, HandlePolicy, Refuse
    <3> QED
      BY <1>0, <1>5, <3>1, OnlyResult DEF Code
  <2>2. CASE ~(a.arg < 1)
    <3> DEFINE d == [D EXCEPT !.k_anonymity = a.arg]
               c == [s.ctx EXCEPT !.defences = d]
    <3>1. Handle(s, a) = Result([s EXCEPT !.ctx = c], a, "ok")
      BY <1>5, <2>2 DEF Handle, HandlePolicy
    <3>2. Handle(s, a) = Result(StateWith(s, c, s.key, s.krum), a, "ok")
      BY <3>1, StateParts
    <3>3. d \in Posture /\ d.dp_paused = D.dp_paused /\ d.key_rotations = D.key_rotations /\ d.krum_f = D.krum_f
      BY <1>0, <1>00 DEF Posture
    <3> HIDE DEF d
    <3>4. c.trainer = s.ctx.trainer /\ c.defences = d
      BY <1>00 DEF Attachment
    <3>5. KrumIsSet(s.ctx, s.krum) => KrumIsSet(c, s.krum)
      BY <3>3, <3>4 DEF KrumIsSet
    <3>6. c = ContextWith(s, d, s.ctx.position, s.ctx.released)
      BY StateParts
    <3> HIDE DEF c
    <3>7. d.dp_paused <=>
            (a.kind = "defense_pause_dp" \/ (s.ctx.defences.dp_paused /\ a.kind # "defense_resume_dp"))
      BY <1>5, <3>3
    <3>8. /\ d.key_rotations = s.ctx.defences.key_rotations
                + (IF a.kind = "defense_rotate_keys" THEN 1 ELSE 0)
          /\ s.key = s.key + (IF a.kind = "defense_rotate_keys" THEN 1 ELSE 0)
          /\ a.kind # "sign" /\ "ok" \in Code
      BY <1>00, <1>5, <3>3 DEF Code
    <3>9. ActionDone(s, a, Result(StateWith(s, c, s.key, s.krum), a, "ok"))
      BY <1>0, <1>00, <3>3, <3>5, <3>6, <3>7, <3>8, DefencesChanged
    <3> QED
      BY <3>2, <3>9
  <2> QED
    BY <2>1, <2>2
<1>6. CASE a.kind = "defense_pause_dp" \/ a.kind = "defense_resume_dp"
  <2> DEFINE p == a.kind = "defense_pause_dp"
             d == [D EXCEPT !.dp_paused = p]
             c == [s.ctx EXCEPT !.defences = d]
  <2>1. Handle(s, a) = Result([s EXCEPT !.ctx = c], a, "ok")
    <3>1. CASE a.kind = "defense_pause_dp"
      <4>1. p = TRUE
        BY <3>1
      <4> HIDE DEF p
      <4> QED BY <3>1, <4>1 DEF Handle
    <3>2. CASE a.kind = "defense_resume_dp"
      <4>1. p = FALSE
        BY <3>2
      <4> HIDE DEF p
      <4> QED BY <3>2, <4>1 DEF Handle
    <3> QED
      BY <1>6, <3>1, <3>2
  <2>2. Handle(s, a) = Result(StateWith(s, c, s.key, s.krum), a, "ok")
    BY <2>1, StateParts
  <2>3. /\ d \in Posture /\ d.key_rotations = D.key_rotations /\ d.krum_f = D.krum_f
        /\ d.dp_paused <=> (a.kind = "defense_pause_dp" \/ (D.dp_paused /\ a.kind # "defense_resume_dp"))
    <3>1. p \in BOOLEAN
      OBVIOUS
    <3>2. p <=> (a.kind = "defense_pause_dp" \/ (D.dp_paused /\ a.kind # "defense_resume_dp"))
      BY <1>6
    <3> HIDE DEF p
    <3>3. d \in Posture /\ d.key_rotations = D.key_rotations /\ d.krum_f = D.krum_f /\ d.dp_paused = p
      BY <1>00, <3>1 DEF Posture
    <3> QED
      BY <3>2, <3>3
  <2> HIDE DEF d
  <2>4. c.trainer = s.ctx.trainer /\ c.defences = d
    BY <1>00 DEF Attachment
  <2>5. KrumIsSet(s.ctx, s.krum) => KrumIsSet(c, s.krum)
    BY <2>3, <2>4 DEF KrumIsSet
  <2>6. c = ContextWith(s, d, s.ctx.position, s.ctx.released)
    BY StateParts
  <2> HIDE DEF c
  <2> QED
    BY <1>0, <1>00, <1>6, <2>2, <2>3, <2>5, <2>6, DefencesChanged DEF Code
<1>7. CASE a.kind = "defense_rotate_keys"
  <2> DEFINE k == s.key + 1
             d == [D EXCEPT !.key_rotations = @ + 1]
             c == [s.ctx EXCEPT !.defences = d]
  <2>1. Handle(s, a) = Result([s EXCEPT !.ctx = c, !.key = k], a, "ok")
    BY <1>7, <1>00 DEF Handle, HandleRotate, RotatedKey, DrainState
  <2>2. Handle(s, a) = Result(StateWith(s, c, k, s.krum), a, "ok")
    BY <2>1, StateParts
  <2>3. k \in Nat /\ d \in Posture /\ d.dp_paused = D.dp_paused /\ d.key_rotations = D.key_rotations + 1
        /\ d.krum_f = D.krum_f
    BY <1>00 DEF Posture
  <2>4. k = s.key + 1
    OBVIOUS
  <2> HIDE DEF d, k
  <2>5. c.trainer = s.ctx.trainer /\ c.defences = d
    BY <1>00 DEF Attachment
  <2>6. KrumIsSet(s.ctx, s.krum) => KrumIsSet(c, s.krum)
    BY <2>3, <2>5 DEF KrumIsSet
  <2>7. c = ContextWith(s, d, s.ctx.position, s.ctx.released)
    BY StateParts
  <2> HIDE DEF c
  <2>8. d.dp_paused <=>
          (a.kind = "defense_pause_dp" \/ (s.ctx.defences.dp_paused /\ a.kind # "defense_resume_dp"))
    BY <1>7, <2>3
  <2>9. /\ d.key_rotations = s.ctx.defences.key_rotations
              + (IF a.kind = "defense_rotate_keys" THEN 1 ELSE 0)
        /\ k = s.key + (IF a.kind = "defense_rotate_keys" THEN 1 ELSE 0)
        /\ a.kind # "sign" /\ "ok" \in Code
    BY <1>00, <1>7, <2>3, <2>4 DEF Code
  <2>10. ActionDone(s, a, Result(StateWith(s, c, k, s.krum), a, "ok"))
    BY <1>0, <1>00, <2>3, <2>6, <2>7, <2>8, <2>9, DefencesChanged
  <2> QED
    BY <2>2, <2>10
<1>8. CASE a.kind = "defense_enable_krum"
  <2>1. CASE a.arg < 0 \/ s.ctx.trainer = 0
    <3>1. \E code \in {"bad_payload", "no_trainer"} : Handle(s, a) = Result(s, a, code)
      BY <1>8, <2>1 DEF Handle, HandleKrum, Refuse
    <3> QED
      BY <1>0, <1>8, <3>1, OnlyResult DEF Code
  <2>2. CASE ~(a.arg < 0 \/ s.ctx.trainer = 0)
    <3> DEFINE d == [D EXCEPT !.krum_f = a.arg]
               c == [s.ctx EXCEPT !.defences = d]
               krum == WithPlace(s.krum, s.ctx.trainer, a.arg)
    <3>1. Handle(s, a) = Result([s EXCEPT !.ctx = c, !.krum = krum], a, "ok")
      BY <1>8, <2>2 DEF Handle, HandleKrum, DrainState, WithPlace
    <3>2. Handle(s, a) = Result(StateWith(s, c, s.key, krum), a, "ok")
      <4> HIDE DEF c, krum
      <4>1. [s EXCEPT !.ctx = c, !.krum = krum] = StateWith(s, c, s.key, krum)
        BY DEF DrainState, StateWith
      <4> QED
        BY <3>1, <4>1
    <3>3. d \in Posture /\ d.dp_paused = D.dp_paused /\ d.key_rotations = D.key_rotations /\ d.krum_f = a.arg
      BY <1>0, <1>00 DEF Posture
    <3>4. /\ krum \in Seq(Args \cup {-1}) /\ Len(krum) = Len(s.krum) /\ DOMAIN krum = DOMAIN s.krum
          /\ s.ctx.trainer \in DOMAIN s.krum => krum[s.ctx.trainer] = a.arg
      <4>1. s.krum \in Seq(Args \cup {-1}) /\ a.arg \in Args \cup {-1}
        BY <1>0, <1>00
      <4> QED
        BY <4>1, PlaceChanged
    <3>5. KrumIsSet(s.ctx, s.krum) => s.ctx.trainer \in DOMAIN s.krum
      BY <1>00, <2>2 DEF KrumIsSet
    <3> HIDE DEF d, krum
    <3>6. c.trainer = s.ctx.trainer /\ c.defences = d
      BY <1>00 DEF Attachment
    <3>7. KrumIsSet(s.ctx, s.krum) => KrumIsSet(c, krum)
      BY <3>3, <3>4, <3>5, <3>6 DEF KrumIsSet
    <3>8. c = ContextWith(s, d, s.ctx.position, s.ctx.released)
      BY StateParts
    <3> HIDE DEF c
    <3> QED
      BY <1>0, <1>00, <1>8, <3>2, <3>3, <3>4, <3>7, <3>8, DefencesChanged DEF Code
  <2> QED
    BY <2>1, <2>2
<1>9. CASE a.kind \notin {"move", "query_dp", "sign", "attack_byzantine", "defense_k_anonymity", "defense_pause_dp",
                         "defense_resume_dp", "defense_rotate_keys", "defense_enable_krum"}
  <2>1. Handle(s, a) = Result(s, a, "unknown_kind")
    BY <1>9 DEF Handle, Refuse
  <2> QED
    BY <1>0, <1>9, <2>1, OnlyResult DEF Code
<1> QED
  BY <1>1, <1>2, <1>3, <1>4, <1>5, <1>6, <1>7, <1>8, <1>9

\* A drain starts with the operator's context as it is.
DrainStart == [ctx |-> context, key |-> operatorKey, krum |-> krumOf, result |-> <<>>]

\* A drain stands, after each of its actions, where the handler of the action leaves it.
LEMMA DrainStatesAre ==
    ASSUME NEW kept \in Seq(Entry), DrainStart \in DrainState
    PROVE  /\ DrainStates(kept)[0] = DrainStart
           /\ \A k \in 0 .. Len(kept) : DrainStates(kept)[k] \in DrainState
           /\ \A k \in 1 .. Len(kept) :
                ActionDone(DrainStates(kept)[k - 1], kept[k].action, DrainStates(kept)[k])
<1> DEFINE first == DrainStart
           last == Len(kept)
           G == [p \in Int \X DrainState |-> Handle(p[2], kept[p[1]].action)]
           Body(f) == [k \in 0 .. last |-> IF k = 0 THEN first ELSE Handle(f[k - 1], kept[k].action)]
           after == CHOOSE f : f = Body(f)
<1>1. DrainStates(kept) = after
  BY DEF DrainStates, DrainStart
<1>2. last \in Nat /\ 0 \in Int /\ last \in Int /\ 0 <= last
  OBVIOUS
<1>3. \A k \in 1 .. last : kept[k].action \in Submittable
  <2> TAKE k \in 1 .. last
  <2>1. kept[k] \in Entry
    OBVIOUS
  <2> QED
    BY <2>1 DEF Entry
<1>4. PICK f : f = [k \in 0 .. last |-> IF k = 0 THEN first ELSE G[<<k, f[k - 1]>>]]
  <2> HIDE DEF first, last, G
  <2>1. \E f : Recursive(f, 0, last, first, G)
    BY <1>2, RecursionExists
  <2> QED
    BY <2>1 DEF Recursive
<1>5. first \in DrainState
  OBVIOUS
<1> HIDE DEF first, last
<1>6. ASSUME NEW k \in 1 .. last, f[k - 1] \in DrainState
      PROVE  f[k] = Handle(f[k - 1], kept[k].action)
  <2>1. k \in Int /\ k \in 0 .. last /\ k # 0
    BY <1>2
  <2>2. f[k] = G[<<k, f[k - 1]>>]
    <3> HIDE DEF G
    <3> QED
      BY <1>4, <2>1
  <2>3. <<k, f[k - 1]>> \in Int \X DrainState
    BY <1>6, <2>1
  <2> QED
    BY <2>2, <2>3
<1> HIDE DEF G
<1> DEFINE S == {i \in Nat : i <= last => f[i] \in DrainState}
<1>7. 0 \in S
  BY <1>2, <1>4, <1>5
<1>8. ASSUME NEW i \in Nat, i \in S
      PROVE  i + 1 \in S
  <2> SUFFICES ASSUME i + 1 <= last PROVE f[i + 1] \in DrainState
    OBVIOUS
  <2> DEFINE k == i + 1
  <2>1. k \in 1 .. last /\ k - 1 = i /\ i <= last
    BY <1>2
  <2>2. f[k - 1] \in DrainState
    BY <1>8, <2>1
  <2> HIDE DEF k
  <2>3. f[k] = Handle(f[k - 1], kept[k].action) /\ kept[k].action \in Submittable
    BY <1>3, <1>6, <2>1, <2>2
  <2>4. f[k] \in DrainState
    BY <2>2, <2>3, HandleDone DEF ActionDone
  <2> QED
    BY <2>4 DEF k
<1> HIDE DEF S
<1>9. Nat \subseteq S
  BY <1>7, <1>8, SetInduction
<1>10. \A k \in 0 .. last : f[k] \in DrainState
  BY <1>2, <1>9 DEF S
<1>11. f = Body(f)
  <2>1. f = [k \in 0 .. last |-> f[k]]
    BY <1>4
  <2>2. ASSUME NEW k \in 0 .. last
        PROVE  f[k] = IF k = 0 THEN first ELSE Handle(f[k - 1], kept[k].action)
    <3>1. CASE k = 0
      BY <1>4, <3>1
    <3>2. CASE k # 0
      <4>1. k - 1 \in 0 .. last /\ k \in 1 .. last
        BY <1>2, <3>2
      <4> QED
        BY <1>6, <1>10, <3>2, <4>1
    <3> QED
      BY <3>1, <3>2
  <2> QED
    BY <2>1, <2>2
<1>12. after = Body(after)
  BY <1>11
<1>13. \A k \in 0 .. last : after[k] = IF k = 0 THEN first ELSE Handle(after[k - 1], kept[k].action)
  BY <1>12
<1> HIDE DEF after
<1> DEFINE T == {i \in Nat : i <= last => after[i] \in DrainState}
<1>14. 0 \in T
  BY <1>2, <1>5, <1>13
<1>15. ASSUME NEW i \in Nat, i \in T
       PROVE  i + 1 \in T
  <2> SUFFICES ASSUME i + 1 <= last PROVE after[i + 1] \in DrainState
    OBVIOUS
  <2> DEFINE k == i + 1
  <2>1. k \in 1 .. last /\ k \in 0 .. last /\ k # 0 /\ k - 1 = i /\ i <= last
    BY <1>2
  <2>2. after[k - 1] \in DrainState
    BY <1>15, <2>1
  <2> HIDE DEF k
  <2>3. after[k] = Handle(after[k - 1], kept[k].action) /\ kept[k].action \in Submittable
    BY <1>3, <1>13, <2>1
  <2>4. after[k] \in DrainState
    BY <2>2, <2>3, HandleDone DEF ActionDone
  <2> QED
    BY <2>4 DEF k
<1> HIDE DEF T
<1>16. Nat \subseteq T
  BY <1>14, <1>15, SetInduction
<1>17. \A k \in 0 .. last : after[k] \in DrainState
  BY <1>2, <1>16 DEF T
<1>18. after[0] = first
  BY <1>2, <1>13
<1>19. ASSUME NEW k \in 1 .. last
       PROVE  ActionDone(after[k - 1], kept[k].action, after[k])
  <2>1. k - 1 \in 0 .. last /\ k \in 0 .. last /\ k # 0
    BY <1>2
  <2>2. after[k - 1] \in DrainState /\ kept[k].action \in Submittable
        /\ after[k] = Handle(after[k - 1], kept[k].action)
    BY <1>3, <1>13, <1>17, <2>1
  <2> QED
    BY <2>2, HandleDone
<1> QED
  BY <1>1, <1>17, <1>18, <1>19 DEF first, last

\* The rotations among the first of these actions.
Rotations(kept, k) == {j \in 1 .. k : Asks(kept, j, "defense_rotate_keys")}

\* What the first k actions have done to a drain that started at s.
DrainedSoFar(kept, s, u, k) ==
    /\ u.ctx.trainer = s.ctx.trainer /\ u.ctx.attached = s.ctx.attached /\ Len(u.krum) = Len(s.krum)
    /\ KrumIsSet(s.ctx, s.krum) => KrumIsSet(u.ctx, u.krum)
    /\ u.key = s.key + Cardinality(Rotations(kept, k))
    /\ u.ctx.defences.key_rotations = s.ctx.defences.key_rotations + Cardinality(Rotations(kept, k))
    /\ u.ctx.defences.dp_paused <=> PauseStands(kept, k)
    /\ s.ctx.defences.dp_paused /\ (\A j \in 1 .. k : ~Asks(kept, j, "defense_resume_dp"))
         => u.ctx.released = s.ctx.released

\* One more rotation, or none.
LEMMA RotationsGrow ==
    ASSUME NEW kept, NEW k \in Nat
    PROVE  /\ Cardinality(Rotations(kept, k)) \in Nat /\ Cardinality(Rotations(kept, 0)) = 0
           /\ Cardinality(Rotations(kept, k + 1)) = Cardinality(Rotations(kept, k))
                + (IF Asks(kept, k + 1, "defense_rotate_keys") THEN 1 ELSE 0)
<1>1. IsFiniteSet(1 .. k)
  BY UpToN
<1>2. IsFiniteSet(Rotations(kept, k))
  BY <1>1, FS_Subset DEF Rotations
<1>3. Cardinality(Rotations(kept, k)) \in Nat
  BY <1>2, FS_CardinalityType
<1>4. Rotations(kept, 0) = {}
  BY DEF Rotations
<1>5. Cardinality(Rotations(kept, 0)) = 0
  BY <1>4, FS_EmptySet
<1>6. 1 .. k + 1 = 1 .. k \cup {k + 1} /\ k + 1 \notin 1 .. k
  OBVIOUS
<1>7. k + 1 \notin Rotations(kept, k)
  BY <1>6 DEF Rotations
<1>8. CASE Asks(kept, k + 1, "defense_rotate_keys")
  <2>1. Rotations(kept, k + 1) = Rotations(kept, k) \cup {k + 1}
    BY <1>6, <1>8 DEF Rotations
  <2>2. Cardinality(Rotations(kept, k) \cup {k + 1}) = Cardinality(Rotations(kept, k)) + 1
    BY <1>2, <1>7, FS_AddElement
  <2> QED
    BY <1>3, <1>5, <1>8, <2>1, <2>2
<1>9. CASE ~Asks(kept, k + 1, "defense_rotate_keys")
  <2>1. Rotations(kept, k + 1) = Rotations(kept, k)
    BY <1>6, <1>9 DEF Rotations
  <2> QED
    BY <1>3, <1>5, <1>9, <2>1
<1> QED
  BY <1>8, <1>9

\* The word that stands after one more action.
LEMMA PauseStandsStep ==
    ASSUME NEW kept, NEW k \in Nat, pauseAsked \in BOOLEAN
    PROVE  /\ PauseStands(kept, 0) <=> pauseAsked
           /\ PauseStands(kept, k + 1) <=>
                \/ Asks(kept, k + 1, "defense_pause_dp") /\ ~Asks(kept, k + 1, "defense_resume_dp")
                \/ PauseStands(kept, k) /\ ~Asks(kept, k + 1, "defense_resume_dp")
<1>1. PauseStands(kept, 0) <=> pauseAsked
  BY DEF PauseStands
<1>2. 1 .. k + 1 = 1 .. k \cup {k + 1}
  OBVIOUS
<1>3. \A i \in 1 .. k : i .. k + 1 = i .. k \cup {k + 1}
  OBVIOUS
<1>4. (k + 1) .. (k + 1) = {k + 1}
  OBVIOUS
<1> DEFINE P(i) == Asks(kept, i, "defense_pause_dp")
           R(i) == Asks(kept, i, "defense_resume_dp")
<1> HIDE DEF P, R
<1>5. ((\/ pauseAsked /\ \A i \in 1 .. k + 1 : ~R(i)
        \/ \E i \in 1 .. k + 1 : P(i) /\ \A j \in i .. k + 1 : ~R(j))
       <=> (\/ P(k + 1) /\ ~R(k + 1)
            \/ /\ (\/ pauseAsked /\ \A i \in 1 .. k : ~R(i)
                   \/ \E i \in 1 .. k : P(i) /\ \A j \in i .. k : ~R(j))
               /\ ~R(k + 1)))
  <2>1. (\A i \in 1 .. k + 1 : ~R(i)) <=> (\A i \in 1 .. k : ~R(i)) /\ ~R(k + 1)
    BY <1>2
  <2>2. \A i \in 1 .. k : (\A j \in i .. k + 1 : ~R(j)) <=> (\A j \in i .. k : ~R(j)) /\ ~R(k + 1)
    <3> TAKE i \in 1 .. k
    <3>1. i .. k + 1 = i .. k \cup {k + 1}
      BY <1>3
    <3> HIDE <1>2, <1>3, <1>4, <2>1
    <3> QED
      BY <3>1
  <2>3. (\A j \in k + 1 .. k + 1 : ~R(j)) <=> ~R(k + 1)
    BY <1>4
  <2>4. (\E i \in 1 .. k + 1 : P(i) /\ \A j \in i .. k + 1 : ~R(j))
        <=> \/ \E i \in 1 .. k : P(i) /\ \A j \in i .. k + 1 : ~R(j)
            \/ P(k + 1) /\ \A j \in k + 1 .. k + 1 : ~R(j)
    BY <1>2
  <2>5. (\E i \in 1 .. k : P(i) /\ \A j \in i .. k + 1 : ~R(j))
        <=> (\E i \in 1 .. k : P(i) /\ \A j \in i .. k : ~R(j)) /\ ~R(k + 1)
    BY <2>2
  <2> QED
    BY <2>1, <2>3, <2>4, <2>5
<1> QED
  BY <1>1, <1>5 DEF PauseStands, P, R

\* What one action adds to what the actions before it have done.
LEMMA SoFarGrows ==
    ASSUME NEW kept, NEW k \in Nat, NEW s \in DrainState, NEW t \in DrainState, NEW u \in DrainState,
           pauseAsked \in BOOLEAN, s.ctx.defences.dp_paused <=> pauseAsked,
           DrainedSoFar(kept, s, t, k), ActionDone(t, kept[k + 1].action, u)
    PROVE  DrainedSoFar(kept, s, u, k + 1)
<1> DEFINE a == kept[k + 1].action
<1>1. \A kind : Asks(kept, k + 1, kind) <=> a.kind = kind
  BY DEF Asks
<1>2. /\ u.ctx.trainer = t.ctx.trainer /\ u.ctx.attached = t.ctx.attached /\ Len(u.krum) = Len(t.krum)
      /\ KrumIsSet(t.ctx, t.krum) => KrumIsSet(u.ctx, u.krum)
      /\ u.ctx.defences.dp_paused <=>
           (a.kind = "defense_pause_dp" \/ (t.ctx.defences.dp_paused /\ a.kind # "defense_resume_dp"))
      /\ t.ctx.defences.dp_paused => u.ctx.released = t.ctx.released
      /\ u.ctx.defences.key_rotations = t.ctx.defences.key_rotations
           + (IF a.kind = "defense_rotate_keys" THEN 1 ELSE 0)
      /\ u.key = t.key + (IF a.kind = "defense_rotate_keys" THEN 1 ELSE 0)
  BY DEF ActionDone
<1>3. /\ t.ctx.trainer = s.ctx.trainer /\ t.ctx.attached = s.ctx.attached /\ Len(t.krum) = Len(s.krum)
      /\ KrumIsSet(s.ctx, s.krum) => KrumIsSet(t.ctx, t.krum)
      /\ t.key = s.key + Cardinality(Rotations(kept, k))
      /\ t.ctx.defences.key_rotations = s.ctx.defences.key_rotations + Cardinality(Rotations(kept, k))
      /\ t.ctx.defences.dp_paused <=> PauseStands(kept, k)
      /\ s.ctx.defences.dp_paused /\ (\A j \in 1 .. k : ~Asks(kept, j, "defense_resume_dp"))
           => t.ctx.released = s.ctx.released
  BY DEF DrainedSoFar
<1>4. s.key \in Nat /\ s.ctx.defences.key_rotations \in Nat
  BY DrainFields
<1>5. /\ Cardinality(Rotations(kept, k)) \in Nat
      /\ Cardinality(Rotations(kept, k + 1)) = Cardinality(Rotations(kept, k))
           + (IF Asks(kept, k + 1, "defense_rotate_keys") THEN 1 ELSE 0)
  BY RotationsGrow
<1>6. PauseStands(kept, k + 1) <=>
        \/ Asks(kept, k + 1, "defense_pause_dp") /\ ~Asks(kept, k + 1, "defense_resume_dp")
        \/ PauseStands(kept, k) /\ ~Asks(kept, k + 1, "defense_resume_dp")
  BY PauseStandsStep
<1> HIDE DEF a
<1>7. /\ u.key = s.key + Cardinality(Rotations(kept, k + 1))
      /\ u.ctx.defences.key_rotations = s.ctx.defences.key_rotations + Cardinality(Rotations(kept, k + 1))
  <2>1. Cardinality(Rotations(kept, k + 1)) = Cardinality(Rotations(kept, k))
           + (IF a.kind = "defense_rotate_keys" THEN 1 ELSE 0)
    BY <1>1, <1>5
  <2> DEFINE one == IF a.kind = "defense_rotate_keys" THEN 1 ELSE 0
             n == Cardinality(Rotations(kept, k))
             m == Cardinality(Rotations(kept, k + 1))
  <2>2. /\ u.key = t.key + one /\ t.key = s.key + n /\ m = n + one
        /\ u.ctx.defences.key_rotations = t.ctx.defences.key_rotations + one
        /\ t.ctx.defences.key_rotations = s.ctx.defences.key_rotations + n
    BY <1>2, <1>3, <2>1
  <2>3. one \in Nat /\ n \in Nat /\ s.key \in Nat /\ s.ctx.defences.key_rotations \in Nat
    BY <1>4, <1>5
  <2> HIDE DEF one, n, m
  <2>4. u.key = s.key + m /\ u.ctx.defences.key_rotations = s.ctx.defences.key_rotations + m
    BY <2>2, <2>3
  <2> QED
    BY <2>4 DEF m
<1>8. u.ctx.defences.dp_paused <=> PauseStands(kept, k + 1)
  <2>1. a.kind = "defense_pause_dp" => a.kind # "defense_resume_dp"
    OBVIOUS
  <2>2. t.ctx.defences.dp_paused <=> PauseStands(kept, k)
    BY <1>3
  <2>3. u.ctx.defences.dp_paused <=>
          (a.kind = "defense_pause_dp" \/ (t.ctx.defences.dp_paused /\ a.kind # "defense_resume_dp"))
    BY <1>2
  <2> QED
    BY <1>1, <1>6, <2>1, <2>2, <2>3
<1>9. s.ctx.defences.dp_paused /\ (\A j \in 1 .. k + 1 : ~Asks(kept, j, "defense_resume_dp"))
           => u.ctx.released = s.ctx.released
  <2> SUFFICES ASSUME s.ctx.defences.dp_paused, \A j \in 1 .. k + 1 : ~Asks(kept, j, "defense_resume_dp")
               PROVE  u.ctx.released = s.ctx.released
    OBVIOUS
  <2>1. \A j \in 1 .. k : ~Asks(kept, j, "defense_resume_dp")
    OBVIOUS
  <2>2. t.ctx.released = s.ctx.released
    BY <1>3, <2>1
  <2>3. PauseStands(kept, k)
    BY <2>1 DEF PauseStands
  <2>4. t.ctx.defences.dp_paused
    BY <1>3, <2>3
  <2> QED
    BY <1>2, <2>2, <2>4
<1>10. /\ u.ctx.trainer = s.ctx.trainer /\ u.ctx.attached = s.ctx.attached /\ Len(u.krum) = Len(s.krum)
       /\ KrumIsSet(s.ctx, s.krum) => KrumIsSet(u.ctx, u.krum)
  BY <1>2, <1>3
<1> QED
  BY <1>7, <1>8, <1>9, <1>10 DEF DrainedSoFar

\* What a drain has done after each of its actions, and what each result shows.
LEMMA DrainDone ==
    ASSUME NEW kept \in Seq(Entry), DrainStart \in DrainState,
           pauseAsked \in BOOLEAN, context.defences.dp_paused <=> pauseAsked
    PROVE  /\ \A k \in 0 .. Len(kept) : /\ DrainStates(kept)[k] \in DrainState
                                        /\ DrainedSoFar(kept, DrainStart, DrainStates(kept)[k], k)
           /\ \A k \in 1 .. Len(kept) :
                /\ DrainStates(kept)[k].result # <<>>
                /\ Asks(kept, k, "sign") =>
                     DrainStates(kept)[k].result.shown = operatorKey + Cardinality(Rotations(kept, k - 1))
<1> DEFINE after == DrainStates(kept)
           last == Len(kept)
           s == DrainStart
<1>1. /\ after[0] = s /\ last \in Nat
      /\ \A k \in 0 .. last : after[k] \in DrainState
      /\ \A k \in 1 .. last : ActionDone(after[k - 1], kept[k].action, after[k])
  BY DrainStatesAre
<1>2. s \in DrainState /\ (s.ctx.defences.dp_paused <=> pauseAsked) /\ s.key = operatorKey
  BY DEF DrainStart
<1> HIDE DEF after, last, s
<1> DEFINE S == {i \in Nat : i <= last => DrainedSoFar(kept, s, after[i], i)}
<1>3. 0 \in S
  <2>1. Cardinality(Rotations(kept, 0)) = 0 /\ (PauseStands(kept, 0) <=> pauseAsked)
    BY RotationsGrow, PauseStandsStep
  <2>2. s.key \in Nat /\ s.ctx.defences.key_rotations \in Nat
    BY <1>2, DrainFields
  <2>3. s.key = s.key + 0 /\ s.ctx.defences.key_rotations = s.ctx.defences.key_rotations + 0
    BY <2>2
  <2>4. DrainedSoFar(kept, s, s, 0)
    BY <1>2, <2>1, <2>3 DEF DrainedSoFar
  <2> QED
    BY <1>1, <2>4
<1>4. ASSUME NEW i \in Nat, i \in S
      PROVE  i + 1 \in S
  <2> SUFFICES ASSUME i + 1 <= last PROVE DrainedSoFar(kept, s, after[i + 1], i + 1)
    OBVIOUS
  <2>1. i \in 0 .. last /\ i + 1 \in 1 .. last /\ i + 1 \in 0 .. last /\ (i + 1) - 1 = i /\ i <= last
    BY <1>1
  <2>2. after[i] \in DrainState /\ after[i + 1] \in DrainState /\ ActionDone(after[i], kept[i + 1].action, after[i + 1])
    BY <1>1, <2>1
  <2>3. DrainedSoFar(kept, s, after[i], i)
    BY <1>4, <2>1
  <2> QED
    BY <1>2, <2>2, <2>3, SoFarGrows
<1> HIDE DEF S
<1>5. Nat \subseteq S
  BY <1>3, <1>4, SetInduction
<1>6. \A k \in 0 .. last : DrainedSoFar(kept, s, after[k], k)
  BY <1>1, <1>5 DEF S
<1>7. ASSUME NEW k \in 1 .. last
      PROVE  /\ after[k].result # <<>>
             /\ Asks(kept, k, "sign") => after[k].result.shown = operatorKey + Cardinality(Rotations(kept, k - 1))
  <2>1. k - 1 \in 0 .. last
    BY <1>1
  <2>2. ActionDone(after[k - 1], kept[k].action, after[k])
    BY <1>1
  <2>3. after[k - 1].key = s.key + Cardinality(Rotations(kept, k - 1))
    BY <1>6, <2>1 DEF DrainedSoFar
  <2> QED
    BY <1>2, <2>2, <2>3 DEF ActionDone, Asks
<1> QED
  BY <1>1, <1>6, <1>7 DEF after, last, s

QueueState == [entries : Seq(Entry), next : Nat, submitted : Nat, dropped : Nat]

\* Entries in the order of their submission.
InLine(entries) ==
    \A i, j \in DOMAIN entries : i < j =>
      /\ entries[i].seq < entries[j].seq
      /\ entries[i].submit <= entries[j].submit

\* A queue whose entries are in order, none of them from the future.
QueueGood(q) ==
    /\ q \in QueueState /\ InLine(q.entries) /\ Len(q.entries) <= MaxQueue
    /\ \A i \in DOMAIN q.entries : q.entries[i].seq < q.next /\ q.entries[i].submit <= slotTick

\* The fields of an entry.
LEMMA EntryFields ==
    ASSUME NEW e \in Entry
    PROVE  e.seq \in Nat /\ e.submit \in Nat /\ e.target \in Nat /\ e.action \in Submittable
BY DEF Entry

\* What is picked out of entries in order is in order.
LEMMA PicksInLine ==
    ASSUME NEW entries \in Seq(Entry), InLine(entries), NEW S \in SUBSET DOMAIN entries
    PROVE  AtPlaces(entries, S) \in Seq(Entry) /\ InLine(AtPlaces(entries, S))
<1> DEFINE some == AtPlaces(entries, S)
<1>1. /\ some \in Seq(Entry)
      /\ \A k \in DOMAIN some : Nth(S, k - 1) \in S /\ some[k] = entries[Nth(S, k - 1)]
      /\ \A k, l \in DOMAIN some : k < l => Nth(S, k - 1) < Nth(S, l - 1)
  BY Picks
<1> HIDE DEF some
<1>2. ASSUME NEW k \in DOMAIN some, NEW l \in DOMAIN some, k < l
      PROVE  some[k].seq < some[l].seq /\ some[k].submit <= some[l].submit
  <2> DEFINE i == Nth(S, k - 1)
             j == Nth(S, l - 1)
  <2>1. i \in DOMAIN entries /\ j \in DOMAIN entries /\ i < j /\ some[k] = entries[i] /\ some[l] = entries[j]
    BY <1>1, <1>2
  <2> HIDE DEF i, j
  <2> QED
    BY <2>1 DEF InLine
<1>3. InLine(some)
  BY <1>2 DEF InLine
<1> QED
  BY <1>1, <1>3 DEF some

\* Sorting entries that are in order changes nothing.
LEMMA InOrderAlready ==
    ASSUME NEW due \in Seq(Entry), InLine(due)
    PROVE  InOrder(due) = due
<1>1. DOMAIN due = 1 .. Len(due) /\ Len(due) \in Nat
  OBVIOUS
<1>2. \A i \in DOMAIN due : due[i].seq \in Nat /\ due[i].submit \in Nat
  <2> TAKE i \in DOMAIN due
  <2>1. due[i] \in Entry
    BY <1>1
  <2> QED
    BY <2>1, EntryFields
<1>3. ASSUME NEW i \in DOMAIN due, NEW j \in DOMAIN due
      PROVE  Before(due[j], due[i]) <=> j < i
  <2>1. i \in Nat /\ j \in Nat
    BY <1>1
  <2>2. CASE j < i
    <3>1. due[j].seq < due[i].seq /\ due[j].submit <= due[i].submit
      BY <2>2 DEF InLine
    <3> QED
      BY <1>2, <2>2, <3>1 DEF Before
  <2>3. CASE i < j
    <3>1. due[i].seq < due[j].seq /\ due[i].submit <= due[j].submit
      BY <2>3 DEF InLine
    <3>2. ~(j < i)
      BY <2>1, <2>3
    <3> QED
      BY <1>2, <3>1, <3>2 DEF Before
  <2>4. CASE i = j
    BY <1>2, <2>1, <2>4 DEF Before
  <2> QED
    BY <2>1, <2>2, <2>3, <2>4
<1> DEFINE Ahead(i) == {j \in DOMAIN due : Before(due[j], due[i])}
<1>4. ASSUME NEW i \in DOMAIN due
      PROVE  Cardinality(Ahead(i)) = i - 1
  <2>1. i - 1 \in Nat /\ i \in Nat
    BY <1>1
  <2>2. Ahead(i) = {j \in DOMAIN due : j < i}
    BY <1>3
  <2>3. {j \in DOMAIN due : j < i} = 1 .. i - 1
    <3>1. \A j \in 1 .. Len(due) : j < i <=> j \in 1 .. i - 1
      BY <1>1
    <3>2. \A j \in 1 .. i - 1 : j \in 1 .. Len(due)
      BY <1>1
    <3> QED
      BY <1>1, <3>1, <3>2
  <2>4. Cardinality(1 .. i - 1) = i - 1
    <3> DEFINE n == i - 1
    <3>1. n \in Nat
      BY <2>1
    <3> HIDE DEF n
    <3>2. Cardinality(1 .. n) = n
      BY <3>1, UpToN
    <3> QED
      BY <3>2 DEF n
  <2> QED
    BY <2>2, <2>3, <2>4
<1>5. InOrder(due) = [k \in DOMAIN due |-> due[CHOOSE i \in DOMAIN due : Cardinality(Ahead(i)) = k - 1]]
  BY DEF InOrder
<1> HIDE DEF Ahead
<1>6. ASSUME NEW k \in DOMAIN due
      PROVE  (CHOOSE i \in DOMAIN due : Cardinality(Ahead(i)) = k - 1) = k
  <2> DEFINE c == CHOOSE i \in DOMAIN due : Cardinality(Ahead(i)) = k - 1
  <2>1. c \in DOMAIN due /\ Cardinality(Ahead(c)) = k - 1
    BY <1>4
  <2> HIDE DEF c
  <2>2. c - 1 = k - 1 /\ c \in Nat /\ k \in Nat
    BY <1>1, <1>4, <2>1
  <2>3. c = k
    BY <2>2
  <2> QED
    BY <2>3 DEF c
<1>7. \A k \in DOMAIN due : due[CHOOSE i \in DOMAIN due : Cardinality(Ahead(i)) = k - 1] = due[k]
  BY <1>6
<1>8. InOrder(due) = [k \in DOMAIN due |-> due[k]]
  BY <1>5, <1>7
<1>9. due = [k \in DOMAIN due |-> due[k]]
  BY <1>1
<1> QED
  BY <1>8, <1>9

\* The move that coalescing keeps is the last of them.
LEMMA KeptMoveIs ==
    ASSUME NEW due \in Seq(Entry), MovesIn(due) # {}
    PROVE  KeptMove(due) \in MovesIn(due) /\ \A j \in MovesIn(due) : j <= KeptMove(due)
<1>1. DOMAIN due = 1 .. Len(due) /\ Len(due) \in Nat
  OBVIOUS
<1>2. IsFiniteSet(MovesIn(due))
  <2>1. IsFiniteSet(1 .. Len(due))
    BY <1>1, UpToN
  <2>2. MovesIn(due) \in SUBSET (1 .. Len(due))
    BY <1>1 DEF MovesIn
  <2> QED
    BY <2>1, <2>2, FS_Subset
<1> DEFINE M == MovesIn(due)
           f == [i \in M |-> i]
<1>3. M \subseteq Nat /\ IsFiniteSet(M) /\ M # {}
  BY <1>1, <1>2 DEF MovesIn
<1> HIDE DEF M
<1>4. f \in [M -> Int] /\ \A i \in M : f[i] = i
  BY <1>3
<1> HIDE DEF f
<1>5. \E i \in M : \A j \in M : f[j] <= f[i]
  BY <1>3, <1>4, GreatestValue
<1>6. \E i \in M : \A j \in M : j <= i
  BY <1>4, <1>5
<1> QED
  BY <1>6 DEF KeptMove, M

\* Coalescing keeps the order, at most one move, and the last one.
LEMMA CoalescedIs ==
    ASSUME NEW due \in Seq(Entry), InLine(due)
    PROVE  /\ Coalesced(due) \in Seq(Entry) /\ InLine(Coalesced(due)) /\ Len(Coalesced(due)) <= Len(due)
           /\ \A k \in DOMAIN Coalesced(due) : \E i \in DOMAIN due : Coalesced(due)[k] = due[i]
           /\ \A k, l \in DOMAIN Coalesced(due) :
                Asks(Coalesced(due), k, "move") /\ Asks(Coalesced(due), l, "move") => k = l
           /\ \A k \in DOMAIN Coalesced(due) : Asks(Coalesced(due), k, "move") =>
                \A j \in MovesIn(due) : due[j].seq <= Coalesced(due)[k].seq
<1> DEFINE K == {i \in DOMAIN due : i \in MovesIn(due) => i = KeptMove(due)}
           kept == AtPlaces(due, K)
<1>1. Coalesced(due) = kept
  BY DEF Coalesced
<1>2. K \in SUBSET DOMAIN due /\ \A i \in K : i \in MovesIn(due) => i = KeptMove(due)
  OBVIOUS
<1> HIDE DEF K
<1>3. kept \in Seq(Entry) /\ InLine(kept)
  BY <1>2, PicksInLine
<1>4. /\ Len(kept) <= Len(due)
      /\ \A k \in DOMAIN kept : Nth(K, k - 1) \in K /\ kept[k] = due[Nth(K, k - 1)]
      /\ \A k, l \in DOMAIN kept : k < l => Nth(K, k - 1) < Nth(K, l - 1)
  <2>1. /\ Len(kept) = Cardinality(K) /\ Cardinality(K) <= Len(due)
        /\ \A k \in DOMAIN kept : Nth(K, k - 1) \in K /\ kept[k] = due[Nth(K, k - 1)]
        /\ \A k, l \in DOMAIN kept : k < l => Nth(K, k - 1) < Nth(K, l - 1)
    BY <1>2, Picks
  <2> QED
    BY <2>1
<1> HIDE DEF kept
<1>5. ASSUME NEW k \in DOMAIN kept, Asks(kept, k, "move")
      PROVE  Nth(K, k - 1) \in MovesIn(due) /\ Nth(K, k - 1) = KeptMove(due)
  <2>1. Nth(K, k - 1) \in K /\ kept[k] = due[Nth(K, k - 1)]
    BY <1>4
  <2>2. Nth(K, k - 1) \in MovesIn(due)
    BY <1>2, <1>5, <2>1 DEF MovesIn, Asks
  <2> QED
    BY <1>2, <2>1, <2>2
<1>6. ASSUME NEW k \in DOMAIN kept, NEW l \in DOMAIN kept, Asks(kept, k, "move"), Asks(kept, l, "move")
      PROVE  k = l
  <2>1. k \in Nat /\ l \in Nat
    BY <1>3
  <2>2. Nth(K, k - 1) = Nth(K, l - 1) /\ Nth(K, k - 1) \in Nat
    <3>1. Nth(K, k - 1) = Nth(K, l - 1) /\ Nth(K, k - 1) \in K
      BY <1>4, <1>5, <1>6
    <3> QED
      BY <1>2, <3>1
  <2>3. ~(k < l) /\ ~(l < k)
    BY <1>4, <2>2
  <2> QED
    BY <2>1, <2>3
<1>7. ASSUME NEW k \in DOMAIN kept, Asks(kept, k, "move"), NEW j \in MovesIn(due)
      PROVE  due[j].seq <= kept[k].seq
  <2> DEFINE i == KeptMove(due)
  <2>1. i \in MovesIn(due) /\ j <= i
    BY KeptMoveIs
  <2>2. kept[k] = due[i]
    BY <1>4, <1>5, <1>7
  <2> HIDE DEF i
  <2>3. i \in DOMAIN due /\ j \in DOMAIN due /\ i \in Nat /\ j \in Nat
    BY <2>1 DEF MovesIn
  <2>4. due[i].seq \in Nat /\ due[j].seq \in Nat
    <3>1. due[i] \in Entry /\ due[j] \in Entry
      BY <2>3
    <3> QED
      BY <3>1, EntryFields
  <2>5. j < i => due[j].seq < due[i].seq
    BY <2>3 DEF InLine
  <2> QED
    BY <2>1, <2>2, <2>3, <2>4, <2>5
<1>8. \A k \in DOMAIN kept : \E i \in DOMAIN due : kept[k] = due[i]
  BY <1>2, <1>4
<1> QED
  BY <1>1, <1>3, <1>4, <1>6, <1>7, <1>8

\* What is due is what is not waiting; neither loses its order.
LEMMA DueAndWaiting ==
    ASSUME NEW q, QueueGood(q), slotTick \in Nat
    PROVE  /\ DueEntries(q) \in Seq(Entry) /\ InLine(DueEntries(q))
           /\ \A i \in DOMAIN DueEntries(q) : IsDue(DueEntries(q)[i])
           /\ \A i \in DOMAIN q.entries : IsDue(q.entries[i]) =>
                \E k \in DOMAIN DueEntries(q) : DueEntries(q)[k] = q.entries[i]
           /\ Len(DueEntries(q)) + Len(WaitingEntries(q)) = Len(q.entries)
           /\ QueueGood([q EXCEPT !.entries = WaitingEntries(q)])
           /\ \A i \in DOMAIN WaitingEntries(q) : ~IsDue(WaitingEntries(q)[i])
<1> DEFINE all == q.entries
           D == {i \in DOMAIN all : IsDue(all[i])}
           W == {i \in DOMAIN all : ~IsDue(all[i])}
           due == AtPlaces(all, D)
           waiting == AtPlaces(all, W)
<1>1. all \in Seq(Entry) /\ InLine(all) /\ Len(all) <= MaxQueue /\ q \in QueueState
      /\ \A i \in DOMAIN all : all[i].seq < q.next /\ all[i].submit <= slotTick
  BY DEF QueueGood, QueueState
<1>2. DueEntries(q) = due /\ WaitingEntries(q) = waiting
  BY DEF DueEntries, WaitingEntries
<1>3. /\ D \in SUBSET DOMAIN all /\ W \in SUBSET DOMAIN all /\ W = DOMAIN all \ D
      /\ \A i \in DOMAIN all : i \in D <=> IsDue(all[i])
  OBVIOUS
<1> HIDE DEF all, D, W
<1>4. due \in Seq(Entry) /\ InLine(due) /\ waiting \in Seq(Entry) /\ InLine(waiting)
  BY <1>1, <1>3, PicksInLine
<1>5. /\ \A k \in DOMAIN due : Nth(D, k - 1) \in D /\ due[k] = all[Nth(D, k - 1)]
      /\ \A n \in D : \E k \in DOMAIN due : Nth(D, k - 1) = n
  BY <1>1, <1>3, Picks
<1>6. /\ \A k \in DOMAIN waiting : Nth(W, k - 1) \in W /\ waiting[k] = all[Nth(W, k - 1)]
      /\ Len(waiting) = Cardinality(W) /\ Cardinality(W) <= Len(all) /\ Cardinality(W) \in Nat
  BY <1>1, <1>3, Picks
<1>7. Len(due) + Len(waiting) = Len(all)
  BY <1>1, <1>3, PicksAreAll
<1> HIDE DEF due, waiting
<1>8. \A i \in DOMAIN due : IsDue(due[i])
  BY <1>3, <1>5
<1>9. \A i \in DOMAIN all : IsDue(all[i]) => \E k \in DOMAIN due : due[k] = all[i]
  <2> SUFFICES ASSUME NEW i \in DOMAIN all, IsDue(all[i])
               PROVE  \E k \in DOMAIN due : due[k] = all[i]
    OBVIOUS
  <2>1. i \in D
    BY <1>3
  <2>2. PICK k \in DOMAIN due : Nth(D, k - 1) = i
    BY <1>5, <2>1
  <2>3. due[k] = all[i]
    BY <1>5, <2>2
  <2> QED
    BY <2>3
<1>10. \A i \in DOMAIN waiting : ~IsDue(waiting[i])
  BY <1>3, <1>6
<1> DEFINE rest == [q EXCEPT !.entries = waiting]
<1>11. rest \in QueueState /\ rest.entries = waiting /\ rest.next = q.next
  BY <1>1, <1>4 DEF QueueState
<1>12. Len(waiting) <= MaxQueue
  <2>1. Len(all) \in Nat /\ MaxQueue \in Nat /\ Len(waiting) \in Nat
    BY <1>1, <1>6, OperatorActionsAssumption
  <2> QED
    BY <1>1, <1>6, <2>1
<1>13. \A i \in DOMAIN waiting : waiting[i].seq < q.next /\ waiting[i].submit <= slotTick
  <2> TAKE k \in DOMAIN waiting
  <2>1. Nth(W, k - 1) \in DOMAIN all /\ waiting[k] = all[Nth(W, k - 1)]
    BY <1>3, <1>6
  <2> QED
    BY <1>1, <2>1
<1> HIDE DEF rest
<1>14. QueueGood(rest)
  BY <1>4, <1>11, <1>12, <1>13 DEF QueueGood
<1> QED
  BY <1>2, <1>4, <1>7, <1>8, <1>9, <1>10, <1>14 DEF all, rest

\* One more entry: at most one is pushed out, and that one is older than all that stay.
LEMMA SubmittedIs ==
    ASSUME NEW q, QueueGood(q), slotTick \in Nat, NEW a \in Submittable, NEW target \in Nat
    PROVE  /\ QueueGood(Submitted(q, a, target))
           /\ Submitted(q, a, target).submitted = q.submitted + 1
           /\ Len(Submitted(q, a, target).entries) + Submitted(q, a, target).dropped
                = Len(q.entries) + q.dropped + 1
           /\ \A i \in DOMAIN Submitted(q, a, target).entries :
                \/ Submitted(q, a, target).entries[i].target = target
                \/ \E j \in DOMAIN q.entries : Submitted(q, a, target).entries[i] = q.entries[j]
           /\ \A j \in DOMAIN q.entries :
                \/ \E i \in DOMAIN Submitted(q, a, target).entries :
                     Submitted(q, a, target).entries[i] = q.entries[j]
                \/ \A i \in DOMAIN Submitted(q, a, target).entries :
                     q.entries[j].seq < Submitted(q, a, target).entries[i].seq
<1> DEFINE n == Submitted(q, a, target)
           e == [seq |-> q.next, submit |-> slotTick, target |-> target, action |-> a]
           all == q.entries
           new == AppendBounded(all, e, MaxQueue)
<1>1. q \in QueueState /\ all \in Seq(Entry) /\ InLine(all) /\ Len(all) <= MaxQueue
      /\ \A i \in DOMAIN all : all[i].seq < q.next /\ all[i].submit <= slotTick
  BY DEF QueueGood, QueueState
<1>2. q.next \in Nat /\ q.submitted \in Nat /\ q.dropped \in Nat /\ MaxQueue \in Nat /\ MaxQueue > 0
      /\ Len(all) \in Nat /\ DOMAIN all = 1 .. Len(all)
  BY <1>1, OperatorActionsAssumption DEF QueueState
<1>3. e \in Entry /\ e.seq = q.next /\ e.submit = slotTick /\ e.target = target
  BY <1>2 DEF Entry
<1> DEFINE miss == IF Len(all) >= MaxQueue THEN 1 ELSE 0
<1>4. /\ n.entries = new /\ n.next = q.next + 1 /\ n.submitted = q.submitted + 1
      /\ n.dropped = q.dropped + miss
      /\ n = [entries |-> n.entries, next |-> n.next, submitted |-> n.submitted, dropped |-> n.dropped]
  BY DEF Submitted, Pushed
<1>5. miss \in {0, 1}
  OBVIOUS
<1> DEFINE longer == Append(all, e)
<1>6. /\ longer \in Seq(Entry) /\ Len(longer) = Len(all) + 1 /\ DOMAIN longer = 1 .. Len(all) + 1
      /\ \A i \in DOMAIN all : longer[i] = all[i]
      /\ longer[Len(all) + 1] = e
  <2> HIDE DEF e, all
  <2> QED
    BY <1>1, <1>2, <1>3
<1>7. /\ new \in Seq(Entry) /\ Len(new) = Len(all) + 1 - miss
      /\ DOMAIN new = 1 .. Len(all) + 1 - miss
      /\ \A i \in DOMAIN new : i + miss \in DOMAIN longer /\ new[i] = longer[i + miss]
  <2>1. CASE Len(all) >= MaxQueue
    <3>1. miss = 1 /\ Len(all) > 0 /\ Len(longer) > MaxQueue
      BY <1>2, <1>6, <2>1
    <3>2. new = Tail(longer)
      BY <3>1 DEF AppendBounded
    <3> HIDE DEF longer, new, miss, all, e
    <3>3. new \in Seq(Entry) /\ Len(new) = Len(all) /\ DOMAIN new = 1 .. Len(all)
          /\ \A i \in 1 .. Len(all) : new[i] = longer[i + 1]
      BY <1>2, <1>6, <3>1, <3>2
    <3>4. /\ Len(all) = Len(all) + 1 - miss
          /\ \A i \in 1 .. Len(all) : i + 1 \in DOMAIN longer
      BY <1>2, <1>6, <3>1
    <3> QED
      BY <3>1, <3>3, <3>4
  <2>2. CASE ~(Len(all) >= MaxQueue)
    <3>1. miss = 0 /\ ~(Len(longer) > MaxQueue)
      BY <1>2, <1>6, <2>2
    <3>2. new = longer
      BY <3>1 DEF AppendBounded
    <3> HIDE DEF longer, new, miss, all, e
    <3>3. \A i \in DOMAIN longer : i + miss = i
      BY <1>2, <1>6, <3>1
    <3> QED
      BY <1>2, <1>6, <3>1, <3>2, <3>3
  <2> QED
    BY <2>1, <2>2
<1> HIDE DEF e, all, new, n, longer
<1>8. \A i \in DOMAIN longer : longer[i].seq \in Nat /\ longer[i].submit \in Nat
  <2> TAKE i \in DOMAIN longer
  <2>1. longer[i] \in Entry
    BY <1>6
  <2> QED
    BY <2>1, EntryFields
<1>9. InLine(longer)
  <2>1. ASSUME NEW i \in DOMAIN longer, NEW j \in DOMAIN longer, i < j
        PROVE  longer[i].seq < longer[j].seq /\ longer[i].submit <= longer[j].submit
    <3>1. i \in DOMAIN all
      BY <1>2, <1>6, <2>1
    <3>2. CASE j \in DOMAIN all
      BY <1>1, <1>6, <2>1, <3>1, <3>2 DEF InLine
    <3>3. CASE j \notin DOMAIN all
      <4>1. j = Len(all) + 1
        BY <1>2, <1>6, <3>3
      <4> QED
        BY <1>1, <1>3, <1>6, <3>1, <4>1
    <3> QED
      BY <3>2, <3>3
  <2> QED
    BY <2>1 DEF InLine
<1>10. \A i \in DOMAIN longer : longer[i].seq < q.next + 1 /\ longer[i].submit <= slotTick
  <2> TAKE i \in DOMAIN longer
  <2>1. CASE i \in DOMAIN all
    BY <1>1, <1>2, <1>6, <1>8, <2>1
  <2>2. CASE i \notin DOMAIN all
    <3>1. i = Len(all) + 1
      BY <1>2, <1>6, <2>2
    <3> QED
      BY <1>2, <1>3, <1>6, <3>1
  <2> QED
    BY <2>1, <2>2
<1> HIDE DEF miss
<1>11. InLine(new)
  <2>1. ASSUME NEW i \in DOMAIN new, NEW j \in DOMAIN new, i < j
        PROVE  new[i].seq < new[j].seq /\ new[i].submit <= new[j].submit
    <3>1. i + miss < j + miss
      BY <1>2, <1>5, <1>7, <2>1
    <3> QED
      BY <1>7, <1>9, <3>1 DEF InLine
  <2> QED
    BY <2>1 DEF InLine
<1>12. Len(new) <= MaxQueue
  BY <1>1, <1>2, <1>7 DEF miss
<1>13. n \in QueueState
  <2>1. n.entries \in Seq(Entry) /\ n.next \in Nat /\ n.submitted \in Nat /\ n.dropped \in Nat
    BY <1>2, <1>4, <1>5, <1>7
  <2> QED
    BY <1>4, <2>1 DEF QueueState
<1>14. QueueGood(n)
  BY <1>4, <1>7, <1>10, <1>11, <1>12, <1>13 DEF QueueGood
<1>15. Len(n.entries) + n.dropped = Len(all) + q.dropped + 1
  BY <1>2, <1>4, <1>5, <1>7
<1>16. \A i \in DOMAIN new : new[i].target = target \/ \E j \in DOMAIN all : new[i] = all[j]
  <2> TAKE i \in DOMAIN new
  <2>1. i + miss \in DOMAIN longer /\ new[i] = longer[i + miss]
    BY <1>7
  <2>2. i + miss \in DOMAIN all \/ i + miss = Len(all) + 1
    BY <1>2, <1>6, <2>1
  <2> QED
    BY <1>3, <1>6, <2>1, <2>2
<1>17. ASSUME NEW j \in DOMAIN all
       PROVE  \/ \E i \in DOMAIN new : new[i] = all[j]
              \/ \A i \in DOMAIN new : all[j].seq < new[i].seq
  <2>1. CASE j - miss \in DOMAIN new
    <3>1. new[j - miss] = longer[(j - miss) + miss] /\ (j - miss) + miss = j
      BY <1>2, <1>5, <1>7, <2>1
    <3> QED
      BY <1>6, <2>1, <3>1
  <2>2. CASE j - miss \notin DOMAIN new
    <3>1. j = 1 /\ miss = 1
      BY <1>2, <1>5, <1>7, <2>2
    <3>2. ASSUME NEW i \in DOMAIN new
          PROVE  all[j].seq < new[i].seq
      <4>1. i + miss \in DOMAIN longer /\ new[i] = longer[i + miss] /\ j < i + miss /\ j \in DOMAIN longer
        BY <1>2, <1>6, <1>7, <3>1
      <4>2. longer[j].seq < longer[i + miss].seq
        BY <1>9, <4>1 DEF InLine
      <4> QED
        BY <1>6, <4>1, <4>2
    <3> QED
      BY <3>2
  <2> QED
    BY <2>1, <2>2
<1> QED
  BY <1>4, <1>14, <1>15, <1>16, <1>17 DEF n, all

\* What a drain of this queue applies.
KeptOf(q) == Coalesced(InOrder(DueEntries(q)))

\* It is due, in order, with one move at most, and that one is the last that was due.
LEMMA KeptIs ==
    ASSUME NEW q, QueueGood(q), slotTick \in Nat
    PROVE  /\ InOrder(DueEntries(q)) = DueEntries(q)
           /\ KeptOf(q) \in Seq(Entry) /\ InLine(KeptOf(q)) /\ Len(KeptOf(q)) <= Len(DueEntries(q))
           /\ \A k \in DOMAIN KeptOf(q) : IsDue(KeptOf(q)[k])
           /\ \A k, l \in DOMAIN KeptOf(q) : Asks(KeptOf(q), k, "move") /\ Asks(KeptOf(q), l, "move") => k = l
           /\ \A k \in DOMAIN KeptOf(q) : Asks(KeptOf(q), k, "move") =>
                \A j \in DOMAIN q.entries : Asks(q.entries, j, "move") /\ IsDue(q.entries[j]) =>
                  q.entries[j].seq <= KeptOf(q)[k].seq
<1> DEFINE due == DueEntries(q)
           kept == KeptOf(q)
<1>1. /\ due \in Seq(Entry) /\ InLine(due)
      /\ \A i \in DOMAIN due : IsDue(due[i])
      /\ \A i \in DOMAIN q.entries : IsDue(q.entries[i]) => \E k \in DOMAIN due : due[k] = q.entries[i]
  BY DueAndWaiting
<1> HIDE DEF due
<1>2. InOrder(due) = due
  BY <1>1, InOrderAlready
<1>3. kept = Coalesced(due)
  BY <1>2 DEF KeptOf, due
<1>4. /\ kept \in Seq(Entry) /\ InLine(kept) /\ Len(kept) <= Len(due)
      /\ \A k \in DOMAIN kept : \E i \in DOMAIN due : kept[k] = due[i]
      /\ \A k, l \in DOMAIN kept : Asks(kept, k, "move") /\ Asks(kept, l, "move") => k = l
      /\ \A k \in DOMAIN kept : Asks(kept, k, "move") =>
           \A j \in MovesIn(due) : due[j].seq <= kept[k].seq
  BY <1>1, <1>3, CoalescedIs
<1> HIDE DEF kept
<1>5. \A k \in DOMAIN kept : IsDue(kept[k])
  BY <1>1, <1>4
<1>6. ASSUME NEW k \in DOMAIN kept, Asks(kept, k, "move"),
             NEW j \in DOMAIN q.entries, Asks(q.entries, j, "move"), IsDue(q.entries[j])
      PROVE  q.entries[j].seq <= kept[k].seq
  <2>1. PICK i \in DOMAIN due : due[i] = q.entries[j]
    BY <1>1, <1>6
  <2>2. i \in MovesIn(due)
    BY <1>6, <2>1 DEF MovesIn, Asks
  <2> QED
    BY <1>4, <1>6, <2>1, <2>2
<1> QED
  BY <1>2, <1>4, <1>5, <1>6 DEF due, kept

SlotTypes ==
    /\ slotTick \in Nat /\ slot \in [enabled : BOOLEAN, times : Nat]
    /\ context \in Attachment /\ operatorKey \in Nat /\ newest \in Nat /\ krumOf \in Seq(Args \cup {-1})
    /\ leftOver \in Nat /\ appliedCount \in Nat /\ pauseAsked \in BOOLEAN
    /\ \A i \in DOMAIN drained : drained[i].entry \in Entry

\* An enabled operator has a context; what the context says is what was asked of it.
ContextShape ==
    /\ slot.enabled => context.attached
    /\ ~slot.enabled => queue.entries = <<>>
    /\ newest = Len(krumOf) /\ KrumIsSet(context, krumOf)
    /\ context.defences.dp_paused <=> pauseAsked

SlotInv == SlotTypes /\ QueueGood(queue) /\ ContextShape /\ QueueAccounted /\ DrainsInOrder

\* A step of the operator's slot applies the latest move, releases nothing against the owner's
\* last word, and rotates the key as often as it says.
SlotStep ==
    /\ \A i \in DOMAIN drained' :
         drained' # drained /\ drained'[i].entry.action.kind = "move" =>
           \A j \in DOMAIN queue.entries :
             queue.entries[j].action.kind = "move" /\ IsDue(queue.entries[j]) =>
               queue.entries[j].seq <= drained'[i].entry.seq
    /\ context'.released > context.released =>
         ~pauseAsked \/ \E i \in DOMAIN drained' : drained'[i].entry.action.kind = "defense_resume_dp"
    /\ slot' = slot =>
         /\ operatorKey' - operatorKey = context'.defences.key_rotations - context.defences.key_rotations
         /\ drained' # drained =>
              \A i \in DOMAIN drained' :
                drained'[i].entry.action.kind = "sign" =>
                  drained'[i].shown = operatorKey + Cardinality(
                    {j \in 1..i - 1 : drained'[j].entry.action.kind = "defense_rotate_keys"})

\* What a drain leaves behind.
LEMMA DrainLeaves ==
    ASSUME NEW q, QueueGood(q), SlotTypes, ContextShape, Drained(q)
    PROVE  /\ queue' = [q EXCEPT !.entries = WaitingEntries(q)] /\ QueueGood(queue')
           /\ queue'.submitted = q.submitted /\ queue'.dropped = q.dropped
           /\ \A i \in DOMAIN queue'.entries : queue'.entries[i].target > slotTick
           /\ leftOver' \in Nat /\ appliedCount' \in Nat
           /\ Len(queue'.entries) + appliedCount' + leftOver' = Len(q.entries) + appliedCount + leftOver
           /\ DOMAIN drained' = DOMAIN KeptOf(q)
           /\ \A i \in DOMAIN drained' : drained'[i].entry = KeptOf(q)[i]
<1> DEFINE due == DueEntries(q)
           kept == KeptOf(q)
           rest == [q EXCEPT !.entries = WaitingEntries(q)]
<1>1. slotTick \in Nat /\ leftOver \in Nat /\ appliedCount \in Nat
  BY DEF SlotTypes
<1>2. InOrder(due) = due /\ kept \in Seq(Entry) /\ Len(kept) <= Len(due)
  BY <1>1, KeptIs
<1>3. /\ due \in Seq(Entry) /\ Len(due) + Len(WaitingEntries(q)) = Len(q.entries) /\ QueueGood(rest)
      /\ \A i \in DOMAIN WaitingEntries(q) : ~IsDue(WaitingEntries(q)[i])
  BY <1>1, DueAndWaiting
<1>4. /\ queue' = rest
      /\ leftOver' = leftOver + Len(InOrder(due)) - Len(kept) /\ appliedCount' = appliedCount + Len(kept)
  BY DEF Drained, KeptOf
<1>5. /\ DOMAIN drained' = DOMAIN kept
      /\ \A i \in DOMAIN drained' : drained'[i].entry = kept[i]
  BY DEF Drained, KeptOf
<1>6. q \in QueueState
  BY DEF QueueGood
<1>7. rest.entries = WaitingEntries(q) /\ rest.submitted = q.submitted /\ rest.dropped = q.dropped
  BY <1>6 DEF QueueState
<1> HIDE DEF rest
<1>8. Len(kept) \in Nat /\ Len(due) \in Nat /\ Len(WaitingEntries(q)) \in Nat
  <2>1. rest.entries \in Seq(Entry)
    BY <1>3 DEF QueueGood, QueueState
  <2> QED
    BY <1>2, <1>3, <1>7, <2>1
<1>9. \A i \in DOMAIN queue'.entries : queue'.entries[i].target > slotTick
  <2> TAKE i \in DOMAIN queue'.entries
  <2>1. queue'.entries = WaitingEntries(q) /\ rest.entries \in Seq(Entry)
    BY <1>3, <1>4, <1>7 DEF QueueGood, QueueState
  <2>2. ~IsDue(queue'.entries[i]) /\ queue'.entries[i] \in Entry
    BY <1>3, <1>7, <2>1
  <2>3. queue'.entries[i].target \in Nat /\ ~(queue'.entries[i].target <= slotTick)
    BY <2>2, EntryFields DEF IsDue
  <2> QED
    BY <1>1, <2>3
<1>10. /\ leftOver' \in Nat /\ appliedCount' \in Nat
       /\ Len(WaitingEntries(q)) + appliedCount' + leftOver' = Len(q.entries) + appliedCount + leftOver
  <2> HIDE DEF due, kept
  <2>1. Len(InOrder(due)) = Len(due)
    BY <1>2
  <2> QED
    BY <1>1, <1>2, <1>3, <1>4, <1>8, <2>1
<1> QED
  BY <1>3, <1>4, <1>5, <1>7, <1>9, <1>10 DEF rest

\* What a drain does to the context, the key and the trainers.
LEMMA DrainChanges ==
    ASSUME NEW q, QueueGood(q), SlotTypes, ContextShape, Drained(q)
    PROVE  /\ context' \in Attachment /\ operatorKey' \in Nat /\ krumOf' \in Seq(Args \cup {-1})
           /\ context'.attached = context.attached
           /\ Len(krumOf') = Len(krumOf) /\ KrumIsSet(context', krumOf')
           /\ pauseAsked' \in BOOLEAN /\ (context'.defences.dp_paused <=> pauseAsked')
           /\ operatorKey' - operatorKey = context'.defences.key_rotations - context.defences.key_rotations
           /\ \A i \in DOMAIN KeptOf(q) : Asks(KeptOf(q), i, "sign") =>
                drained'[i].shown = operatorKey + Cardinality(Rotations(KeptOf(q), i - 1))
           /\ pauseAsked /\ (\A i \in DOMAIN KeptOf(q) : ~Asks(KeptOf(q), i, "defense_resume_dp"))
                => context'.released = context.released
<1> DEFINE kept == KeptOf(q)
           last == Len(kept)
           after == DrainStates(kept)
           end == after[last]
           s == DrainStart
<1>1. /\ slotTick \in Nat /\ context \in Attachment /\ operatorKey \in Nat /\ krumOf \in Seq(Args \cup {-1})
      /\ pauseAsked \in BOOLEAN
  BY DEF SlotTypes
<1>2. kept \in Seq(Entry)
  BY <1>1, KeptIs
<1>3. s \in DrainState /\ s.ctx = context /\ s.key = operatorKey /\ s.krum = krumOf
  BY <1>1 DEF DrainStart, DrainState, Outcome
<1>4. context.defences.dp_paused <=> pauseAsked
  BY DEF ContextShape
<1>5. /\ context' = end.ctx /\ operatorKey' = end.key /\ krumOf' = end.krum
      /\ pauseAsked' = PauseStands(kept, last)
  BY DEF Drained, KeptOf
<1>6. \A i \in DOMAIN kept : drained'[i].shown = after[i].result.shown
  BY DEF Drained, KeptOf
<1> HIDE DEF kept, s
<1>7. /\ last \in Nat /\ DOMAIN kept = 1 .. last
      /\ \A k \in 0 .. last : after[k] \in DrainState /\ DrainedSoFar(kept, s, after[k], k)
      /\ \A k \in 1 .. last : Asks(kept, k, "sign") =>
           after[k].result.shown = operatorKey + Cardinality(Rotations(kept, k - 1))
  <2>1. last \in Nat /\ DOMAIN kept = 1 .. last
    BY <1>2
  <2>2. DrainStart \in DrainState
    BY <1>3 DEF s
  <2> QED
    BY <1>1, <1>2, <1>4, <2>1, <2>2, DrainDone DEF s
<1> HIDE DEF last, after
<1>8. end \in DrainState /\ DrainedSoFar(kept, s, end, last)
  BY <1>7
<1> HIDE DEF end
<1>9. /\ end.ctx \in Attachment /\ end.key \in Nat /\ end.krum \in Seq(Args \cup {-1})
      /\ end.ctx.defences.dp_paused \in BOOLEAN /\ end.ctx.defences.key_rotations \in Nat
  BY <1>8, DrainFields
<1>10. s.ctx.defences.key_rotations \in Nat
  BY <1>3, DrainFields
<1>11. /\ end.ctx.attached = s.ctx.attached /\ Len(end.krum) = Len(s.krum)
       /\ KrumIsSet(s.ctx, s.krum) => KrumIsSet(end.ctx, end.krum)
       /\ end.key = s.key + Cardinality(Rotations(kept, last))
       /\ end.ctx.defences.key_rotations = s.ctx.defences.key_rotations + Cardinality(Rotations(kept, last))
       /\ end.ctx.defences.dp_paused <=> PauseStands(kept, last)
       /\ s.ctx.defences.dp_paused /\ (\A j \in 1 .. last : ~Asks(kept, j, "defense_resume_dp"))
            => end.ctx.released = s.ctx.released
  BY <1>8 DEF DrainedSoFar
<1>12. Cardinality(Rotations(kept, last)) \in Nat
  BY <1>7, RotationsGrow
<1>13. operatorKey' - operatorKey = context'.defences.key_rotations - context.defences.key_rotations
  BY <1>1, <1>3, <1>5, <1>10, <1>11, <1>12
<1>14. PauseStands(kept, last) \in BOOLEAN
  BY <1>1 DEF PauseStands
<1>15. KrumIsSet(context', krumOf')
  BY <1>3, <1>5, <1>11 DEF ContextShape
<1>16. pauseAsked /\ (\A i \in DOMAIN kept : ~Asks(kept, i, "defense_resume_dp")) => context'.released = context.released
  BY <1>3, <1>4, <1>5, <1>7, <1>11
<1>17. pauseAsked' \in BOOLEAN /\ (context'.defences.dp_paused <=> pauseAsked')
  BY <1>5, <1>11, <1>14
<1> QED
  BY <1>3, <1>5, <1>6, <1>7, <1>9, <1>11, <1>13, <1>15, <1>16, <1>17 DEF kept

\* What a drain shows it has applied.
LEMMA DrainOrdered ==
    ASSUME NEW q, QueueGood(q), SlotTypes, ContextShape, Drained(q)
    PROVE  /\ \A i, j \in DOMAIN drained' : i < j => drained'[i].entry.seq < drained'[j].entry.seq
           /\ Cardinality({i \in DOMAIN drained' : drained'[i].entry.action.kind = "move"}) <= 1
           /\ \A i \in DOMAIN drained' : drained'[i].entry \in Entry /\ drained'[i].entry.target <= slotTick
<1> DEFINE kept == KeptOf(q)
<1>1. slotTick \in Nat
  BY DEF SlotTypes
<1>2. DOMAIN drained' = DOMAIN kept /\ \A i \in DOMAIN drained' : drained'[i].entry = kept[i]
  BY DrainLeaves
<1>3. /\ kept \in Seq(Entry) /\ InLine(kept)
      /\ \A k \in DOMAIN kept : IsDue(kept[k])
      /\ \A k, l \in DOMAIN kept : Asks(kept, k, "move") /\ Asks(kept, l, "move") => k = l
  BY <1>1, KeptIs
<1> HIDE DEF kept
<1>4. \A i, j \in DOMAIN drained' : i < j => drained'[i].entry.seq < drained'[j].entry.seq
  BY <1>2, <1>3 DEF InLine
<1> DEFINE moves == {i \in DOMAIN drained' : drained'[i].entry.action.kind = "move"}
<1>5. \A i, j \in moves : i = j
  BY <1>2, <1>3 DEF Asks
<1>6. Cardinality(moves) <= 1
  <2> HIDE DEF moves
  <2>1. CASE moves = {}
    <3>1. Cardinality(moves) = 0
      BY <2>1, FS_EmptySet
    <3> QED
      BY <3>1
  <2>2. CASE moves # {}
    <3>1. PICK i \in moves : TRUE
      BY <2>2
    <3>2. moves = {i}
      BY <1>5, <3>1
    <3>3. Cardinality(moves) = 1
      BY <3>2, FS_Singleton
    <3> QED
      BY <3>3
  <2> QED
    BY <2>1, <2>2
<1>7. \A i \in DOMAIN drained' : drained'[i].entry \in Entry /\ drained'[i].entry.target <= slotTick
  BY <1>2, <1>3 DEF IsDue
<1> QED
  BY <1>4, <1>6, <1>7

\* A drain of the queue, or of the queue with one more action, is a sound step.
LEMMA DrainStepSound ==
    ASSUME NEW q, QueueGood(q), SlotTypes, QueueGood(queue), ContextShape, Drained(q),
           \A j \in DOMAIN queue.entries :
             \/ \E i \in DOMAIN q.entries : q.entries[i] = queue.entries[j]
             \/ \A i \in DOMAIN q.entries : queue.entries[j].seq < q.entries[i].seq
    PROVE  SlotStep
<1> DEFINE kept == KeptOf(q)
<1>1. slotTick \in Nat /\ pauseAsked \in BOOLEAN /\ context.released \in Nat
  BY DEF SlotTypes, Attachment
<1>2. DOMAIN drained' = DOMAIN kept /\ \A i \in DOMAIN drained' : drained'[i].entry = kept[i]
  BY DrainLeaves
<1>3. /\ operatorKey' - operatorKey = context'.defences.key_rotations - context.defences.key_rotations
      /\ \A i \in DOMAIN kept : Asks(kept, i, "sign") =>
           drained'[i].shown = operatorKey + Cardinality(Rotations(kept, i - 1))
      /\ pauseAsked /\ (\A i \in DOMAIN kept : ~Asks(kept, i, "defense_resume_dp"))
           => context'.released = context.released
  BY DrainChanges
<1>4. /\ kept \in Seq(Entry)
      /\ \A k \in DOMAIN kept : IsDue(kept[k])
      /\ \A k \in DOMAIN kept : Asks(kept, k, "move") =>
           \A j \in DOMAIN q.entries : Asks(q.entries, j, "move") /\ IsDue(q.entries[j]) =>
             q.entries[j].seq <= kept[k].seq
  BY <1>1, KeptIs
<1>5. \A k \in DOMAIN kept : \E i \in DOMAIN q.entries : kept[k] = q.entries[i]
  <2>1. /\ DueEntries(q) \in Seq(Entry) /\ InLine(DueEntries(q)) /\ InOrder(DueEntries(q)) = DueEntries(q)
    BY <1>1, DueAndWaiting, KeptIs
  <2>2. \A k \in DOMAIN kept : \E i \in DOMAIN DueEntries(q) : kept[k] = DueEntries(q)[i]
    BY <2>1, CoalescedIs DEF KeptOf
  <2> DEFINE D == {i \in DOMAIN q.entries : IsDue(q.entries[i])}
  <2>3. q.entries \in Seq(Entry) /\ D \in SUBSET DOMAIN q.entries
    BY DEF QueueGood, QueueState
  <2>4. \A k \in DOMAIN AtPlaces(q.entries, D) : Nth(D, k - 1) \in D /\ AtPlaces(q.entries, D)[k] = q.entries[Nth(D, k - 1)]
    <3> HIDE DEF D
    <3> QED
      BY <2>3, Picks
  <2>5. \A i \in DOMAIN DueEntries(q) : \E j \in DOMAIN q.entries : DueEntries(q)[i] = q.entries[j]
    BY <2>3, <2>4 DEF DueEntries
  <2> HIDE DEF D, kept
  <2> QED
    BY <2>2, <2>5
<1>6. \A j \in DOMAIN queue.entries : queue.entries[j].seq \in Nat
  <2>1. queue.entries \in Seq(Entry)
    BY DEF QueueGood, QueueState
  <2> TAKE j \in DOMAIN queue.entries
  <2>2. queue.entries[j] \in Entry
    BY <2>1
  <2> QED
    BY <2>2, EntryFields
<1> HIDE DEF kept
<1>7. ASSUME NEW i \in DOMAIN drained', drained'[i].entry.action.kind = "move",
             NEW j \in DOMAIN queue.entries, queue.entries[j].action.kind = "move", IsDue(queue.entries[j])
      PROVE  queue.entries[j].seq <= drained'[i].entry.seq
  <2>1. i \in DOMAIN kept /\ drained'[i].entry = kept[i] /\ Asks(kept, i, "move")
    BY <1>2, <1>7 DEF Asks
  <2>2. CASE \E n \in DOMAIN q.entries : q.entries[n] = queue.entries[j]
    <3>1. PICK n \in DOMAIN q.entries : q.entries[n] = queue.entries[j]
      BY <2>2
    <3>2. Asks(q.entries, n, "move") /\ IsDue(q.entries[n])
      BY <1>7, <3>1 DEF Asks
    <3> QED
      BY <1>4, <2>1, <3>1, <3>2
  <2>3. CASE \A n \in DOMAIN q.entries : queue.entries[j].seq < q.entries[n].seq
    <3>1. PICK n \in DOMAIN q.entries : kept[i] = q.entries[n]
      BY <1>5, <2>1
    <3>2. queue.entries[j].seq < kept[i].seq /\ kept[i] \in Entry
      BY <1>4, <2>1, <2>3, <3>1
    <3>3. kept[i].seq \in Nat /\ queue.entries[j].seq \in Nat
      BY <1>6, <3>2, EntryFields
    <3> QED
      BY <2>1, <3>2, <3>3
  <2> QED
    BY <2>2, <2>3
<1>8. context'.released > context.released =>
        ~pauseAsked \/ \E i \in DOMAIN drained' : drained'[i].entry.action.kind = "defense_resume_dp"
  <2> SUFFICES ASSUME pauseAsked, \A i \in DOMAIN drained' : drained'[i].entry.action.kind # "defense_resume_dp"
               PROVE  ~(context'.released > context.released)
    BY <1>1
  <2>1. \A i \in DOMAIN kept : ~Asks(kept, i, "defense_resume_dp")
    BY <1>2 DEF Asks
  <2>2. context'.released = context.released
    BY <1>3, <2>1
  <2> QED
    BY <1>1, <2>2
<1>9. ASSUME NEW i \in DOMAIN drained', drained'[i].entry.action.kind = "sign"
      PROVE  drained'[i].shown = operatorKey + Cardinality(
               {j \in 1 .. i - 1 : drained'[j].entry.action.kind = "defense_rotate_keys"})
  <2>1. i \in DOMAIN kept /\ Asks(kept, i, "sign")
    BY <1>2, <1>9 DEF Asks
  <2>2. \A j \in 1 .. i - 1 : j \in DOMAIN kept
    BY <1>4, <2>1
  <2>3. {j \in 1 .. i - 1 : drained'[j].entry.action.kind = "defense_rotate_keys"} = Rotations(kept, i - 1)
    BY <1>2, <2>2 DEF Rotations, Asks
  <2> QED
    BY <1>3, <2>1, <2>3
<1> QED
  BY <1>3, <1>7, <1>8, <1>9 DEF SlotStep

\* A good queue stays good as time goes on.
LEMMA QueueKept ==
    ASSUME NEW q, QueueGood(q), slotTick \in Nat, slotTick' \in Nat, slotTick <= slotTick', queue' = q
    PROVE  QueueGood(queue)'
<1>1. q \in QueueState /\ InLine(q.entries) /\ Len(q.entries) <= MaxQueue
      /\ \A i \in DOMAIN q.entries : q.entries[i].seq < q.next /\ q.entries[i].submit <= slotTick
  BY DEF QueueGood
<1>2. \A i \in DOMAIN q.entries : q.entries[i].submit \in Nat
  <2>1. q.entries \in Seq(Entry)
    BY <1>1 DEF QueueState
  <2> TAKE i \in DOMAIN q.entries
  <2>2. q.entries[i] \in Entry
    BY <2>1
  <2> QED
    BY <2>2, EntryFields
<1>3. \A i \in DOMAIN q.entries : q.entries[i].submit <= slotTick'
  BY <1>1, <1>2
<1> QED
  BY <1>1, <1>3 DEF QueueGood, InLine, QueueState

\* A queue that was emptied is good, and holds nothing.
LEMMA EmptiedIs ==
    ASSUME queue' = EmptyQueue
    PROVE  /\ QueueGood(queue)' /\ queue'.entries = <<>> /\ Len(queue'.entries) = 0
           /\ queue'.submitted = 0 /\ queue'.dropped = 0
<1>1. EmptyQueue.entries = <<>> /\ EmptyQueue.submitted = 0 /\ EmptyQueue.dropped = 0 /\ EmptyQueue.next = 0
  BY DEF EmptyQueue
<1>2. <<>> \in Seq(Entry) /\ Len(<<>>) = 0 /\ DOMAIN <<>> = {}
  OBVIOUS
<1>3. EmptyQueue \in QueueState
  BY <1>2 DEF EmptyQueue, QueueState
<1>4. 0 <= MaxQueue
  BY OperatorActionsAssumption
<1>5. QueueGood(queue)'
  BY <1>1, <1>2, <1>3, <1>4 DEF QueueGood, InLine, QueueState
<1> QED
  BY <1>1, <1>2, <1>5

\* What is drained when nothing is.
LEMMA NothingDrained ==
    ASSUME drained' = <<>>
    PROVE  /\ \A i, j \in DOMAIN drained' : i < j => drained'[i].entry.seq < drained'[j].entry.seq
           /\ Cardinality({i \in DOMAIN drained' : drained'[i].entry.action.kind = "move"}) <= 1
           /\ \A i \in DOMAIN drained' : FALSE
<1>1. DOMAIN drained' = {}
  OBVIOUS
<1>2. {i \in DOMAIN drained' : drained'[i].entry.action.kind = "move"} = {}
  BY <1>1
<1>3. Cardinality({i \in DOMAIN drained' : drained'[i].entry.action.kind = "move"}) = 0
  BY <1>2, FS_EmptySet
<1> QED
  BY <1>1, <1>3

\* The slot's invariant holds at the start.
LEMMA SlotStarts == SlotInit => SlotInv
<1> SUFFICES ASSUME SlotInit PROVE SlotInv
  OBVIOUS
<1>1. /\ slotTick = 0 /\ slot = [enabled |-> FALSE, times |-> 0] /\ queue = EmptyQueue
      /\ context = [attached |-> FALSE, trainer |-> 0, defences |-> NoDefences, position |-> 0, released |-> 0]
      /\ operatorKey = 0 /\ newest = 0 /\ krumOf = <<>>
      /\ drained = <<>> /\ leftOver = 0 /\ appliedCount = 0 /\ pauseAsked = FALSE
  BY DEF SlotInit
<1>2. <<>> \in Seq(Entry) /\ <<>> \in Seq(Args \cup {-1}) /\ Len(<<>>) = 0 /\ DOMAIN <<>> = {}
  OBVIOUS
<1>3. NoDefences \in Posture /\ NoDefences.krum_f = -1 /\ NoDefences.dp_paused = FALSE
  BY DEF NoDefences, Posture
<1>4. context \in Attachment
  BY <1>1, <1>3 DEF Attachment
<1>5. SlotTypes
  BY <1>1, <1>2, <1>4 DEF SlotTypes
<1>6. queue.entries = <<>> /\ queue.submitted = 0 /\ queue.dropped = 0 /\ queue.next = 0
  BY <1>1 DEF EmptyQueue
<1>7. QueueGood(queue)
  <2>1. queue \in QueueState
    BY <1>1, <1>2 DEF EmptyQueue, QueueState
  <2>2. 0 <= MaxQueue
    BY OperatorActionsAssumption
  <2> QED
    BY <1>2, <1>6, <2>1, <2>2 DEF QueueGood, InLine
<1>8. ContextShape
  <2>1. context.defences = NoDefences /\ context.trainer = 0 /\ ~slot.enabled
    BY <1>1
  <2>2. KrumIsSet(context, krumOf)
    BY <1>1, <1>2, <1>3, <2>1 DEF KrumIsSet
  <2> QED
    BY <1>1, <1>2, <1>3, <1>6, <2>1, <2>2 DEF ContextShape
<1>9. QueueAccounted
  BY <1>1, <1>2, <1>6 DEF QueueAccounted
<1>10. DrainsInOrder
  <2>1. {i \in DOMAIN drained : drained[i].entry.action.kind = "move"} = {}
    BY <1>1, <1>2
  <2>2. Cardinality({i \in DOMAIN drained : drained[i].entry.action.kind = "move"}) = 0
    BY <2>1, FS_EmptySet
  <2> QED
    BY <1>1, <1>2, <1>6, <2>2 DEF DrainsInOrder
<1> QED
  BY <1>5, <1>7, <1>8, <1>9, <1>10 DEF SlotInv

\* A drain of a queue keeps what holds between steps.
LEMMA DrainKeeps ==
    ASSUME NEW q, QueueGood(q), SlotTypes, ContextShape, Drained(q),
           q.submitted = Len(q.entries) + appliedCount + leftOver + q.dropped,
           slot' = slot, slot.enabled, newest' = newest, slotTick' \in {slotTick, slotTick + 1}
    PROVE  SlotInv'
<1>1. /\ slotTick \in Nat /\ slotTick' \in Nat /\ slotTick <= slotTick' /\ slotTick' <= slotTick + 1
      /\ slot \in [enabled : BOOLEAN, times : Nat] /\ newest \in Nat
  BY DEF SlotTypes
<1>2. /\ queue' = [q EXCEPT !.entries = WaitingEntries(q)] /\ QueueGood(queue')
      /\ queue'.submitted = q.submitted /\ queue'.dropped = q.dropped
      /\ \A i \in DOMAIN queue'.entries : queue'.entries[i].target > slotTick
      /\ leftOver' \in Nat /\ appliedCount' \in Nat
      /\ Len(queue'.entries) + appliedCount' + leftOver' = Len(q.entries) + appliedCount + leftOver
  BY DrainLeaves
<1>3. /\ context' \in Attachment /\ operatorKey' \in Nat /\ krumOf' \in Seq(Args \cup {-1})
      /\ context'.attached = context.attached
      /\ Len(krumOf') = Len(krumOf) /\ KrumIsSet(context', krumOf')
      /\ pauseAsked' \in BOOLEAN /\ (context'.defences.dp_paused <=> pauseAsked')
  BY DrainChanges
<1>4. /\ \A i, j \in DOMAIN drained' : i < j => drained'[i].entry.seq < drained'[j].entry.seq
      /\ Cardinality({i \in DOMAIN drained' : drained'[i].entry.action.kind = "move"}) <= 1
      /\ \A i \in DOMAIN drained' : drained'[i].entry \in Entry /\ drained'[i].entry.target <= slotTick
  BY DrainOrdered
<1>5. QueueGood(queue)'
  <2> DEFINE r == queue'
  <2>1. QueueGood(r) /\ queue' = r
    BY <1>2
  <2> HIDE DEF r
  <2> QED
    BY <1>1, <2>1, QueueKept
<1>6. SlotTypes'
  BY <1>1, <1>2, <1>3, <1>4 DEF SlotTypes
<1>7. ContextShape'
  <2>1. slot.enabled => context'.attached
    BY <1>3 DEF ContextShape
  <2>2. newest' = Len(krumOf')
    BY <1>3 DEF ContextShape
  <2> QED
    BY <1>3, <2>1, <2>2 DEF ContextShape, KrumIsSet
<1>8. QueueAccounted'
  <2>1. Len(q.entries) \in Nat /\ Len(queue'.entries) \in Nat /\ q.dropped \in Nat
    <3>1. q \in QueueState /\ queue' \in QueueState
      BY <1>2 DEF QueueGood
    <3>2. q.entries \in Seq(Entry) /\ queue'.entries \in Seq(Entry) /\ q.dropped \in Nat
      BY <3>1 DEF QueueState
    <3> QED
      BY <3>2
  <2>2. appliedCount \in Nat /\ leftOver \in Nat
    BY DEF SlotTypes
  <2>3. queue'.submitted = Len(queue'.entries) + appliedCount' + leftOver' + queue'.dropped
    BY <1>2, <2>1, <2>2
  <2> QED
    BY <2>3 DEF QueueAccounted
<1>9. DrainsInOrder'
  <2>1. \A i \in DOMAIN drained' : drained'[i].entry.target <= slotTick'
    <3> TAKE i \in DOMAIN drained'
    <3>1. drained'[i].entry.target \in Nat /\ drained'[i].entry.target <= slotTick
      BY <1>4, EntryFields
    <3> QED
      BY <1>1, <3>1
  <2>2. \A i \in DOMAIN queue'.entries : queue'.entries[i].target >= slotTick'
    <3> TAKE i \in DOMAIN queue'.entries
    <3>1. queue'.entries \in Seq(Entry)
      BY <1>2 DEF QueueGood, QueueState
    <3>2. queue'.entries[i] \in Entry
      BY <3>1
    <3>3. queue'.entries[i].target \in Nat /\ queue'.entries[i].target > slotTick
      BY <1>2, <3>2, EntryFields
    <3> QED
      BY <1>1, <3>3
  <2> QED
    BY <1>4, <2>1, <2>2 DEF DrainsInOrder
<1> QED
  BY <1>5, <1>6, <1>7, <1>8, <1>9 DEF SlotInv

\* A request counts one entry more, whichever one the full queue then lets go, and drains what is due
\* with the entry it has put there.
LEMMA RequestSteps == SlotInv /\ Request => SlotInv' /\ SlotStep
<1> SUFFICES ASSUME SlotInv, Request PROVE SlotInv' /\ SlotStep
  OBVIOUS
<1>1. SlotTypes /\ QueueGood(queue) /\ ContextShape /\ QueueAccounted /\ slotTick \in Nat
  BY DEF SlotInv, SlotTypes
<1>2. PICK action \in Requests : Drained(Submitted(queue, action, 0))
  BY DEF Request
<1>3. slot.enabled /\ slotTick' = slotTick /\ slot' = slot /\ newest' = newest
  BY DEF Request
<1> DEFINE q == Submitted(queue, action, 0)
<1>4. action \in Submittable /\ 0 \in Nat
  BY DEF Submittable
<1>5. /\ QueueGood(q) /\ q.submitted = queue.submitted + 1
      /\ Len(q.entries) + q.dropped = Len(queue.entries) + queue.dropped + 1
      /\ \A j \in DOMAIN queue.entries :
           \/ \E i \in DOMAIN q.entries : q.entries[i] = queue.entries[j]
           \/ \A i \in DOMAIN q.entries : queue.entries[j].seq < q.entries[i].seq
  BY <1>1, <1>4, SubmittedIs
<1>6. Drained(q)
  BY <1>2
<1> HIDE DEF q
<1>7. q.submitted = Len(q.entries) + appliedCount + leftOver + q.dropped
  <2>1. q \in QueueState /\ queue \in QueueState
    BY <1>1, <1>5 DEF QueueGood
  <2>2. q.dropped \in Nat /\ queue.dropped \in Nat /\ queue.submitted \in Nat
    BY <2>1 DEF QueueState
  <2>3. Len(q.entries) \in Nat /\ Len(queue.entries) \in Nat
    <3>1. q.entries \in Seq(Entry) /\ queue.entries \in Seq(Entry)
      BY <2>1 DEF QueueState
    <3> QED
      BY <3>1
  <2>4. queue.submitted = Len(queue.entries) + appliedCount + leftOver + queue.dropped
    BY <1>1 DEF QueueAccounted
  <2>5. appliedCount \in Nat /\ leftOver \in Nat
    BY <1>1 DEF SlotTypes
  <2>6. /\ q.submitted = queue.submitted + 1
        /\ Len(q.entries) + q.dropped = Len(queue.entries) + queue.dropped + 1
    BY <1>5
  <2> QED
    <3> DEFINE l == Len(queue.entries)
               m == Len(q.entries)
               d == queue.dropped
               e == q.dropped
               s == queue.submitted
               t == q.submitted
    <3>1. /\ l \in Nat /\ m \in Nat /\ d \in Nat /\ e \in Nat /\ s = l + appliedCount + leftOver + d
          /\ t = s + 1 /\ m + e = l + d + 1
      BY <2>2, <2>3, <2>4, <2>6
    <3> HIDE DEF l, m, d, e, s, t
    <3>2. t = m + appliedCount + leftOver + e
      BY <2>5, <3>1
    <3> QED
      BY <3>2 DEF m, e, t
<1>8. slotTick' \in {slotTick, slotTick + 1}
  BY <1>3
<1>9. SlotInv'
  BY <1>1, <1>3, <1>5, <1>6, <1>7, <1>8, DrainKeeps
<1>10. SlotStep
  BY <1>1, <1>5, <1>6, DrainStepSound
<1> QED
  BY <1>9, <1>10

\* A scheduled action is counted and queued for a later tick; nothing is drained.
LEMMA ScheduleSteps == SlotInv /\ Schedule => SlotInv' /\ SlotStep
<1> SUFFICES ASSUME SlotInv, Schedule PROVE SlotInv' /\ SlotStep
  OBVIOUS
<1>1. SlotTypes /\ QueueGood(queue) /\ ContextShape /\ QueueAccounted /\ DrainsInOrder /\ slotTick \in Nat
  BY DEF SlotInv, SlotTypes
<1>2. PICK action \in Scheduled, target \in slotTick + 1 .. MaxSlotTick : queue' = Submitted(queue, action, target)
  BY DEF Schedule
<1>3. /\ slot.enabled /\ slotTick' = slotTick /\ slot' = slot /\ context' = context
      /\ operatorKey' = operatorKey /\ newest' = newest /\ krumOf' = krumOf /\ drained' = drained
      /\ leftOver' = leftOver /\ appliedCount' = appliedCount /\ pauseAsked' = pauseAsked
  BY DEF Schedule
<1> DEFINE q == Submitted(queue, action, target)
<1>4. action \in Submittable /\ target \in Nat /\ target > slotTick
  BY <1>1, OperatorActionsAssumption DEF Submittable
<1>5. /\ QueueGood(q) /\ q.submitted = queue.submitted + 1
      /\ Len(q.entries) + q.dropped = Len(queue.entries) + queue.dropped + 1
      /\ \A i \in DOMAIN q.entries :
           q.entries[i].target = target \/ \E j \in DOMAIN queue.entries : q.entries[i] = queue.entries[j]
  BY <1>1, <1>4, SubmittedIs
<1>6. queue' = q
  BY <1>2
<1> HIDE DEF q
<1>7. QueueGood(queue)'
  BY <1>1, <1>3, <1>5, <1>6, QueueKept
<1>8. SlotTypes'
  BY <1>1, <1>3 DEF SlotTypes
<1>9. ContextShape'
  BY <1>1, <1>3 DEF ContextShape, KrumIsSet
<1>10. QueueAccounted'
  <2>1. q \in QueueState /\ queue \in QueueState
    BY <1>1, <1>5 DEF QueueGood
  <2>2. q.dropped \in Nat /\ queue.dropped \in Nat /\ queue.submitted \in Nat
    BY <2>1 DEF QueueState
  <2>3. Len(q.entries) \in Nat /\ Len(queue.entries) \in Nat
    <3>1. q.entries \in Seq(Entry) /\ queue.entries \in Seq(Entry)
      BY <2>1 DEF QueueState
    <3> QED
      BY <3>1
  <2>4. queue.submitted = Len(queue.entries) + appliedCount + leftOver + queue.dropped
    BY <1>1 DEF QueueAccounted
  <2>5. appliedCount \in Nat /\ leftOver \in Nat
    BY <1>1 DEF SlotTypes
  <2>6. /\ q.submitted = queue.submitted + 1
        /\ Len(q.entries) + q.dropped = Len(queue.entries) + queue.dropped + 1
    BY <1>5
  <2>7. q.submitted = Len(q.entries) + appliedCount + leftOver + q.dropped
    <3> DEFINE l == Len(queue.entries)
               m == Len(q.entries)
               d == queue.dropped
               e == q.dropped
               s == queue.submitted
               t == q.submitted
    <3>1. /\ l \in Nat /\ m \in Nat /\ d \in Nat /\ e \in Nat /\ s = l + appliedCount + leftOver + d
          /\ t = s + 1 /\ m + e = l + d + 1
      BY <2>2, <2>3, <2>4, <2>6
    <3> HIDE DEF l, m, d, e, s, t
    <3>2. t = m + appliedCount + leftOver + e
      BY <2>5, <3>1
    <3> QED
      BY <3>2 DEF m, e, t
  <2> QED
    BY <1>3, <1>6, <2>7 DEF QueueAccounted
<1>11. DrainsInOrder'
  <2>1. ASSUME NEW i \in DOMAIN q.entries
        PROVE  q.entries[i].target >= slotTick
    <3>1. CASE q.entries[i].target = target
      BY <1>1, <1>4, <3>1
    <3>2. CASE \E j \in DOMAIN queue.entries : q.entries[i] = queue.entries[j]
      BY <1>1, <3>2 DEF DrainsInOrder
    <3> QED
      BY <1>5, <3>1, <3>2
  <2>2. \A i \in DOMAIN queue'.entries : queue'.entries[i].target >= slotTick'
    BY <1>3, <1>6, <2>1
  <2> QED
    BY <1>1, <1>3, <2>2 DEF DrainsInOrder
<1>12. SlotInv'
  BY <1>7, <1>8, <1>9, <1>10, <1>11 DEF SlotInv
<1>13. SlotStep
  <2>1. context.released \in Nat /\ operatorKey \in Nat /\ context.defences.key_rotations \in Nat
    BY <1>1 DEF SlotTypes, Attachment, Posture
  <2> QED
    BY <1>3, <2>1 DEF SlotStep
<1> QED
  BY <1>12, <1>13

\* A tick drains what is due, and what is claimed of a step holds of the whole drain.
LEMMA SlotTicksSteps == SlotInv /\ SlotTicks => SlotInv' /\ SlotStep
<1> SUFFICES ASSUME SlotInv, SlotTicks PROVE SlotInv' /\ SlotStep
  OBVIOUS
<1>1. SlotTypes /\ QueueGood(queue) /\ ContextShape /\ QueueAccounted /\ DrainsInOrder /\ slotTick \in Nat
  BY DEF SlotInv, SlotTypes
<1>2. slotTick' = slotTick + 1 /\ slot' = slot /\ newest' = newest
  BY DEF SlotTicks
<1>3. CASE slot.enabled /\ context.attached
  <2>1. Drained(queue) /\ slotTick' \in {slotTick, slotTick + 1}
    BY <1>2, <1>3 DEF SlotTicks
  <2>2. queue.submitted = Len(queue.entries) + appliedCount + leftOver + queue.dropped
    BY <1>1 DEF QueueAccounted
  <2>3. SlotInv'
    <3> DEFINE q == queue
    <3>1. /\ QueueGood(q) /\ Drained(q)
          /\ q.submitted = Len(q.entries) + appliedCount + leftOver + q.dropped
      BY <1>1, <2>1, <2>2
    <3> HIDE DEF q
    <3> QED
      BY <1>1, <1>2, <1>3, <2>1, <3>1, DrainKeeps
  <2>4. SlotStep
    <3> DEFINE q == queue
    <3>1. /\ QueueGood(q) /\ Drained(q)
          /\ \A j \in DOMAIN queue.entries :
               \/ \E i \in DOMAIN q.entries : q.entries[i] = queue.entries[j]
               \/ \A i \in DOMAIN q.entries : queue.entries[j].seq < q.entries[i].seq
      BY <1>1, <2>1
    <3> HIDE DEF q
    <3> QED
      BY <1>1, <3>1, DrainStepSound
  <2> QED
    BY <2>3, <2>4
<1>4. CASE ~(slot.enabled /\ context.attached)
  <2>1. /\ queue' = queue /\ context' = context /\ operatorKey' = operatorKey /\ krumOf' = krumOf
        /\ drained' = drained /\ leftOver' = leftOver /\ appliedCount' = appliedCount
        /\ pauseAsked' = pauseAsked
    BY <1>4 DEF SlotTicks
  <2>2. queue.entries = <<>> /\ ~slot.enabled
    BY <1>1, <1>4 DEF ContextShape
  <2>3. QueueGood(queue)'
    <3> DEFINE q == queue
    <3>1. QueueGood(q) /\ queue' = q /\ slotTick' \in Nat /\ slotTick <= slotTick'
      BY <1>1, <1>2, <2>1
    <3> HIDE DEF q
    <3> QED
      BY <1>1, <3>1, QueueKept
  <2>4. SlotTypes'
    BY <1>1, <1>2, <2>1 DEF SlotTypes
  <2>5. ContextShape'
    BY <1>1, <1>2, <2>1 DEF ContextShape, KrumIsSet
  <2>6. QueueAccounted'
    BY <1>1, <2>1 DEF QueueAccounted
  <2>7. DrainsInOrder'
    <3>1. \A i \in DOMAIN drained' : drained'[i].entry.target <= slotTick'
      <4> TAKE i \in DOMAIN drained'
      <4>1. drained[i].entry \in Entry /\ drained[i].entry.target <= slotTick
        BY <1>1, <2>1 DEF SlotTypes, DrainsInOrder
      <4>2. drained[i].entry.target \in Nat
        BY <4>1, EntryFields
      <4> QED
        BY <1>1, <1>2, <2>1, <4>1, <4>2
    <3>2. DOMAIN queue'.entries = {}
      BY <2>1, <2>2
    <3> QED
      BY <1>1, <2>1, <3>1, <3>2 DEF DrainsInOrder
  <2>8. SlotInv'
    BY <2>3, <2>4, <2>5, <2>6, <2>7 DEF SlotInv
  <2>9. SlotStep
    <3>1. context.released \in Nat /\ operatorKey \in Nat /\ context.defences.key_rotations \in Nat
      BY <1>1 DEF SlotTypes, Attachment, Posture
    <3> QED
      BY <2>1, <3>1 DEF SlotStep
  <2> QED
    BY <2>8, <2>9
<1> QED
  BY <1>3, <1>4

\* Enabling again starts with an empty queue and without defences; the key is kept.
LEMMA EnableSteps == SlotInv /\ EnableSlot => SlotInv' /\ SlotStep
<1> SUFFICES ASSUME SlotInv, EnableSlot PROVE SlotInv' /\ SlotStep
  OBVIOUS
<1>1. /\ SlotTypes /\ ContextShape /\ slotTick \in Nat /\ newest \in Nat /\ newest = Len(krumOf)
      /\ slot \in [enabled : BOOLEAN, times : Nat] /\ context \in Attachment /\ operatorKey \in Nat
  BY DEF SlotInv, SlotTypes, ContextShape
<1>2. /\ slot' = [enabled |-> TRUE, times |-> slot.times + 1]
      /\ queue' = EmptyQueue /\ leftOver' = 0 /\ appliedCount' = 0 /\ drained' = <<>>
      /\ context' = [context EXCEPT !.attached = TRUE, !.trainer = newest, !.defences = NoDefences]
      /\ operatorKey' = IF operatorKey = 0 THEN 1 ELSE operatorKey
      /\ pauseAsked' = FALSE /\ slotTick' = slotTick /\ newest' = newest /\ krumOf' = krumOf
  BY DEF EnableSlot
<1>3. NoDefences \in Posture /\ NoDefences.krum_f = -1 /\ NoDefences.dp_paused = FALSE
  BY DEF NoDefences, Posture
<1>4. /\ context' \in Attachment /\ context'.attached = TRUE /\ context'.trainer = newest
      /\ context'.defences = NoDefences /\ context'.released = context.released
  BY <1>1, <1>2, <1>3 DEF Attachment
<1>5. /\ slot' \in [enabled : BOOLEAN, times : Nat] /\ slot'.enabled /\ slot' # slot
  <2>1. slot.times \in Nat /\ slot'.times = slot.times + 1
    BY <1>1, <1>2
  <2> QED
    BY <1>2, <2>1
<1>6. /\ QueueGood(queue)' /\ queue'.entries = <<>> /\ Len(queue'.entries) = 0
      /\ queue'.submitted = 0 /\ queue'.dropped = 0
  BY <1>2, EmptiedIs
<1>7. /\ \A i, j \in DOMAIN drained' : i < j => drained'[i].entry.seq < drained'[j].entry.seq
      /\ Cardinality({i \in DOMAIN drained' : drained'[i].entry.action.kind = "move"}) <= 1
      /\ \A i \in DOMAIN drained' : FALSE
  BY <1>2, NothingDrained
<1>8. SlotTypes'
  <2>1. krumOf' \in Seq(Args \cup {-1}) /\ operatorKey' \in Nat
    BY <1>1, <1>2 DEF SlotTypes
  <2> QED
    BY <1>1, <1>2, <1>4, <1>5, <1>7, <2>1 DEF SlotTypes
<1>9. ContextShape'
  <2>1. KrumIsSet(context', krumOf')
    BY <1>1, <1>2, <1>3, <1>4 DEF KrumIsSet
  <2> QED
    BY <1>1, <1>2, <1>3, <1>4, <1>5, <2>1 DEF ContextShape, KrumIsSet
<1>10. QueueAccounted'
  BY <1>2, <1>6 DEF QueueAccounted
<1>11. DrainsInOrder'
  <2>1. DOMAIN queue'.entries = {}
    BY <1>6
  <2> QED
    BY <1>7, <2>1 DEF DrainsInOrder
<1>12. SlotInv'
  BY <1>6, <1>8, <1>9, <1>10, <1>11 DEF SlotInv
<1>13. SlotStep
  <2>1. context.released \in Nat
    BY <1>1 DEF Attachment
  <2> QED
    BY <1>4, <1>5, <1>7, <2>1 DEF SlotStep
<1> QED
  BY <1>12, <1>13

\* Disabling empties the queue and keeps the context.
LEMMA DisableSteps == SlotInv /\ DisableSlot => SlotInv' /\ SlotStep
<1> SUFFICES ASSUME SlotInv, DisableSlot PROVE SlotInv' /\ SlotStep
  OBVIOUS
<1>1. /\ SlotTypes /\ ContextShape /\ slotTick \in Nat
      /\ slot \in [enabled : BOOLEAN, times : Nat] /\ context \in Attachment
  BY DEF SlotInv, SlotTypes
<1>2. /\ slot.enabled /\ slot' = [slot EXCEPT !.enabled = FALSE]
      /\ queue' = EmptyQueue /\ leftOver' = 0 /\ appliedCount' = 0 /\ drained' = <<>>
      /\ slotTick' = slotTick /\ context' = context /\ operatorKey' = operatorKey /\ newest' = newest
      /\ krumOf' = krumOf /\ pauseAsked' = pauseAsked
  BY DEF DisableSlot
<1>3. slot' \in [enabled : BOOLEAN, times : Nat] /\ ~slot'.enabled /\ slot' # slot
  BY <1>1, <1>2
<1>4. /\ QueueGood(queue)' /\ queue'.entries = <<>> /\ Len(queue'.entries) = 0
      /\ queue'.submitted = 0 /\ queue'.dropped = 0
  BY <1>2, EmptiedIs
<1>5. /\ \A i, j \in DOMAIN drained' : i < j => drained'[i].entry.seq < drained'[j].entry.seq
      /\ Cardinality({i \in DOMAIN drained' : drained'[i].entry.action.kind = "move"}) <= 1
      /\ \A i \in DOMAIN drained' : FALSE
  BY <1>2, NothingDrained
<1>6. SlotTypes'
  BY <1>1, <1>2, <1>3, <1>5 DEF SlotTypes
<1>7. ContextShape'
  BY <1>1, <1>2, <1>3, <1>4 DEF ContextShape, KrumIsSet
<1>8. QueueAccounted'
  BY <1>2, <1>4 DEF QueueAccounted
<1>9. DrainsInOrder'
  <2>1. DOMAIN queue'.entries = {}
    BY <1>4
  <2> QED
    BY <1>5, <2>1 DEF DrainsInOrder
<1>10. SlotInv'
  BY <1>4, <1>6, <1>7, <1>8, <1>9 DEF SlotInv
<1>11. SlotStep
  <2>1. context.released \in Nat
    BY <1>1 DEF Attachment
  <2> QED
    BY <1>2, <1>3, <1>5, <2>1 DEF SlotStep
<1> QED
  BY <1>10, <1>11

\* A new trainer has no Krum; the context keeps the trainer it was built with.
LEMMA StartTrainerSteps == SlotInv /\ StartTrainer => SlotInv' /\ SlotStep
<1> SUFFICES ASSUME SlotInv, StartTrainer PROVE SlotInv' /\ SlotStep
  OBVIOUS
<1>1. /\ SlotTypes /\ QueueGood(queue) /\ ContextShape /\ QueueAccounted /\ DrainsInOrder
      /\ slotTick \in Nat /\ newest \in Nat /\ krumOf \in Seq(Args \cup {-1}) /\ newest = Len(krumOf)
      /\ KrumIsSet(context, krumOf)
  BY DEF SlotInv, SlotTypes, ContextShape
<1>2. /\ newest' = newest + 1 /\ krumOf' = Append(krumOf, -1) /\ slotTick' = slotTick /\ slot' = slot
      /\ queue' = queue /\ context' = context /\ operatorKey' = operatorKey /\ drained' = drained
      /\ leftOver' = leftOver /\ appliedCount' = appliedCount /\ pauseAsked' = pauseAsked
  BY DEF StartTrainer
<1>3. QueueGood(queue)'
  BY <1>1, <1>2, QueueKept
<1>4. /\ krumOf' \in Seq(Args \cup {-1}) /\ Len(krumOf') = Len(krumOf) + 1
      /\ DOMAIN krumOf = 1 .. Len(krumOf) /\ DOMAIN krumOf' = 1 .. Len(krumOf) + 1
      /\ \A t \in DOMAIN krumOf : krumOf'[t] = krumOf[t]
  <2>1. -1 \in Args \cup {-1}
    OBVIOUS
  <2> QED
    BY <1>1, <1>2, <2>1
<1>5. KrumIsSet(context, krumOf')
  <2>1. context.trainer \in Nat /\ Len(krumOf) \in Nat /\ context.trainer <= Len(krumOf)
    BY <1>1 DEF SlotTypes, Attachment, KrumIsSet
  <2>2. context.trainer <= Len(krumOf')
    BY <1>4, <2>1
  <2>3. context.defences.krum_f >= 0 =>
          context.trainer \in DOMAIN krumOf' /\ krumOf'[context.trainer] = context.defences.krum_f
    BY <1>1, <1>4, <2>1 DEF KrumIsSet
  <2> QED
    BY <2>2, <2>3 DEF KrumIsSet
<1>6. SlotTypes'
  BY <1>1, <1>2, <1>4 DEF SlotTypes
<1>7. ContextShape'
  BY <1>1, <1>2, <1>4, <1>5 DEF ContextShape, KrumIsSet
<1>8. QueueAccounted'
  BY <1>1, <1>2 DEF QueueAccounted
<1>9. DrainsInOrder'
  BY <1>1, <1>2 DEF DrainsInOrder
<1>10. SlotInv'
  BY <1>3, <1>6, <1>7, <1>8, <1>9 DEF SlotInv
<1>11. SlotStep
  <2>1. context.released \in Nat /\ operatorKey \in Nat /\ context.defences.key_rotations \in Nat
    BY <1>1 DEF SlotTypes, Attachment, Posture
  <2> QED
    BY <1>2, <2>1 DEF SlotStep
<1> QED
  BY <1>10, <1>11

\* Every step of the slot keeps its invariant and is as claimed.
LEMMA SlotSteps == SlotInv /\ [SlotNext]_slotVars => SlotInv' /\ [SlotStep]_slotVars
<1> SUFFICES ASSUME SlotInv, [SlotNext]_slotVars PROVE SlotInv' /\ [SlotStep]_slotVars
  OBVIOUS
<1>1. CASE SlotNext
  BY <1>1, RequestSteps, ScheduleSteps, SlotTicksSteps, EnableSteps, DisableSteps, StartTrainerSteps
  DEF SlotNext
<1>2. CASE UNCHANGED slotVars
  <2>1. SlotTypes' /\ ContextShape' /\ QueueAccounted' /\ DrainsInOrder'
    BY <1>2 DEF slotVars, SlotInv, SlotTypes, ContextShape, KrumIsSet, QueueAccounted, DrainsInOrder
  <2>2. QueueGood(queue)'
    BY <1>2, QueueKept DEF slotVars, SlotInv, SlotTypes
  <2>3. SlotInv'
    BY <2>1, <2>2 DEF SlotInv
  <2> QED
    BY <1>2, <2>3
<1> QED
  BY <1>1, <1>2

\* What holds between steps is what is claimed of every state.
LEMMA SlotInvSound == SlotInv => QueueAccounted /\ DrainsInOrder /\ ReportedKrumIsSet
<1> SUFFICES ASSUME SlotInv PROVE QueueAccounted /\ DrainsInOrder /\ ReportedKrumIsSet
  OBVIOUS
<1>1. KrumIsSet(context, krumOf)
  BY DEF SlotInv, ContextShape
<1> QED
  BY <1>1 DEF SlotInv, KrumIsSet, ReportedKrumIsSet
==============================================================================
