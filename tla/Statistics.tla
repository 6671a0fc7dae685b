------------------------------ MODULE Statistics ------------------------------
(***************************************************************************)
(* Figures of the dashboard that are exact functions of what was observed: *)
(* the candles, the market's totals, the distribution of wealth and the    *)
(* bars of a persistence diagram (analytics/dashboard_pipeline.py), change *)
(* points, an effect size and the risk of a tail (time_series.py,          *)
(* inferential.py, monte_carlo.py).  Prices and coins are whole numbers.   *)
(***************************************************************************)
EXTENDS Calls

CONSTANTS
  TradeSet, TradeWindow, BucketTicks, TopTraded,   \* trades; the latest 1500, 20 ticks, 3 products
  PurchaseSet, PurchaseWindow, BasketCap, Catalogue,  \* purchases; the latest 800, 10, and known products
  Wealths, MinWealths,                             \* coins of an agent; agents for a curve (5)
  SeriesLevels, Penalty, MinSegment,                     \* of a series and its change points
  Samples, ConfidenceTenths,                       \* observations and losses
  Births, Deaths                                   \* of a bar; 0 is never

ASSUME StatisticsAssumption ==
  /\ \A n \in {TradeWindow, BucketTicks, TopTraded, PurchaseWindow, BasketCap, MinWealths, MinSegment} : n \in Nat \ {0}
  /\ Wealths \cup SeriesLevels \cup Samples \cup Births \cup Deaths \subseteq Nat /\ Penalty \in Nat
  /\ ConfidenceTenths \in 1..9

Latest(seq, n) == SubSeq(seq, Larger(1, Len(seq) - n + 1), Len(seq))
RangeOf(seq) == {seq[i] : i \in DOMAIN seq}
LargestOf(S) == CHOOSE n \in S : \A m \in S : m <= n
SmallestOf(S) == CHOOSE n \in S : \A m \in S : n <= m
SumOver(seq, Where(_), Of(_)) == FoldLeft(LAMBDA t, e : IF Where(e) THEN t + Of(e) ELSE t, 0, seq)
InOrderOfSize(a, b) == a < b

------------------------------------------------------------------------------
\* DashboardPipeline._compute_candles.

VolumeOf(trades, product) == SumOver(trades, LAMBDA t : t.product = product, LAMBDA t : t.quantity)
FirstSeen(trades, product) == SmallestOf({i \in DOMAIN trades : trades[i].product = product})

\* Fault: the products that sell least.
BeforeLeast(trades, a, b) == VolumeOf(trades, a) < VolumeOf(trades, b)

\* Larger volumes first, ties by first trade.
Before(trades, a, b) ==
  \/ VolumeOf(trades, a) > VolumeOf(trades, b)
  \/ VolumeOf(trades, a) = VolumeOf(trades, b) /\ FirstSeen(trades, a) < FirstSeen(trades, b)

TopProducts(trades) ==
  LET products == {t.product : t \in RangeOf(trades)}
  IN  {p \in products : Cardinality({q \in products : Before(trades, q, p)}) < TopTraded}

BucketOf(trade) == (trade.tick \div BucketTicks) * BucketTicks

\* The trades of a product in a bucket, in the order of their ticks and then of their arrival.
InBucket(trades, product, bucket) ==
  SortSeq(SelectSeq([i \in DOMAIN trades |-> trades[i] @@ [at |-> i]],
                    LAMBDA t : t.product = product /\ BucketOf(t) = bucket),
          LAMBDA a, b : a.tick < b.tick \/ (a.tick = b.tick /\ a.at < b.at))

Candle(trades, product, bucket) ==
  LET bars == InBucket(trades, product, bucket)
      prices == {t.price : t \in RangeOf(bars)}
  IN  [bucket |-> bucket, open |-> bars[1].price, close |-> bars[Len(bars)].price,
       high |-> LargestOf(prices), low |-> SmallestOf(prices),
       volume |-> SumOver(bars, LAMBDA t : TRUE, LAMBDA t : t.quantity)]

\* One series for each of the top products, a candle for each bucket with a trade.
Candles(trades) ==
  LET recent == Latest(trades, TradeWindow) IN
  [p \in TopProducts(recent) |->
     {Candle(recent, p, b) : b \in {BucketOf(t) : t \in {t \in RangeOf(recent) : t.product = p}}}]

------------------------------------------------------------------------------
\* DashboardPipeline._compute_economy.

\* Fault: what an agent buys at any time is one basket.
BasketKeyLoose(purchase) == <<purchase.agent>>
BasketKey(purchase) == <<purchase.agent, purchase.tick>>

Economy(purchases) ==
  LET recent == Latest(purchases, PurchaseWindow)
      products == {p.product : p \in RangeOf(recent)}
      keys == {BasketKey(p) : p \in RangeOf(recent)}
      Units(product) == SumOver(recent, LAMBDA p : p.product = product, LAMBDA p : p.quantity)
      Basket(key) == Smaller(BasketCap, SumOver(recent, LAMBDA p : BasketKey(p) = key, LAMBDA p : p.quantity))
  IN  [total |-> Len(recent), revenue |-> SumOver(recent, LAMBDA p : TRUE, LAMBDA p : p.price),
       units |-> [p \in products \cap Catalogue |-> Units(p)],
       counted |-> SumOver(recent, LAMBDA p : TRUE, LAMBDA p : p.quantity),
       histogram |-> [size \in {Basket(k) : k \in keys} |-> Cardinality({k \in keys : Basket(k) = size})]]

------------------------------------------------------------------------------
\* DashboardPipeline._compute_wealth.

\* Fault: the curve is drawn in the order of the agents.
OrderedAsListed(wealths) == wealths
Ordered(wealths) == SortSeq(wealths, InOrderOfSize)

NoCurve == <<>>

\* The Lorenz curve's points times the total, and the Gini coefficient: one minus twice the area,
\* of which the trapezoid before the first point is left out.
WealthReport(wealths) ==
  LET n == Len(wealths)
      total == SumSeq(wealths)
      sorted == Ordered(wealths)
      curve == [k \in 1..n |-> SumSeq(SubSeq(sorted, 1, k))]
      doubled == SumSeq([k \in 1..n - 1 |-> curve[k] + curve[k + 1]])
  IN  IF n < MinWealths \/ total <= 0 THEN NoCurve
      ELSE [curve |-> curve, gini |-> <<Clamp(n * total - doubled, 0, n * total), n * total>>]

------------------------------------------------------------------------------
\* detect_mean_changepoints.  The gain of a split is (nr * Sl - nl * Sr)^2 / (nl * nr * (nl + nr)).

GainOf(series, start, split) ==
  LET left == SubSeq(series, start + 1, split)  right == SubSeq(series, split + 1, Len(series))
      d == Len(right) * SumSeq(left) - Len(left) * SumSeq(right)
  IN  <<d * d, Len(left) * Len(right) * (Len(left) + Len(right))>>

LessThan(a, b) == a[1] * b[2] < b[1] * a[2]

\* Fault: the last segment may be one too short.
SplitsShort(series, start) == start + MinSegment..Len(series) - MinSegment + 1
Splits(series, start) == start + MinSegment..Len(series) - MinSegment

\* The first split with the largest gain, if it has one at all.
BestSplit(series, start) ==
  LET best == {s \in Splits(series, start) : GainOf(series, start, s)[1] > 0
                 /\ \A t \in Splits(series, start) : ~LessThan(GainOf(series, start, s), GainOf(series, start, t))}
  IN  IF best = {} THEN 0 ELSE SmallestOf(best)

\* From the left end, and then from each split on; what is left of a split is not looked at again.
ChangePoints(series) ==
  LET next[start \in 0..Len(series)] ==
        LET split == BestSplit(series, start) IN
        IF start >= Len(series) - MinSegment \/ split = 0 \/ LessThan(GainOf(series, start, split), <<Penalty, 1>>)
        THEN <<>> ELSE <<split>> \o next[split]
  IN  IF Len(series) < 2 * MinSegment THEN <<>> ELSE next[0]

------------------------------------------------------------------------------
\* cliff_delta and var_cvar.

\* Fault: a tie counts for the first sample.
ExceedsOrTies(x, y) == x >= y
Exceeds(x, y) == x > y

CliffDelta(a, b) ==
  LET PairsWith(Test(_, _)) == Cardinality({p \in (DOMAIN a) \X (DOMAIN b) : Test(a[p[1]], b[p[2]])})
  IN  <<PairsWith(Exceeds) - PairsWith(LAMBDA x, y : x < y), Len(a) * Len(b)>>

\* np.quantile, in tenths: the value at (n - 1) * c, with the line between its two neighbours.
Quantile(losses, c) ==
  LET sorted == SortSeq(losses, InOrderOfSize)
      at == (Len(losses) - 1) * c
      low == (at \div 10) + 1
      high == Smaller(low + 1, Len(losses))
  IN  10 * sorted[low] + (at % 10) * (sorted[high] - sorted[low])

\* Fault: the losses up to the quantile.
InTailBelow(loss, quantile) == 10 * loss <= quantile
InTail(loss, quantile) == 10 * loss >= quantile

Risk(losses) ==
  LET value == Quantile(losses, ConfidenceTenths)
      tail == SelectSeq(losses, LAMBDA l : InTail(l, value))
  IN  [var |-> <<value, 10>>, cvar |-> IF tail = <<>> THEN <<value, 10>> ELSE <<SumSeq(tail), Len(tail)>>]

------------------------------------------------------------------------------
\* _bars_payload.  A death of 0 is never; lengths are in twentieths.

Forever == 0

\* Fault: what never dies dies with the last of the others.
MarginNone(last) == 20 * last
Margin(last) == 21 * last

DrawnBars(bars) ==
  LET finite == {b.death : b \in RangeOf(bars)} \ {Forever}
      last == IF finite = {} THEN 1 ELSE LargestOf(finite)
      Drawn(b) == [birth |-> 20 * b.birth, death |-> IF b.death = Forever THEN Margin(last) ELSE 20 * b.death]
  IN  SortSeq(MapSeq(Drawn, bars), LAMBDA a, b : a.birth - a.death < b.birth - b.death)

------------------------------------------------------------------------------
CallCandles ==
  /\ Calling("candles")
  /\ \E trades \in SeqsUpTo(TradeSet, TradeWindow + 1) : Answer("candles", trades, Candles(trades))

CallEconomy ==
  /\ Calling("economy")
  /\ \E purchases \in SeqsUpTo(PurchaseSet, PurchaseWindow + 1) : Answer("economy", purchases, Economy(purchases))

\* A distribution, and the same after one coin has gone from one agent to another.
CallWealth ==
  /\ Calling("wealth")
  /\ \E n \in {MinWealths - 1, MinWealths} : \E w \in [1..n -> Wealths], from, to \in 1..n :
       /\ from # to /\ w[from] > 0
       /\ Answer("wealth", [wealths |-> w, from |-> from, to |-> to],
                 [before |-> WealthReport(w),
                  after |-> WealthReport([w EXCEPT ![from] = @ - 1, ![to] = @ + 1])])

CallChangePoints ==
  /\ Calling("change_points")
  /\ \E series \in SeqsUpTo(SeriesLevels, 3 * MinSegment + 1) : Answer("change_points", series, ChangePoints(series))

CallCliffDelta ==
  /\ Calling("cliff_delta")
  /\ \E a, b \in SeqsUpTo(Samples, 2) \ {<<>>} :
       Answer("cliff_delta", [a |-> a, b |-> b], [ab |-> CliffDelta(a, b), ba |-> CliffDelta(b, a)])

CallRisk ==
  /\ Calling("risk")
  /\ \E losses \in SeqsUpTo(Samples, 4) \ {<<>>} : Answer("risk", losses, Risk(losses))

CallBars ==
  /\ Calling("bars")
  /\ \E bars \in SeqsUpTo({b \in [birth : Births, death : Deaths \cup {Forever}] :
                             b.death = Forever \/ b.birth < b.death}, 3) :
       Answer("bars", bars, DrawnBars(bars))

------------------------------------------------------------------------------
\* The candles of a product account for all of its trades in the window, each within its own high
\* and low, and a product without candles does not outsell one that has them.
CandlesAddUp ==
  Answered("candles") =>
    LET recent == Latest(call.in, TradeWindow)  out == call.out IN
    /\ \A p \in DOMAIN out :
         /\ FoldSet(LAMBDA c, t : t + c.volume, 0, out[p]) = VolumeOf(recent, p)
         /\ \A c \in out[p] : c.low <= c.open /\ c.open <= c.high /\ c.low <= c.close /\ c.close <= c.high
         /\ \A c, d \in out[p] : c.bucket = d.bucket => c = d
    /\ \A t \in RangeOf(recent) \ {t \in RangeOf(recent) : t.product \in DOMAIN out} :
         Cardinality(DOMAIN out) = TopTraded /\ \A p \in DOMAIN out : VolumeOf(recent, p) >= VolumeOf(recent, t.product)

\* A basket is what one agent buys in one tick: the histogram counts each of them once, and without
\* a basket over the cap the baskets hold what was bought.  Units of unknown products are missing.
BasketsHoldTheUnits ==
  Answered("economy") =>
    LET recent == Latest(call.in, PurchaseWindow)  out == call.out
        sizes == DOMAIN out.histogram
    IN  /\ FoldSet(LAMBDA s, t : t + out.histogram[s], 0, sizes)
             = Cardinality({<<p.agent, p.tick>> : p \in RangeOf(recent)})
        /\ (\A s \in sizes : s < BasketCap) =>
             FoldSet(LAMBDA s, t : t + s * out.histogram[s], 0, sizes) = out.counted
        /\ FoldSet(LAMBDA p, t : t + out.units[p], 0, DOMAIN out.units) <= out.counted

\* A coin that goes from a poorer agent to a richer one makes wealth more unequal, never less,
\* although the area under the curve lacks its first trapezoid; the coefficient is a share.
TransfersRaiseGini ==
  Answered("wealth") =>
    LET in == call.in  out == call.out IN
    out.before # NoCurve /\ out.after # NoCurve =>
      /\ out.before.gini[1] \in 0..out.before.gini[2]
      /\ in.wealths[in.from] <= in.wealths[in.to] => ~LessThan(out.after.gini, out.before.gini)

\* Two change points, and a change point and either end, are a segment apart.
SegmentsLongEnough ==
  Answered("change_points") =>
    LET ends == <<0>> \o call.out \o <<Len(call.in)>> IN
    call.out # <<>> => \A i \in 1..Len(ends) - 1 : ends[i + 1] - ends[i] >= MinSegment

\* The effect has the other sign from the other side, ties count for neither, and it is one
\* exactly if every observation exceeds every other.
DeltaAntisymmetric ==
  Answered("cliff_delta") =>
    LET in == call.in  out == call.out IN
    /\ out.ab[1] = -out.ba[1]
    /\ out.ab[1] = out.ab[2] <=> \A x \in RangeOf(in.a), y \in RangeOf(in.b) : x > y

\* The tail costs at least what is at risk, and at most the largest loss.
TailCostsMore ==
  Answered("risk") =>
    LET out == call.out IN
    ~LessThan(out.cvar, out.var) /\ ~LessThan(<<LargestOf(RangeOf(call.in)), 1>>, out.cvar)

\* Every bar has an end, the longest first, and one that never dies ends after all that do.
BarsDrawnToTheEdge ==
  Answered("bars") =>
    LET out == call.out
        dying == {20 * b.death : b \in {b \in RangeOf(call.in) : b.death # Forever}}
        undying == {b \in RangeOf(call.in) : b.death = Forever}
    IN  /\ Len(out) = Len(call.in)
        /\ \A i \in 1..Len(out) - 1 : out[i].death - out[i].birth >= out[i + 1].death - out[i + 1].birth
        /\ undying # {} => \E i \in DOMAIN out : \A d \in dying : out[i].death > d
=============================================================================
