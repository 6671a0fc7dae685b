-------------------------------- MODULE Charts --------------------------------
(***************************************************************************)
(* Chart export (transport/interactivity.py and the context the API builds *)
(* for it): a metric's part of the dashboard becomes a table, and the table*)
(* a file.  Values are small integers, a key is a model value or number;   *)
(* titles and labels are left out.                                         *)
(***************************************************************************)
EXTENDS Calls

CONSTANTS
  ChartValues,   \* what a series may hold
  MaxSeries,     \* the longest series
  Series,        \* the names of the series of a matrix
  Keys,          \* the public keys a block's proposer and a validator may have
  RecentBlocks,  \* how many blocks the leader chart looks at (12 in the code)
  Vertices,      \* the nodes of an arena
  Adjectives, Nouns  \* how many words there are (26 and 20)

ASSUME ChartsAssumption ==
  /\ ChartValues \subseteq Nat /\ {MaxSeries, RecentBlocks, Adjectives, Nouns} \subseteq Nat \ {0}

------------------------------------------------------------------------------
\* The charts: what a chart's rows need, its columns, and how it is drawn.

Chart(columns, kind) == [columns |-> columns, kind |-> kind, extra |-> {}]
ChartWith(columns, kind, extra) == [columns |-> columns, kind |-> kind, extra |-> {extra}]

TabularMetrics ==
  [inflation |-> Chart(<<"tick", "cpi", "money_supply">>, "line"),
   garch |-> Chart(<<"step", "log_return", "conditional_vol">>, "line"),
   training_curves |-> Chart(<<"iteration", "actor_loss", "critic_loss", "entropy", "kl", "mean_reward">>, "line"),
   wealth |-> Chart(<<"lorenz_x", "lorenz_y">>, "line"),
   candles |-> Chart(<<"product_id", "bucket", "open", "high", "low", "close", "volume">>, "line"),
   mempool |-> Chart(<<"tick", "mempool_size">>, "line"),
   chain_height |-> Chart(<<"tick", "chain_height">>, "line")]

SnapshotMetrics ==
  [trajectory_mean |-> Chart(<<"tick", "trajectory_norm">>, "scatter_fit"),
   trajectory_std |-> Chart(<<"step", "conditional_vol">>, "line"),
   hdbscan_clusters |-> Chart(<<"pc1", "pc2", "label">>, "scatter_labeled"),
   pca |-> ChartWith(<<"component", "eigenvalue", "cumulative_variance">>, "bar", "cumulative_variance"),
   logit |-> Chart(<<"x", "p">>, "line"),
   granger |-> ChartWith(<<"row", "col", "p_value">>, "heatmap", "matrix"),
   economy |-> Chart(<<"product", "units", "revenue">>, "bar"),
   survival |-> Chart(<<"t", "survival", "ci_low", "ci_high">>, "line"),
   spectral |-> Chart(<<"index", "eigenvalue">>, "bar"),
   causal |-> ChartWith(<<"estimator", "ate", "se">>, "bar", "se"),
   var_irf |-> Chart(<<"horizon", "shock", "response", "value">>, "multi_line"),
   anova |-> ChartWith(<<"group", "mean", "se">>, "bar", "se"),
   autocorrelation |-> Chart(<<"lag", "acf", "pacf">>, "grouped_bar"),
   correlations |-> ChartWith(<<"row", "col", "pearson", "spearman">>, "heatmap", "matrix"),
   permutation |-> Chart(<<"sample">>, "hist")]

ContextMetrics ==
  [dp_epsilon_spent |-> Chart(<<"phase", "epsilon">>, "bar"),
   signing_verified |-> Chart(<<"outcome", "count">>, "bar"),
   vrf_leader |-> Chart(<<"validator", "wins">>, "bar"),
   kyber_kem |-> Chart(<<"artifact", "size_bytes">>, "bar"),
   multi_checkpoint |-> Chart(<<"agent_id", "kl">>, "bar"),
   value_map |-> Chart(<<"agent_id", "entropy", "top_prob">>, "bar"),
   gat_attention |-> ChartWith(<<"from", "to", "weight">>, "heatmap", "matrix"),
   arena_graph |-> Chart(<<"degree", "count">>, "bar")]

Metrics == TabularMetrics @@ SnapshotMetrics @@ ContextMetrics

\* The columns without which a renderer returns at once, leaving an empty picture.
\* Fault: the grouped bars want a label and a series of their own per group.
ColumnsNeededByOneMore(kind) == IF kind = "grouped_bar" THEN 4 ELSE 2

ColumnsNeeded(kind) ==
  CASE kind \in {"grouped_bar", "scatter_labeled"} -> 3
    [] kind \in {"bar", "scatter_fit"} -> 2
    [] OTHER -> 1

\* render_png draws something of a table that has rows.
Draws(chart) ==
  /\ Len(chart.columns) >= ColumnsNeeded(chart.kind)
  /\ chart.kind = "heatmap" => "matrix" \in chart.extra

Formats == {"csv", "json", "png"}

\* export_chart: the format is looked at first, then the metric; a picture needs matplotlib.
Exported(metric, format, matplotlib) ==
  IF format \notin Formats THEN [status |-> 400]
  ELSE IF metric \notin DOMAIN Metrics THEN [status |-> 404]
  ELSE IF format = "png" /\ ~matplotlib THEN [status |-> 503]
  ELSE [status |-> 200, drawn |-> format # "png" \/ Draws(Metrics[metric])]

------------------------------------------------------------------------------
\* Series.

At(seq, i, default) == IF i \in DOMAIN seq THEN seq[i] ELSE default

\* Fault: the rows are those of the longer series.
PairedLong(xs, ys) == [i \in 1..Larger(Len(xs), Len(ys)) |-> <<At(xs, i, 0), At(ys, i, 0)>>]

\* inflation, garch, wealth: as many rows as both series have.
Paired(xs, ys) == [i \in 1..Smaller(Len(xs), Len(ys)) |-> <<xs[i], ys[i]>>]

\* autocorrelation: as many rows as one of them has, with zero for the other.
PaddedOut(xs, ys) == [i \in 1..Larger(Len(xs), Len(ys)) |-> <<At(xs, i, 0), At(ys, i, 0)>>]

\* anova: the names decide.
Named(xs, ys) == [i \in DOMAIN xs |-> <<xs[i], At(ys, i, 0)>>]

\* survival: where there is no bound the curve itself is both.
WithBand(times, s, lo, hi) ==
  [i \in 1..Smaller(Len(times), Len(s)) |-> <<times[i], s[i], At(lo, i, s[i]), At(hi, i, s[i])>>]

\* pca: the running sums of the explained shares.
Cumulative(shares) == [i \in DOMAIN shares |-> SumSeq(SubSeq(shares, 1, i))]
WithCumulative(eigenvalues, shares) ==
  [i \in DOMAIN eigenvalues |-> <<i, eigenvalues[i], At(Cumulative(shares), i, 0)>>]

\* candles: one product's after the other's.
Flattened(perProduct) ==
  FlattenSeq([p \in DOMAIN perProduct |-> MapSeq(LAMBDA c : <<p, c>>, perProduct[p])])

\* Fault: the rows are numbered, and not the agents.
NumberedAnew(values) ==
  LET kept == SelectSeq(values, LAMBDA v : v # "junk") IN [i \in DOMAIN kept |-> <<i - 1, kept[i]>>]

\* multi_checkpoint: what is no number is left out, and the place is the agent (value_map leaves
\* out what is no record, and its records name the agent).
Numbered(values) ==
  MapSeq(LAMBDA i : <<i - 1, values[i]>>,
         SelectSeq([i \in DOMAIN values |-> i], LAMBDA i : values[i] # "junk"))

------------------------------------------------------------------------------
\* Matrices: rows of cells over the names of series.

Cells(n) == [k \in 1..n * n |-> <<1 + ((k - 1) \div n), 1 + ((k - 1) % n)>>]
Covers(matrix, n) == Len(matrix) >= n /\ \A i \in 1..n : Len(matrix[i]) >= n
Has(matrix, cell) == cell[1] \in DOMAIN matrix /\ cell[2] \in DOMAIN matrix[cell[1]]
CellOf(matrix, cell) == matrix[cell[1]][cell[2]]

\* granger, correlations: a missing cell raises.
StrictCells(matrix, n) ==
  IF Covers(matrix, n) THEN MapSeq(LAMBDA c : <<c, CellOf(matrix, c)>>, Cells(n)) ELSE <<"raises">>

\* gat_attention: a missing cell has no row.
PresentCells(matrix, n) ==
  MapSeq(LAMBDA c : <<c, CellOf(matrix, c)>>, SelectSeq(Cells(n), LAMBDA c : Has(matrix, c)))

\* var_irf: a missing cell is zero, at every horizon.
ZeroedCells(matrix, n) ==
  MapSeq(LAMBDA c : <<c, IF Has(matrix, c) THEN CellOf(matrix, c) ELSE 0>>, Cells(n))
Responses(irf, n) ==
  FlattenSeq([h \in DOMAIN irf |-> MapSeq(LAMBDA row : [horizon |-> h - 1, pair |-> row[1], value |-> row[2]],
                                          ZeroedCells(irf[h], n))])

\* Fault: the lines keep one point per horizon and not per pair.
LinesByShock(rows) ==
  [s \in {rows[i].pair[1] : i \in DOMAIN rows} |-> SelectSeq(rows, LAMBDA row : row.pair[1] = s)]

\* _render_multi_line: one line for each pair of shock and response.
Lines(rows) ==
  [pair \in {rows[i].pair : i \in DOMAIN rows} |-> SelectSeq(rows, LAMBDA row : row.pair = pair)]

------------------------------------------------------------------------------
\* Counts.

\* Of two validators with one key the first is meant; genesis has nobody's key.
LeaderIndex(validators, proposer) ==
  IF proposer \in Range(validators) THEN Min({i \in DOMAIN validators : validators[i] = proposer}) - 1 ELSE -1

LastOf(chain, n) == SubSeq(chain, Larger(1, Len(chain) - n + 1), Len(chain))

\* Fault: unknown proposers are counted as leader 0.
CountableAll(index) == TRUE
Countable(index) == index >= 0

\* vrf_leader.
Wins(chain, validators) ==
  LET leaders == SelectSeq(MapSeq(LAMBDA b : LeaderIndex(validators, b), LastOf(chain, RecentBlocks)), Countable)
  IN  [v \in Range(leaders) |-> Cardinality(PositionsOf(leaders, LAMBDA x : x = v))]

\* Fault: an edge is counted at one end.
EndsOfOne(edge, v) == IF edge[1] = v THEN 1 ELSE 0
EndsOf(edge, v) == (IF edge[1] = v THEN 1 ELSE 0) + (IF edge[2] = v THEN 1 ELSE 0)

\* arena_graph: a node that only an edge names is counted too.
DegreeOf(edges, v) == SumSeq([i \in DOMAIN edges |-> EndsOf(edges[i], v)])
Histogram(nodes, edges) ==
  LET seen == nodes \cup UNION {Range(edges[i]) : i \in DOMAIN edges} IN
  [d \in {DegreeOf(edges, v) : v \in seen} |-> Cardinality({v \in seen : DegreeOf(edges, v) = d})]

\* agent_name_for.
\* Fault: both words follow the id.
AgentNameShort(id) == <<id % Adjectives, id % Nouns>>
AgentName(id) == <<id % Adjectives, (id \div Adjectives) % Nouns>>

------------------------------------------------------------------------------
SeriesUpTo == SeqsUpTo(ChartValues, MaxSeries)

CallExport ==
  /\ Calling("export")
  /\ \E metric \in DOMAIN Metrics \cup {"nonsense"}, format \in Formats \cup {"svg"}, matplotlib \in BOOLEAN :
       Answer("export", [metric |-> metric, format |-> format, matplotlib |-> matplotlib],
              Exported(metric, format, matplotlib))

CallSeries ==
  /\ Calling("series")
  /\ \E xs, ys, band \in SeriesUpTo :
       Answer("series", [xs |-> xs, ys |-> ys, band |-> band],
              [paired |-> Paired(xs, ys), padded |-> PaddedOut(xs, ys), named |-> Named(xs, ys),
               banded |-> WithBand(xs, ys, band, band), cumulative |-> WithCumulative(xs, ys),
               flattened |-> Flattened(<<xs, ys, band>>)])

CallNumbered ==
  /\ Calling("numbered")
  /\ \E junk \in SUBSET (1..MaxSeries + 1) :
       LET values == [i \in 1..MaxSeries + 1 |-> IF i \in junk THEN "junk" ELSE "number"] IN
       Answer("numbered", values, Numbered(values))

CallMatrix ==
  /\ Calling("matrix")
  /\ \E matrix \in SeqsUpTo(SeqsUpTo({1, 2}, 2), 2) :
       LET n == Cardinality(Series)
           rows == Responses(<<matrix, <<>>, matrix>>, n)
       IN  Answer("matrix", matrix, [strict |-> StrictCells(matrix, n), present |-> PresentCells(matrix, n),
                                     rows |-> rows, lines |-> Lines(rows)])

CallLeaders ==
  /\ Calling("leaders")
  /\ \E chain \in SeqsUpTo(Keys, RecentBlocks + 1), validators \in SeqsUpTo(Keys \ {Max(Keys)}, 2) :
       Answer("leaders", [chain |-> chain, validators |-> validators], Wins(chain, validators))

CallDegrees ==
  /\ Calling("degrees")
  /\ \E nodes \in SUBSET Vertices, edges \in SeqsUpTo(Vertices \X Vertices, 3) :
       Answer("degrees", [nodes |-> nodes, edges |-> edges], Histogram(nodes, edges))

CallNames ==
  /\ Calling("names")
  /\ \E agents \in {1, Adjectives, Adjectives * Nouns, Adjectives * Nouns + 1} :
       Answer("names", agents, [id \in 0..agents - 1 |-> AgentName(id)])

------------------------------------------------------------------------------
\* A chart that the server offers is answered in every format it offers, with a picture that
\* shows the rows; without the drawing library only the picture is refused, and a wrong
\* format is refused before a wrong metric.
OfferedChartsAreDrawn ==
  Answered("export") =>
    LET in == call.in  out == call.out IN
    /\ out.status = 200 <=> /\ in.metric \in DOMAIN Metrics /\ in.format \in Formats
                            /\ in.format = "png" => in.matplotlib
    /\ out.status = 200 => out.drawn
    /\ in.format \notin Formats => out.status = 400

\* Two series of unequal length: no row of a curve has a value that is in neither of them, and
\* none is shifted against the other; a bar that lacks its error is still there; a confidence
\* band is never drawn past its end; running shares do not fall.
SeriesStayAligned ==
  Answered("series") =>
    LET in == call.in  out == call.out IN
    /\ Len(out.paired) = Min({Len(in.xs), Len(in.ys)})
    /\ \A i \in DOMAIN out.paired : out.paired[i] = <<in.xs[i], in.ys[i]>>
    /\ \A i \in DOMAIN out.padded : i \in DOMAIN in.xs => out.padded[i][1] = in.xs[i]
    /\ Len(out.named) = Len(in.xs)
    /\ \A i \in DOMAIN out.banded :
         i > Len(in.band) => out.banded[i][3] = out.banded[i][2] /\ out.banded[i][4] = out.banded[i][2]
    /\ \A i, j \in DOMAIN out.cumulative :
         i < j /\ j <= Len(in.ys) => out.cumulative[i][3] <= out.cumulative[j][3]
    /\ Len(out.flattened) = Len(in.xs) + Len(in.ys) + Len(in.band)

\* Leaving out junk never renumbers the agents after it.
AgentsKeepTheirNumbers ==
  Answered("numbered") =>
    {call.out[i][1] + 1 : i \in DOMAIN call.out} = {i \in DOMAIN call.in : call.in[i] # "junk"}

\* Every cell is shown once and where it belongs, if the matrix is whole; and every impulse
\* response is on one line, as many points as there are horizons, in their order.
CellsAndLinesComplete ==
  Answered("matrix") =>
    LET n == Cardinality(Series)  out == call.out IN
    /\ out.strict # <<"raises">> => out.strict = out.present /\ Len(out.present) = n * n
    /\ DOMAIN out.lines = (1..n) \X (1..n)
    /\ \A pair \in DOMAIN out.lines :
         MapSeq(LAMBDA row : row.horizon, out.lines[pair]) = <<0, 1, 2>>

\* The blocks led add up to the recent blocks with a proposer that is still a validator, and
\* nobody is credited with another's.
WinsAddUp ==
  Answered("leaders") =>
    LET in == call.in
        recent == {i \in DOMAIN in.chain : i > Len(in.chain) - RecentBlocks}
    IN  /\ FoldFunction(+, 0, call.out) = Cardinality({i \in recent : in.chain[i] \in Range(in.validators)})
        /\ \A v \in DOMAIN call.out :
             call.out[v] = Cardinality({i \in recent : in.chain[i] = in.validators[v + 1]})

\* The degrees that the histogram shows add up to twice the number of edges, loops included,
\* and the counts to the number of nodes.
DegreesShakeHands ==
  Answered("degrees") =>
    LET in == call.in  hist == call.out IN
    /\ FoldFunction(+, 0, [d \in DOMAIN hist |-> d * hist[d]]) = 2 * Len(in.edges)
    /\ FoldFunction(+, 0, hist) = Cardinality(in.nodes \cup UNION {Range(in.edges[i]) : i \in DOMAIN in.edges})

\* Agents have different names, as long as there are no more of them than pairs of words.
NamesDistinct ==
  Answered("names") =>
    (Cardinality(Range(call.out)) = call.in <=> call.in <= Adjectives * Nouns)
=============================================================================
