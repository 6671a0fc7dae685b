------------------------------ MODULE OperatorRules ------------------------------
(***************************************************************************)
(* The operator's score card, the comparison of a replay with its original,*)
(* the clauses by which a scenario is won or lost, and the check of a      *)
(* scenario file against its schema (operator/scoring.py, replay.py,       *)
(* scenarios.py).  Amounts are whole numbers, shares are pairs <<n, d>>.   *)
(***************************************************************************)
EXTENDS Calls

CONSTANTS
  CoinAmounts,   \* what a wallet may hold
  Spendings,     \* epsilon spent or granted
  Tallies        \* attacks survived, blocks contributed

ASSUME OperatorRulesAssumption ==
  CoinAmounts \cup Spendings \cup Tallies \subseteq Nat

------------------------------------------------------------------------------
\* OperatorScoreCard.compute.

ProfitBase(start) == IF start > 0 THEN start ELSE 1

\* Fault: a loss is as good as the gain.
NormalisedAbsolute(now, start) ==
  <<ProfitBase(start) + Clamp(AbsDiff(now, start), -ProfitBase(start), ProfitBase(start)), 2 * ProfitBase(start)>>

\* 0.5 + 0.5 * the profit, cut to -1 .. 1.
NormalisedProfit(now, start) ==
  <<ProfitBase(start) + Clamp(now - start, -ProfitBase(start), ProfitBase(start)), 2 * ProfitBase(start)>>

PrivacyPreserved(spent, total) == IF total <= 0 THEN <<0, 1>> ELSE <<Larger(0, total - spent), total>>

Tenths(n) == Clamp(n, 0, 10)

\* The composite over a common denominator; the weights are 4, 3, 2 and 1 tenths.
Composite(c) ==
  LET profit == NormalisedProfit(c.now, c.start)
      privacy == PrivacyPreserved(c.spent, c.total)
  IN  <<40 * profit[1] * privacy[2] + 30 * privacy[1] * profit[2]
          + (2 * Tenths(c.attacks) + Tenths(c.blocks)) * profit[2] * privacy[2],
        100 * profit[2] * privacy[2]>>

AtMost(a, b) == a[1] * b[2] <= b[1] * a[2]

\* scorecard_diff, with amounts in units of its tolerance.
Axes == {"profit", "privacy_preserved", "composite", "attacks_survived", "chain_contribution"}
CountedAxes == {"attacks_survived", "chain_contribution"}

\* Fault: an axis may differ by one, counted or not.
DiffersLoosely(axis, a, b) == AbsDiff(a, b) > 1
Differs(axis, a, b) == IF axis \in CountedAxes THEN a # b ELSE AbsDiff(a, b) > 1

Deterministic(original, replayed) == \A x \in Axes : ~Differs(x, original[x], replayed[x])

------------------------------------------------------------------------------
\* Clauses: [lhs, op, rhs], or one that cannot be split in three or has no number.

KnownLefts ==
  {"operator.coins", "operator.profit", "operator.privacy_preserved", "operator.orders_fulfilled", "tick",
   "elapsed_ticks", "custom.known", "custom.absent"}

\* _resolve_lhs.
LeftSide(lhs, world) ==
  CASE lhs = "operator.coins" -> world.coins
    [] lhs = "operator.profit" -> world.coins - world.coinsStart
    [] lhs \in {"tick", "elapsed_ticks"} -> world.tick - world.startTick
    [] lhs = "operator.orders_fulfilled" -> world.fulfilled
    [] lhs = "custom.known" -> world.custom
    [] lhs = "custom.absent" -> 0
    [] lhs = "operator.privacy_preserved" -> world.privacy

Compare(op, value, rhs) ==
  CASE op = "<" -> value < rhs
    [] op = "<=" -> value <= rhs
    [] op = ">" -> value > rhs
    [] op = ">=" -> value >= rhs
    [] op = "==" -> value = rhs
    [] op = "!=" -> value # rhs
    [] OTHER -> FALSE

Readable(clause) == clause.shape = "three" /\ clause.lhs \in KnownLefts

\* _eval_clause.
Holds(clause, world) == Readable(clause) /\ Compare(clause.op, LeftSide(clause.lhs, world), clause.rhs)

\* Fault: a scenario without conditions is won.
WonAll(victory, world) == \A i \in DOMAIN victory : Holds(victory[i], world)
Won(victory, world) == victory # <<>> /\ \A i \in DOMAIN victory : Holds(victory[i], world)
Lost(failure, world) == \E i \in DOMAIN failure : Holds(failure[i], world)

------------------------------------------------------------------------------
\* Scenario files.  A document is [is |-> type] with fields or items, a schema
\* [type, required, properties, items, enum].

Leaf(type) == [is |-> type, value |-> type]
Plain(type) == [type |-> type, required |-> {}, properties |-> <<>>, items |-> <<>>, enum |-> {}]
Object(required, properties) == [Plain("object") EXCEPT !.required = required, !.properties = properties]
ListOf(item) == [Plain("array") EXCEPT !.items = <<item>>]

\* SCHEMA.json.
ScenarioSchema ==
  Object({"id", "title", "difficulty", "description", "setup", "opening_event", "victory", "failure",
          "allowed_actions", "scoring"},
    [id |-> Plain("string"), title |-> Plain("string"), description |-> Plain("string"),
     difficulty |-> [Plain("string") EXCEPT !.enum = {"easy", "medium", "hard", "open"}],
     setup |-> Object({"seed", "n_agents"},
       [seed |-> Plain("integer"), n_agents |-> Plain("integer"), preconditions |-> Plain("array")]),
     opening_event |-> Object({"kind"}, [kind |-> Plain("string"), payload |-> Plain("object")]),
     victory |-> ListOf(Plain("string")), failure |-> ListOf(Plain("string")),
     allowed_actions |-> ListOf(Plain("string")),
     scoring |-> Object({"weights"}, [weights |-> Plain("object")])])

\* Fault: a number is an integer too.
OfTypeAny(doc, type) == doc.is = type \/ {doc.is, type} = {"number", "integer"}

\* A document has the type; an integer is a number, and a truth value neither.
OfType(doc, type) == doc.is = type \/ (type = "number" /\ doc.is = "integer")

RECURSIVE Conforms(_, _)
\* _validate_against_schema.
Conforms(doc, schema) ==
  /\ OfType(doc, schema.type)
  /\ schema.type = "object" =>
       /\ schema.required \subseteq DOMAIN doc.fields
       /\ \A key \in DOMAIN schema.properties \cap DOMAIN doc.fields :
            Conforms(doc.fields[key], schema.properties[key])
  /\ schema.type = "array" /\ schema.items # <<>> =>
       \A i \in DOMAIN doc.items : Conforms(doc.items[i], schema.items[1])
  /\ schema.enum # {} => doc.value \in schema.enum

DocObject(fields) == [is |-> "object", fields |-> fields]
DocArray(items) == [is |-> "array", items |-> items]

\* A file whose scenario can be played.
GoodDocument ==
  DocObject([id |-> Leaf("string"), title |-> Leaf("string"), description |-> Leaf("string"),
    difficulty |-> [is |-> "string", value |-> "easy"],
    setup |-> DocObject([seed |-> Leaf("integer"), n_agents |-> Leaf("integer"),
                         preconditions |-> DocArray(<<Leaf("string")>>)]),
    opening_event |-> DocObject([kind |-> Leaf("string"), payload |-> DocObject(<<>>)]),
    victory |-> DocArray(<<Leaf("string")>>), failure |-> DocArray(<<>>),
    allowed_actions |-> DocArray(<<Leaf("string")>>),
    scoring |-> DocObject([weights |-> DocObject([profit |-> Leaf("number")])])])

\* _scenario_from_doc: conversions that raise.  Preconditions are texts or single pairs, weights
\* are numbers; the schema says neither.
Converts(doc) ==
  /\ {"id", "title", "difficulty"} \subseteq DOMAIN doc.fields
  /\ LET setup == doc.fields["setup"].fields IN
     "preconditions" \in DOMAIN setup =>
       \A i \in DOMAIN setup["preconditions"].items :
         LET entry == setup["preconditions"].items[i] IN
         \/ entry.is = "string"
         \/ entry.is = "object" /\ Cardinality(DOMAIN entry.fields) = 1
  /\ LET weights == doc.fields["scoring"].fields["weights"].fields IN
     \A w \in DOMAIN weights : weights[w].is \in {"number", "integer", "boolean"}

\* load_scenarios: one file that does not conform, and nothing is loaded.
Loads(docs) == \A i \in DOMAIN docs : Conforms(docs[i], ScenarioSchema) /\ Converts(docs[i])

Without(doc, key) == [doc EXCEPT !.fields = [k \in DOMAIN @ \ {key} |-> @[k]]]
With(doc, key, sub) == [doc EXCEPT !.fields = [k \in DOMAIN @ \cup {key} |-> IF k = key THEN sub ELSE @[k]]]

------------------------------------------------------------------------------
ScoreInputs == [now : CoinAmounts, start : CoinAmounts, spent : Spendings, total : Spendings,
                attacks : Tallies, blocks : Tallies]

CallScore ==
  /\ Calling("score")
  /\ \E c \in ScoreInputs, axis \in {"now", "spent", "attacks", "blocks"} :
       \E more \in {n \in CoinAmounts \cup Spendings : n >= c[axis]} :
         Answer("score", [card |-> c, axis |-> axis],
                [composite |-> Composite(c), changed |-> Composite([c EXCEPT ![axis] = more])])

CallDiff ==
  /\ Calling("diff")
  /\ \E axis \in Axes, a, b \in 0..2 :
       LET card == [x \in Axes |-> 1]  other == [x \in Axes |-> IF x = axis THEN b ELSE 1]
       IN  Answer("diff", [axis |-> axis, by |-> AbsDiff(a, b)],
                  Deterministic([card EXCEPT ![axis] = a], other))

Lefts == {"operator.coins", "operator.profit", "tick", "custom.known", "custom.absent", "operator.luck"}
Clauses == [shape : {"three", "broken"}, lhs : Lefts, op : {"<", "<=", ">", ">=", "==", "!=", "~"}, rhs : {1}]

CallStatus ==
  /\ Calling("status")
  /\ \E a, b \in Clauses, coins \in 0..2, size \in 0..2 :
       LET world == [coins |-> coins, coinsStart |-> 1, tick |-> 3, startTick |-> 3 - coins,
                     fulfilled |-> 0, custom |-> 1, privacy |-> 1]
           clauses == SubSeq(<<a, b>>, 1, size)
       IN  Answer("status", [clauses |-> clauses, world |-> world],
                  [won |-> Won(clauses, world), lost |-> Lost(clauses, world)])

\* The good document with one field of it, or of a part of it, replaced or left out.
CallScenarioFile ==
  /\ Calling("scenario_file")
  /\ \E part \in {"top", "setup", "scoring"} :
     \E whole \in {IF part = "top" THEN GoodDocument ELSE GoodDocument.fields[part]} :
     \E key \in DOMAIN whole.fields,
        sub \in {Leaf(t) : t \in {"string", "integer", "number", "boolean", "null"}}
                \cup {DocArray(<<Leaf("integer")>>), DocObject([x |-> Leaf("string")])} :
     \E edited \in {Without(whole, key), With(whole, key, sub)} :
       LET doc == IF part = "top" THEN edited ELSE With(GoodDocument, part, edited) IN
       Answer("scenario_file", [part |-> part, key |-> key, doc |-> doc],
              [conforms |-> Conforms(doc, ScenarioSchema),
               loads |-> Conforms(doc, ScenarioSchema) /\ Loads(<<GoodDocument, doc>>)])

------------------------------------------------------------------------------
\* The composite lies between 0 and 1, and more coins, more attacks survived or more blocks
\* never lower it, nor more epsilon spent raise it.
ScoreMonotone ==
  Answered("score") =>
    LET out == call.out IN
    /\ AtMost(<<0, 1>>, out.composite) /\ AtMost(out.composite, <<1, 1>>)
    /\ IF call.in.axis = "spent" THEN AtMost(out.changed, out.composite) ELSE AtMost(out.composite, out.changed)

\* A replay counts as the same when what is measured is within the tolerance and what is
\* counted is equal.
DiffNoticesCounts ==
  Answered("diff") =>
    (call.out <=> call.in.by <= (IF call.in.axis \in CountedAxes THEN 0 ELSE 1))

\* A condition that cannot be read decides nothing: with it no scenario is won, and by it none is
\* lost; a scenario is not won for lack of conditions; of two opposite conditions one holds.
UnreadableDecidesNothing ==
  Answered("status") =>
    LET in == call.in  out == call.out
        readable == {i \in DOMAIN in.clauses : in.clauses[i].shape = "three" /\ in.clauses[i].lhs # "operator.luck"
                                               /\ in.clauses[i].op # "~"}
    IN  /\ out.won => in.clauses # <<>> /\ readable = DOMAIN in.clauses
        /\ out.lost => readable # {}
        /\ Len(in.clauses) = 2 /\ readable = {1, 2} /\ in.clauses[1].lhs = in.clauses[2].lhs
             /\ {in.clauses[1].op, in.clauses[2].op} \in {{"<", ">="}, {">", "<="}, {"==", "!="}}
             => out.lost /\ ~out.won

\* Every field is asked for and has its type, the seed and the number of agents an integer, except those that the schema leaves open; and what
\* conforms is loaded, unless it is in the preconditions or the weights, of whose entries the
\* schema does not say enough.
SchemaGuardsTheLoader ==
  Answered("scenario_file") =>
    LET in == call.in  out == call.out
        optional == in.part = "setup" /\ in.key = "preconditions"
    IN  /\ out.conforms /\ ~out.loads => in.key \in {"preconditions", "weights"}
        /\ out.conforms => \A key \in {"seed", "n_agents"} : in.doc.fields["setup"].fields[key].is = "integer"
        /\ in.part = "top" /\ in.key \notin DOMAIN in.doc.fields => ~out.conforms
        /\ in.part # "top" /\ in.key \notin DOMAIN in.doc.fields[in.part].fields => (out.conforms <=> optional)
=============================================================================
