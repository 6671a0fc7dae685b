------------------------------- MODULE Routing -------------------------------
(***************************************************************************)
(* The vehicle routing solvers (core/logistics_or.py): shortest distances  *)
(* over the arena, the greedy routes, and their improvement by reversing   *)
(* stretches (2-opt).  The OR-Tools solver is a library: what is modelled  *)
(* is the problem it is given and the reading of its answer; when it is    *)
(* absent or finds nothing, the code answers with 2-opt.                   *)
(* An order is [id, node, qty]; a stop of a route is its order.            *)
(***************************************************************************)
EXTENDS Calls

CONSTANTS
  Places,        \* the nodes of the arena
  EdgeCosts,     \* the costs an edge may have
  VehicleLoads,  \* the capacities a vehicle may have
  Quantities,
  MaxOrders

ASSUME RoutingAssumption ==
  /\ Places \subseteq Nat /\ EdgeCosts \subseteq Nat \ {0}
  /\ VehicleLoads \subseteq Nat /\ Quantities \subseteq Nat \ {0} /\ MaxOrders \in Nat

\* No path: larger than the cost of any.
Unreachable == 1000

------------------------------------------------------------------------------
\* Distances.  edges is a function from two-element sets of places to costs.

\* Fault: an edge listed the other way round costs the default of one.
LinkCostDirected(edges, u, v) ==
  IF {u, v} \in DOMAIN edges THEN (IF u <= v THEN edges[{u, v}] ELSE 1) ELSE Unreachable

LinkCost(edges, u, v) == IF {u, v} \in DOMAIN edges THEN edges[{u, v}] ELSE Unreachable

RECURSIVE WithinHops(_, _, _, _)
\* The least cost from u to v in at most n hops.
WithinHops(edges, u, v, n) ==
  IF u = v THEN 0
  ELSE IF n = 0 THEN Unreachable
  ELSE Min({LinkCost(edges, u, w) + WithinHops(edges, w, v, n - 1) : w \in Places \ {u}}
           \cup {Unreachable})

DistanceMatrix(edges) ==
  [u \in Places |-> [v \in Places |-> WithinHops(edges, u, v, Cardinality(Places) - 1)]]

RouteLength(dist, start, nodes) ==
  SumSeq([i \in DOMAIN nodes |-> dist[IF i = 1 THEN start ELSE nodes[i - 1]][nodes[i]]])

Stops(route) == MapSeq(LAMBDA o : o.node, route)

------------------------------------------------------------------------------
\* The greedy solver.  A state of its loop: the orders that remain, the routes so far and
\* each vehicle's position and free capacity.

CanTake(dist, s, a, i, orders) ==
  /\ orders[i].qty <= s.cap[a]
  /\ dist[s.pos[a]][orders[i].node] < Unreachable

\* The first of the nearest orders that this vehicle can take.
\* Fault: the vehicle looks at the distance alone.
NearestIgnoringLoad(dist, s, a, orders) ==
  LET fits == {i \in s.left : dist[s.pos[a]][orders[i].node] < Unreachable} IN
  Min({i \in fits : \A j \in fits : dist[s.pos[a]][orders[i].node] <= dist[s.pos[a]][orders[j].node]})

Nearest(dist, s, a, orders) ==
  LET fits == {i \in s.left : CanTake(dist, s, a, i, orders)} IN
  Min({i \in fits : \A j \in fits : dist[s.pos[a]][orders[i].node] <= dist[s.pos[a]][orders[j].node]})

TakeNearest(dist, orders, s, a) ==
  IF s.cap[a] = 0 \/ \A i \in s.left : ~CanTake(dist, s, a, i, orders) THEN s
  ELSE LET i == Nearest(dist, s, a, orders) IN
       [left |-> s.left \ {i},
        routes |-> [s.routes EXCEPT ![a] = Append(@, orders[i])],
        pos |-> [s.pos EXCEPT ![a] = orders[i].node],
        cap |-> [s.cap EXCEPT ![a] = @ - orders[i].qty]]

RECURSIVE GreedyRounds(_, _, _)
\* Rounds of all vehicles until one passes without progress.
GreedyRounds(dist, orders, s) ==
  LET next == FoldLeft(LAMBDA t, a : TakeNearest(dist, orders, t, a), s,
                       [a \in DOMAIN s.routes |-> a])
  IN  IF next = s THEN s ELSE GreedyRounds(dist, orders, next)

Greedy(dist, orders, starts, loads) ==
  GreedyRounds(dist, orders, [left |-> DOMAIN orders, routes |-> [a \in DOMAIN starts |-> <<>>],
                              pos |-> starts, cap |-> loads])

------------------------------------------------------------------------------
\* 2-opt: reverse the first stretch that shortens the route, until none does.

ReversedStretch(route, i, j) ==
  [k \in DOMAIN route |-> IF i <= k /\ k <= j THEN route[i + j - k] ELSE route[k]]

Improvements(dist, start, route) ==
  {ij \in (DOMAIN route) \X (DOMAIN route) :
     /\ ij[1] < ij[2]
     /\ RouteLength(dist, start, Stops(ReversedStretch(route, ij[1], ij[2])))
          < RouteLength(dist, start, Stops(route))}

RECURSIVE TwoOptRoute(_, _, _)
\* Fault: one improvement and no more.
TwoOptRouteOnce(dist, start, route) ==
  LET better == Improvements(dist, start, route) IN
  IF better = {} THEN route
  ELSE LET ij == CHOOSE p \in better : TRUE IN ReversedStretch(route, ij[1], ij[2])

TwoOptRoute(dist, start, route) ==
  LET better == Improvements(dist, start, route) IN
  IF better = {} THEN route
  ELSE LET ij == CHOOSE p \in better : \A q \in better : p[1] < q[1] \/ (p[1] = q[1] /\ p[2] <= q[2])
       IN  TwoOptRoute(dist, start, ReversedStretch(route, ij[1], ij[2]))

TwoOpt(dist, starts, routes) == [a \in DOMAIN routes |-> TwoOptRoute(dist, starts[a], routes[a])]

------------------------------------------------------------------------------
\* solve_or_tools.  A plan: the stops of each vehicle; what is on none of them is dropped.

Tours(S) == UNION {{q \in [1..n -> S] : IsInjective(q)} : n \in 0..Cardinality(S)}

OnRoutes(plan) == UNION {Range(plan[a]) : a \in DOMAIN plan}

\* The capacity of a vehicle bounds the sum of its orders, and an order is on one route.
Plans(orders, loads) ==
  {plan \in [DOMAIN loads -> Tours(DOMAIN orders)] :
     /\ \A a, b \in DOMAIN loads : a # b => Range(plan[a]) \cap Range(plan[b]) = {}
     /\ \A a \in DOMAIN loads : SumSeq([k \in DOMAIN plan[a] |-> orders[plan[a][k]].qty]) <= loads[a]}

\* Fault: dropping an order costs as much as one long edge.
DropPenaltyFlat(dist, stops) == Max({dist[u][v] : u, v \in Places})
DropPenalty(dist, stops) == Max({dist[u][v] : u, v \in Places}) * stops

\* What the solver minimises: tours that return to their start, and the penalties.
PlanCost(dist, orders, starts, plan) ==
  SumSeq([a \in DOMAIN starts |->
            RouteLength(dist, starts[a], Append([k \in DOMAIN plan[a] |-> orders[plan[a][k]].node], starts[a]))])
    + DropPenalty(dist, Len(starts) + Len(orders)) * (Len(orders) - Cardinality(OnRoutes(plan)))

CheapestPlans(dist, orders, starts, loads) ==
  LET plans == Plans(orders, loads) IN
  {p \in plans : \A q \in plans : PlanCost(dist, orders, starts, p) <= PlanCost(dist, orders, starts, q)}

\* The answer lists the orders in the order of the tours, and counts no way back.
Decoded(dist, orders, starts, plan) ==
  LET served == FlattenSeq([a \in DOMAIN starts |-> MapSeq(LAMBDA i : orders[i].id, plan[a])]) IN
  [served |-> served,
   unserved |-> SelectSeq(MapSeq(LAMBDA o : o.id, orders), LAMBDA id : id \notin Range(served)),
   costs |-> [a \in DOMAIN starts |-> RouteLength(dist, starts[a], MapSeq(LAMBDA i : orders[i].node, plan[a]))]]

\* seq[:n] of Python.
UpTo(seq, n) == SubSeq(seq, 1, IF n >= 0 THEN Smaller(n, Len(seq)) ELSE Larger(0, Len(seq) + n))

------------------------------------------------------------------------------
PairsOfPlaces == {e \in SUBSET Places : Cardinality(e) = 2}
Arenas == UNION {[E -> EdgeCosts] : E \in (SUBSET PairsOfPlaces) \ {{}}}
OrderLists == [1..MaxOrders -> [node : Places, qty : Quantities]]

CallRoutes ==
  /\ Calling("routes")
  /\ \E edges \in Arenas : \E dist \in {DistanceMatrix(edges)} :
     \E listed \in OrderLists, starts \in {<<Min(Places)>>, <<Min(Places), Max(Places)>>},
        load \in VehicleLoads :
       LET orders == [i \in DOMAIN listed |-> [id |-> i] @@ listed[i]]
           loads == [a \in DOMAIN starts |-> IF a = 1 THEN load ELSE Min(VehicleLoads)]
           end == Greedy(dist, orders, starts, loads)
       IN  Answer("routes", [edges |-> edges, dist |-> dist, orders |-> orders, starts |-> starts, loads |-> loads],
                  [routes |-> end.routes, left |-> end.left])

\* solve_two_opt is given the greedy solution or one of its caller's.
CallTwoOpt ==
  /\ Calling("twoopt")
  /\ \E edges \in Arenas : \E dist \in {DistanceMatrix(edges)} :
     \E nodes \in [1..(MaxOrders + 1) -> Places], cut \in 0..MaxOrders :
       LET stops == [i \in DOMAIN nodes |-> [id |-> i, node |-> nodes[i], qty |-> 1]]
           routes == <<SubSeq(stops, 1, cut), SubSeq(stops, cut + 1, Len(stops))>>
           starts == <<Min(Places), Max(Places)>>
       IN  Answer("twoopt", [dist |-> dist, starts |-> starts, routes |-> routes],
                  TwoOpt(dist, starts, routes))

\* GET /logistics/vrp-baseline?solver=or_tools: the first of the pending orders, on an arena
\* that is connected (an infinite cost does not convert to an integer).
CallOrTools ==
  /\ Calling("or_tools")
  /\ \E edges \in Arenas : \E dist \in {DistanceMatrix(edges)} :
     /\ \A u, v \in Places : dist[u][v] < Unreachable
     /\ \E listed \in [1..2 -> [node : Places, qty : Quantities]], limit \in -1..2, load \in VehicleLoads,
           starts \in {<<Min(Places)>>, <<Min(Places), Max(Places)>>} :
          LET orders == UpTo([i \in DOMAIN listed |-> [id |-> 10 * i] @@ listed[i]], limit)
              loads == [a \in DOMAIN starts |-> IF a = 1 THEN load ELSE Min(VehicleLoads)]
              in == [orders |-> orders, starts |-> starts, loads |-> loads, dist |-> dist]
          IN  IF orders = <<>> THEN Answer("or_tools", in, [available |-> FALSE])
              ELSE \E plan \in CheapestPlans(dist, orders, starts, loads) :
                     Answer("or_tools", in, [available |-> TRUE] @@ Decoded(dist, orders, starts, plan))

\* Distances are those of shortest paths: no detour over a third place is shorter, and an
\* edge is never shorter than the distance it spans.
DistancesShortest ==
  Answered("routes") =>
    LET d == call.in.dist IN
    \A u, v \in Places :
      /\ d[u][u] = 0 /\ d[u][v] = d[v][u]
      /\ \A w \in Places : d[u][v] <= d[u][w] + d[w][v]
      /\ {u, v} \in DOMAIN call.in.edges => d[u][v] <= call.in.edges[{u, v}]

\* Each order is on one route once or left over; no vehicle carries more than it can; and an
\* order is left only if no vehicle could still take it.
GreedyServesWhatFits ==
  Answered("routes") =>
    LET in == call.in  out == call.out
        Load(a) == SumSeq(MapSeq(LAMBDA o : o.qty, out.routes[a]))
        End(a) == IF out.routes[a] = <<>> THEN in.starts[a] ELSE Last(out.routes[a]).node
    IN  /\ \A i \in DOMAIN in.orders :
             Cardinality({ak \in UNION {{a} \X DOMAIN out.routes[a] : a \in DOMAIN in.starts} :
                            out.routes[ak[1]][ak[2]].id = i}) = (IF i \in out.left THEN 0 ELSE 1)
        /\ \A a \in DOMAIN in.starts :
             /\ Load(a) <= in.loads[a]
             /\ \A i \in out.left :
                  \/ in.orders[i].qty > in.loads[a] - Load(a)
                  \/ in.dist[End(a)][in.orders[i].node] = Unreachable

\* 2-opt leaves every vehicle its orders, never makes a route longer, and stops only where
\* no reversal helps.
TwoOptImproves ==
  Answered("twoopt") =>
    LET in == call.in
        Length(a, r) == RouteLength(in.dist, in.starts[a], Stops(r))
    IN  \A a \in DOMAIN in.starts :
          LET old == in.routes[a]  new == call.out[a] IN
          /\ Len(new) = Len(old) /\ Range(new) = Range(old)
          /\ Length(a, new) <= Length(a, old)
          /\ \A i, j \in DOMAIN new :
               i < j => Length(a, new) <= Length(a, SubSeq(new, 1, i - 1)
                          \o Reverse(SubSeq(new, i, j)) \o SubSeq(new, j + 1, Len(new)))

\* Every order is served or listed as unserved, once, and the penalty for dropping one is large
\* enough: a cheapest plan drops no order that any other would serve.  (Not so for a single
\* order of a single vehicle, whose way there and back may cost just as much.)
DropsOnlyWhatDoesNotFit ==
  Answered("or_tools") /\ call.out.available =>
    LET in == call.in  out == call.out  ids == {in.orders[i].id : i \in DOMAIN in.orders} IN
    /\ Range(out.served) \cup Range(out.unserved) = ids
    /\ Len(out.served) + Len(out.unserved) = Cardinality(ids)
    /\ Len(in.orders) + Len(in.starts) > 2 =>
         \A plan \in Plans(in.orders, in.loads) : Cardinality(OnRoutes(plan)) <= Len(out.served)
=============================================================================
