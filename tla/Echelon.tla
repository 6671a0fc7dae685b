-------------------------------- MODULE Echelon --------------------------------
(***************************************************************************)
(* The three-tier supply network (core/logistics_echelon.py): suppliers    *)
(* produce, distributors and cities reorder from the node upstream, goods  *)
(* travel for a lead time, cities serve demand.  The orchestrator builds   *)
(* it over the nodes of the arena and steps it with the logistics tick.    *)
(* One product, as in the orchestrator.                                    *)
(***************************************************************************)
EXTENDS Maps, Functions

CONSTANTS
  NodeCount,                     \* nodes are 1..NodeCount, sorted as the builder sorts them
  Initial, Production, Lead, ReorderPoint, OrderUpTo,
  Demands,                       \* what a city may be asked for in a step
  MaxTicks                       \* bound

VARIABLES
  netTick, inventory,            \* EchelonNetwork
  inFlight,                      \* a set: a node orders once in a step, and the code adds up only
  orderHistory,                  \* what each node ordered, step by step
  servedTotal                    \* history: all that the cities served

netVars == <<netTick, inventory, inFlight, orderHistory, servedTotal>>

\* Python's round of n * tenths / 10: a half goes to the even neighbour.
RoundedShare(n, tenths) ==
  LET whole == (n * tenths) \div 10
      rest == (n * tenths) % 10
  IN  IF rest > 5 \/ (rest = 5 /\ whole % 2 = 1) THEN whole + 1 ELSE whole

AtLeastOne(k) == IF k < 1 THEN 1 ELSE k
SupplierCount == AtLeastOne(RoundedShare(NodeCount, 2))
DistributorCount == AtLeastOne(RoundedShare(NodeCount, 3))

Suppliers == 1..SupplierCount
Distributors == SupplierCount + 1..SupplierCount + DistributorCount
Cities == SupplierCount + DistributorCount + 1..NodeCount
Reordering == Distributors \cup Cities

ASSUME EchelonAssumption ==
  /\ {NodeCount, Lead} \subseteq Nat \ {0}
  /\ {Initial, Production, ReorderPoint, OrderUpTo, MaxTicks} \subseteq Nat
  /\ Demands \subseteq Nat /\ ReorderPoint <= OrderUpTo
  /\ Cities # {}                     \* build refuses a network without cities

\* build deals the cities out to the distributors, and these to the suppliers, in turn.
UpstreamOf(n) ==
  IF n \in Cities
  THEN SupplierCount + 1 + ((n - SupplierCount - DistributorCount - 1) % DistributorCount)
  ELSE 1 + ((n - SupplierCount - 1) % SupplierCount)

NetInit ==
  /\ netTick = 0 /\ inventory = [n \in 1..NodeCount |-> Initial] /\ inFlight = {}
  /\ orderHistory = [n \in 1..NodeCount |-> <<>>] /\ servedTotal = 0

QuantityOf(shipments) == SumFunctionOnSet([s \in shipments |-> s.quantity], shipments)
To(n, shipments) == {s \in shipments : s.to = n}

ArrivedLate(s) == s.arrives < netTick

\* Fault: what is due now travels for one step more.
Arrived(s) == s.arrives <= netTick
\* Fault: arrived goods stay in flight.
RemainingAll(shipments) == shipments
Remaining(shipments) == {s \in shipments : ~Arrived(s)}

\* Production, and the arrivals.
Stocked ==
  LET arrived == {s \in inFlight : Arrived(s)} IN
  [n \in 1..NodeCount |-> inventory[n] + (IF n \in Suppliers THEN Production ELSE 0)
                          + QuantityOf(To(n, arrived))]

\* Fault: a city serves what it is asked for.
ServedAll(stock, demand, n) == demand[n]
Served(stock, demand, n) == IF stock[n] < demand[n] THEN stock[n] ELSE demand[n]

\* Fault: goods that are on their way are forgotten.
QuantityIgnoringOrders(stock, onOrder, n) ==
  IF stock[n] < ReorderPoint THEN OrderUpTo - stock[n] ELSE 0

\* Fault: half of what is missing is ordered.
QuantityOfHalf(stock, onOrder, n) ==
  IF stock[n] + onOrder[n] < ReorderPoint THEN (OrderUpTo - stock[n] - onOrder[n]) \div 3 ELSE 0

Quantity(stock, onOrder, n) ==
  IF stock[n] + onOrder[n] < ReorderPoint THEN OrderUpTo - stock[n] - onOrder[n] ELSE 0

\* One node after the other orders from what the earlier ones left upstream.
\* Fault: the node upstream keeps what it ships.
ShipKept(stock, n, shipped) == stock
Ship(stock, n, shipped) == [stock EXCEPT ![UpstreamOf(n)] = @ - shipped]

Placing(before, onOrder, n) ==
  LET wanted == Quantity(before.stock, onOrder, n)
      available == before.stock[UpstreamOf(n)]
      shipped == IF wanted < available THEN wanted ELSE available
  IN  [stock |-> Ship(before.stock, n, shipped), placed |-> [before.placed EXCEPT ![n] = shipped]]

Ordered(stock, onOrder) ==
  LET upTo[n \in SupplierCount..NodeCount] ==
        IF n = SupplierCount THEN [stock |-> stock, placed |-> [k \in 1..NodeCount |-> 0]]
        ELSE Placing(upTo[n - 1], onOrder, n)
  IN  upTo[NodeCount]

Shipments(placed) ==
  {[to |-> n, quantity |-> placed[n], arrives |-> netTick + Lead] : n \in {k \in Reordering : placed[k] > 0}}

\* The orchestrator asks every city for the same; a caller may ask for anything.
CityDemands == [Cities -> Demands]

\* step.
NetStep ==
  /\ netTick < MaxTicks
  /\ \E demand \in CityDemands :
       LET stock == Stocked
           sold == [n \in 1..NodeCount |-> IF n \in Cities THEN Served(stock, demand, n) ELSE 0]
           travelling == Remaining(inFlight)
           ordered == Ordered([n \in 1..NodeCount |-> stock[n] - sold[n]],
                             [n \in 1..NodeCount |-> QuantityOf(To(n, travelling))])
       IN  /\ servedTotal' = servedTotal + SumFunction(sold)
           /\ inventory' = ordered.stock
           /\ inFlight' = travelling \cup Shipments(ordered.placed)
           /\ orderHistory' = [n \in 1..NodeCount |->
                IF n \in Reordering THEN Append(orderHistory[n], ordered.placed[n]) ELSE orderHistory[n]]
  /\ netTick' = netTick + 1

------------------------------------------------------------------------------
\* Goods are neither lost nor made outside the suppliers: what is on shelves, on the road or
\* sold adds up to what there was and what was produced.
GoodsConserved ==
  SumFunction(inventory) + QuantityOf(inFlight) + servedTotal
    = NodeCount * Initial + netTick * SupplierCount * Production

\* No shelf goes below zero, though two nodes may order from one in the same step.
ShelvesNotNegative == \A n \in 1..NodeCount : inventory[n] >= 0

\* A node's stock and what is on its way to it never exceed its target.
PositionWithinTarget ==
  \A n \in Reordering :
    inventory[n] + QuantityOf(To(n, inFlight)) <= (IF Initial > OrderUpTo THEN Initial ELSE OrderUpTo)

\* A city that is left short has emptied its distributor (a distributor may be left short by
\* the cities that order after it).
ShortOnlyIfUpstreamEmpty ==
  netTick > 0 =>
    \A n \in Cities :
      inventory[n] + QuantityOf(To(n, inFlight)) < ReorderPoint => inventory[UpstreamOf(n)] = 0

\* Nothing travels for longer than the lead time, or is overdue.
NothingOverdue ==
  \A s \in inFlight : s.arrives \in netTick..netTick + Lead - 1

\* Over any demand: no goods come or go between the tiers, no node orders what is on its way
\* already, and a node is short only when its upstream is empty.
NetworkSound ==
  /\ GoodsConserved /\ ShelvesNotNegative /\ PositionWithinTarget
  /\ ShortOnlyIfUpstreamEmpty /\ NothingOverdue
=============================================================================
