------------------------------ MODULE Logistics ------------------------------
(***************************************************************************)
(* The market and its supply chain: core/economy.py, core/logistics.py and *)
(* the logistics step of the orchestrator, with the operator's handlers    *)
(* that trade and place orders.                                            *)
(*                                                                         *)
(* Everything here runs on the event loop.  One pass of the analytics loop *)
(* runs without an await from the market's tick to the end of the          *)
(* logistics step; it is split here into the bodies of its loops, and the  *)
(* other handlers run only while phase is "idle".                          *)
(*                                                                         *)
(* Abstractions: one product; any amount that goods and cargo admit may be *)
(* traded (prices, coins and rewards are left out); the graph of cities is *)
(* complete and its weights, which drift, put the agents outside the city  *)
(* of an order in any order; an age stops at the threshold it is compared  *)
(* with.  Agents may be blocked for a while; who is, at each moment, is    *)
(* left open, and a blocked agent that does not trade looks like one that  *)
(* does not want to.                                                       *)
(***************************************************************************)
EXTENDS Integers, FiniteSets, Functions

CONSTANTS
    NAgents, NCities,
    MaxInventory,   \* max_inventory of a city, 60
    Capacity,       \* cargo capacity of an agent, 20
    StaleAfter,     \* stale_threshold, three lead times, in ticks
    PhantomAfter,   \* phantom_threshold, five lead times
    Policies,       \* the reorder policies in use: fractions <<s, S>> in percent
    Spikes,         \* the factors of a volatility spike in use, in percent
    DecayTicks,     \* ticks that a volatility spike lasts, 60
    MaxQuantity,    \* bound: largest order, and purchase, of the operator
    MaxOrders       \* bound: orders placed

\* The fractions the program starts with, and the policies in use as long as nobody sets another.
DefaultFractions == <<30, 80>>
DefaultPolicy == {DefaultFractions}

ASSUME LogisticsAssumption ==
    /\ NAgents \in Nat /\ NCities \in Nat \ {0}
    /\ MaxInventory \in Nat /\ Capacity \in Nat /\ DecayTicks \in Nat
    /\ StaleAfter \in Nat \ {0} /\ PhantomAfter \in Nat \ {0}
    /\ Policies \subseteq (1 .. 100) \X (1 .. 100) /\ DefaultFractions \in Policies
    /\ Spikes \subseteq 100 .. 300
    /\ MaxQuantity \in Nat /\ MaxOrders \in Nat

VARIABLES
    phase,      \* where the analytics loop is
    todo,       \* what the loop it is in has still to visit
    position,   \* where the agents and the operator are
    previous,   \* _previous_node, 0 for an agent that has none
    stock,      \* per city, its inventory
    goods,      \* per wallet, its inventory
    policy,     \* the reorder points and the volatility window
    next_id,    \* next_id of the order book
    book,       \* the orders
    pending,    \* the orders in the pending list, oldest first
    restock     \* history: the orders that the cities placed by themselves

vars == <<phase, todo, position, previous, stock, goods, policy,
          next_id, book, pending, restock>>

market == <<position, previous, stock, goods>>
orders == <<next_id, book, pending, restock>>

Agent == 0 .. NAgents - 1
Operator == NAgents
Carrier == 0 .. NAgents
City == 1 .. NCities
OrderId == 0 .. MaxOrders - 1

None == -1      \* no carrier

Phase == {"idle", "market", "reorder", "assign", "settle"}

Order == [city : City, quantity : Nat, age : 0 .. PhantomAfter,
          by : Carrier \cup {None}, since : 0 .. StaleAfter]

Smaller(x, y) == IF x <= y THEN x ELSE y
Larger(x, y) == IF x <= y THEN y ELSE x
First(S) == CHOOSE x \in S : \A y \in S : x <= y

\* ReorderPolicy.fractional.
Fractional(f) ==
    LET base == Larger(1, (MaxInventory * f[1]) \div 100)
    IN  [s |-> base, base |-> base, big_s |-> Larger(2, (MaxInventory * f[2]) \div 100),
         volatile |-> FALSE, left |-> 0]

Blank == [city |-> 1, quantity |-> 0, age |-> 0, by |-> None, since |-> 0]

Init ==
    /\ phase = "idle" /\ todo = {}
    /\ position \in [Carrier -> City]
    /\ previous = [a \in Agent |-> 0]
    /\ stock = [c \in City |-> MaxInventory \div 2]
    /\ goods = [a \in Carrier |-> 0]
    /\ policy = Fractional(DefaultFractions)
    /\ next_id = 0
    /\ book = [o \in OrderId |-> Blank]
    /\ pending = {}
    /\ restock = {}

----------------------------------------------------------------------------
(* The simulation's tick, the bus and the API.                             *)

\* Ages stop at the threshold they are compared with.
Aged(r) ==
    [city |-> r.city, quantity |-> r.quantity, by |-> r.by,
     age |-> Smaller(r.age + 1, PhantomAfter),
     since |-> IF r.by = None THEN 0 ELSE Smaller(r.since + 1, StaleAfter)]

\* Simulation._tick: each agent stays or moves to a neighbour.
Tick ==
    /\ phase = "idle"
    /\ \E moved \in [Agent -> City] :
           position' = [a \in Carrier |-> IF a = Operator THEN position[a] ELSE moved[a]]
    /\ book' = [o \in OrderId |-> IF o \in pending THEN Aged(book[o]) ELSE book[o]]
    /\ policy' = [policy EXCEPT !.left = Larger(0, @ - 1)]
    /\ UNCHANGED <<phase, todo, previous, stock, goods, next_id, pending, restock>>

\* on_garch_spike: the reorder point is raised, up to threefold, for a while;
\* a spike of no size, which only POST /control/inject makes, ends the others.
react_to_volatility ==
    /\ phase = "idle"
    /\ \E m \in Spikes :
           policy' = [policy EXCEPT !.s = Larger(1, (policy.base * m) \div 100),
                                    !.volatile = m # 100, !.left = DecayTicks]
    /\ UNCHANGED <<phase, todo, market, orders>>

\* POST /logistics/reorder-policy puts a new policy in place of the old.
reorder_set ==
    /\ phase = "idle"
    /\ \E f \in Policies : policy' = Fractional(f)
    /\ UNCHANGED <<phase, todo, market, orders>>

----------------------------------------------------------------------------
(* The order book.                                                         *)

\* LogisticsMempool.place.
place(c, q, by) ==
    /\ book' = [book EXCEPT ![next_id] =
            [city |-> c, quantity |-> q, age |-> 0, by |-> by, since |-> 0]]
    /\ pending' = pending \cup {next_id}
    /\ next_id' = next_id + 1
    /\ restock' = IF by = None THEN restock \cup {next_id} ELSE restock

\* LogisticsMempool.fulfil.  The fulfilled orders are only reported on.
fulfil(o) ==
    /\ pending' = pending \ {o}
    /\ book' = [book EXCEPT ![o] = Blank]
    /\ UNCHANGED <<next_id, restock>>

\* The order is given to a carrier, or taken from the one it has.
Reassigned(o, by) ==
    [book EXCEPT ![o] = [city |-> book[o].city, quantity |-> book[o].quantity,
                         age |-> book[o].age, by |-> by, since |-> 0]]

\* A city's shelf takes what it has room for; the rest is gone.
Shelved(c, q) == [stock EXCEPT ![c] = Smaller(MaxInventory, stock[c] + q)]

Assigned(a) == {o \in pending : book[o].by = a}

----------------------------------------------------------------------------
(* The operator's handlers, each run whole by the request or the tick that *)
(* drains its queue.                                                       *)

\* enable_operator with refresh_wallet: the operator's goods are taken away.
refresh_wallet ==
    /\ phase = "idle"
    /\ goods' = [goods EXCEPT ![Operator] = 0]
    /\ UNCHANGED <<phase, todo, position, previous, stock, policy, orders>>

handle_move ==
    /\ phase = "idle"
    /\ \E c \in City : position' = [position EXCEPT ![Operator] = c]
    /\ UNCHANGED <<phase, todo, previous, stock, goods, policy, orders>>

\* The handler does not ask for cargo space.
handle_buy ==
    /\ phase = "idle"
    /\ \E q \in 1 .. Smaller(stock[position[Operator]], MaxQuantity - goods[Operator]) :
           /\ goods' = [goods EXCEPT ![Operator] = @ + q]
           /\ stock' = [stock EXCEPT ![position[Operator]] = @ - q]
    /\ UNCHANGED <<phase, todo, position, previous, policy, orders>>

handle_sell ==
    /\ phase = "idle"
    /\ \E q \in 1 .. goods[Operator] :
           /\ goods' = [goods EXCEPT ![Operator] = @ - q]
           /\ stock' = Shelved(position[Operator], q)
    /\ UNCHANGED <<phase, todo, position, previous, policy, orders>>

\* The order is the operator's from the start.
handle_dispatch_order ==
    /\ phase = "idle"
    /\ next_id < MaxOrders
    /\ \E c \in City, q \in 1 .. MaxQuantity : place(c, q, Operator)
    /\ UNCHANGED <<phase, todo, market, policy>>

\* The operator may give up its own orders.
handle_cancel_assignment ==
    /\ phase = "idle"
    /\ \E o \in Assigned(Operator) : book' = Reassigned(o, None)
    /\ UNCHANGED <<phase, todo, market, policy, next_id, pending, restock>>

OperatorActs ==
    \/ refresh_wallet \/ handle_move \/ handle_buy \/ handle_sell
    \/ handle_dispatch_order \/ handle_cancel_assignment

----------------------------------------------------------------------------
(* One pass of the analytics loop.                                         *)

\* 0.15 of a unit is added to a whole number, which is then cut down to one.
produced(n) ==
    IF n < MaxInventory THEN Smaller(MaxInventory, (100 * n + 15) \div 100) ELSE n

\* Market.tick begins: production, and who has arrived somewhere new.
StartMarket ==
    /\ phase = "idle"
    /\ phase' = "market"
    /\ stock' = [c \in City |-> produced(stock[c])]
    /\ todo' = {a \in Agent : previous[a] \notin {0, position[a]}}
    /\ previous' = [a \in Agent |-> position[a]]
    /\ UNCHANGED <<position, goods, policy, orders>>

\* Fault: the cargo an agent has is not counted.
settle_arrivals_uncapped ==
    /\ phase = "market" /\ todo # {}
    /\ LET a == First(todo)
           c == position[a]
       IN  \E sold \in 0 .. goods[a] :
             \E bought \in 0 .. Smaller(Shelved(c, sold)[c], Capacity) :
               /\ stock' = [stock EXCEPT ![c] = Shelved(c, sold)[c] - bought]
               /\ goods' = [goods EXCEPT ![a] = @ - sold + bought]
               /\ todo' = todo \ {a}
    /\ UNCHANGED <<phase, position, previous, policy, orders>>

\* An agent that has arrived sells, then buys.
settle_arrivals ==
    /\ phase = "market" /\ todo # {}
    /\ LET a == First(todo)
           c == position[a]
       IN  \E sold \in 0 .. goods[a] :
             LET shelf == Smaller(MaxInventory, stock[c] + sold)
                 room == Capacity - (goods[a] - sold)
             IN  \E bought \in 0 .. Smaller(shelf, room) :
                   /\ stock' = [stock EXCEPT ![c] = shelf - bought]
                   /\ goods' = [goods EXCEPT ![a] = goods[a] - sold + bought]
                   /\ todo' = todo \ {a}
    /\ UNCHANGED <<phase, position, previous, policy, orders>>

\* DemandModel.step: a rate of 0.05 is rounded to no request at all.
requested == (5 + 50) \div 100
Served == [c \in City |-> stock[c] - Smaller(requested, stock[c])]

\* ReorderPolicy.tick ends a volatility window; the customers are served.
StartReorder ==
    /\ phase = "market" /\ todo = {}
    /\ phase' = "reorder"
    /\ todo' = City
    /\ policy' = IF policy.volatile /\ policy.left = 0
                 THEN [policy EXCEPT !.s = policy.base, !.volatile = FALSE] ELSE policy
    /\ stock' = Served
    /\ UNCHANGED <<position, previous, goods, orders>>

Outstanding(c) == {o \in pending : book[o].city = c}
Quantity(S) == SumFunctionOnSet([o \in OrderId |-> book[o].quantity], S)

\* Fault: what is already on order is not asked about.
Wanted_ignoring_orders(c) ==
    IF stock[c] < policy.s THEN policy.big_s - stock[c] ELSE 0

\* ReorderPolicy.evaluate: how much a city orders.
Wanted(c) ==
    LET have == stock[c] + Quantity(Outstanding(c))
    IN  IF have < policy.s THEN Larger(0, policy.big_s - have) ELSE 0

evaluate ==
    /\ phase = "reorder" /\ todo # {}
    /\ LET c == First(todo)
       IN  /\ IF Wanted(c) > 0 /\ next_id < MaxOrders
              THEN place(c, Wanted(c), None) ELSE UNCHANGED orders
           /\ todo' = todo \ {c}
    /\ UNCHANGED <<phase, market, policy>>

StartAssign ==
    /\ phase = "reorder" /\ todo = {}
    /\ phase' = "assign"
    /\ todo' = Assigned(None)
    /\ UNCHANGED <<market, policy, orders>>

\* Fault: an agent that already has an order is asked again.
Eligible_busy(o, blocked) ==
    {a \in Agent \ blocked : Capacity - goods[a] >= book[o].quantity}

\* Agents that are not blocked, without an order and with room for this one.
Eligible(o, blocked) ==
    {a \in Agent \ blocked : Assigned(a) = {} /\ Capacity - goods[a] >= book[o].quantity}

\* The nearest of them: one that stands in the city, or any if none does.
Nearest(o, blocked) ==
    LET there == {a \in Eligible(o, blocked) : position[a] = book[o].city}
    IN  IF there = {} THEN Eligible(o, blocked) ELSE {a \in there : \A b \in there : a <= b}

assign_carriers ==
    /\ phase = "assign" /\ todo # {}
    /\ LET o == First(todo)
       IN  /\ \E blocked \in SUBSET Agent :
                \/ \E a \in Nearest(o, blocked) : book' = Reassigned(o, a)
                \/ Eligible(o, blocked) = {} /\ UNCHANGED book
           /\ todo' = todo \ {o}
    /\ UNCHANGED <<phase, market, policy, next_id, pending, restock>>

StartSettle ==
    /\ phase = "assign" /\ todo = {}
    /\ phase' = "settle"
    /\ todo' = pending
    /\ UNCHANGED <<market, policy, orders>>

\* The positions that are looked up are those of the agents, not of the
\* operator.
CarrierArrived(o) ==
    /\ book[o].by \in Agent
    /\ position[book[o].by] = book[o].city
    /\ goods[book[o].by] >= book[o].quantity

\* Fault: the goods stay with the carrier.
Deliver_keeping_goods(o) ==
    /\ CarrierArrived(o)
    /\ stock' = Shelved(book[o].city, book[o].quantity)
    /\ fulfil(o)
    /\ UNCHANGED goods

\* The goods change hands and the carrier is paid.
Deliver(o) ==
    /\ CarrierArrived(o)
    /\ goods' = [goods EXCEPT ![book[o].by] = @ - book[o].quantity]
    /\ stock' = Shelved(book[o].city, book[o].quantity)
    /\ fulfil(o)

\* Fault: only an order that nobody carries is too old.
TooOld_unassigned(o) == book[o].age >= PhantomAfter /\ book[o].by = None

TooOld(o) == book[o].age >= PhantomAfter

\* No delivery: an order that has waited too long is fulfilled by nobody,
\* whatever its carrier is doing; a carrier that takes too long loses it.
GoOnWaiting(o) ==
    /\ ~CarrierArrived(o)
    /\ IF TooOld(o)
       THEN stock' = Shelved(book[o].city, book[o].quantity) /\ fulfil(o)
       ELSE /\ book' = IF book[o].by # None /\ book[o].since >= StaleAfter
                       THEN Reassigned(o, None) ELSE book
            /\ UNCHANGED <<stock, next_id, pending, restock>>
    /\ UNCHANGED goods

settle_orders ==
    /\ phase = "settle" /\ todo # {}
    /\ LET o == First(todo)
       IN  /\ Deliver(o) \/ GoOnWaiting(o)
           /\ todo' = todo \ {o}
    /\ UNCHANGED <<phase, position, previous, policy>>

EndPass ==
    /\ phase = "settle" /\ todo = {}
    /\ phase' = "idle"
    /\ UNCHANGED <<todo, market, policy, orders>>

Analytics ==
    \/ StartMarket \/ settle_arrivals \/ StartReorder \/ evaluate
    \/ StartAssign \/ assign_carriers \/ StartSettle \/ settle_orders \/ EndPass

Next == Tick \/ react_to_volatility \/ reorder_set \/ OperatorActs \/ Analytics

Spec == Init /\ [][Next]_vars

\* Both loops run for ever, and neither keeps the event loop from the other:
\* a pass is one callback, so Tick is enabled again and again, between passes.
\* The arena is not left paused.
FairSpec == Spec /\ WF_vars(Analytics) /\ SF_vars(Tick)

----------------------------------------------------------------------------
(* What makes the supply chain correct.                                    *)

\* Every variable holds the kind of value the code keeps in it: no shelf
\* holds less than nothing or more than max_inventory, no agent more than
\* its cargo.
TypeOK ==
    /\ phase \in Phase /\ todo \subseteq Int
    /\ position \in [Carrier -> City]
    /\ previous \in [Agent -> City \cup {0}]
    /\ stock \in [City -> 0 .. MaxInventory]
    /\ goods \in [Carrier -> Nat]
    /\ \A a \in Agent : goods[a] <= Capacity
    /\ policy \in [s : Nat, base : Nat, big_s : Nat, volatile : BOOLEAN, left : 0 .. DecayTicks]
    /\ next_id \in 0 .. MaxOrders
    /\ book \in [OrderId -> Order]
    /\ pending \subseteq 0 .. next_id - 1
    /\ restock \subseteq 0 .. next_id - 1

\* The dispatcher gives an order to an agent that is "not already assigned
\* to a different pending order": no agent ever has two, whatever the operator
\* dispatches and gives up and whatever is released in between.
OneOrderEach ==
    \A o1, o2 \in pending :
        book[o1].by = book[o2].by /\ book[o1].by \in Agent => o1 = o2

\* What the cities order by themselves stays within the order-up-to level of
\* the policies in use, whatever spikes, new policies and sales come between.
Highest == CHOOSE f \in Policies : \A g \in Policies : g[2] <= f[2]
OutstandingWithinTarget ==
    \A c \in City : Quantity(Outstanding(c) \cap restock) <= Fractional(Highest).big_s

\* No shelf, cargo or wallet leaves its bounds, and no shortage is ordered twice.
BookSound == TypeOK /\ OutstandingWithinTarget

\* No handler makes goods, save where an order that no carrier has brought is
\* fulfilled by nobody.
Total == SumFunction(stock) + SumFunction(goods)
NoGoodsFromNothing ==
    [][Total' > Total => \E o \in pending \ pending' : ~CarrierArrived(o)]_vars

\* Every order that is placed is fulfilled in the end: "the simulation never
\* deadlocks when every agent is idle".
OrdersSettle == \A o \in OrderId : o \in pending ~> o \notin pending
==============================================================================
