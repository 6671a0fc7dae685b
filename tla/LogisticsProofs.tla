--------------------------- MODULE LogisticsProofs ---------------------------
(***************************************************************************)
(* Theorems about the market and the order book, for any number of agents, *)
(* cities and orders: no agent carries two orders, no shelf, cargo or      *)
(* shortage gets out of bounds, and no handler makes goods but the one     *)
(* that fulfils an order nobody brought.                                   *)
(*                                                                         *)
(* Orders change hands in five places: an order is placed (for nobody, or  *)
(* for the operator), given up, assigned, released, fulfilled.  Only the   *)
(* dispatcher gives one to an agent, and it asks first.                    *)
(***************************************************************************)
EXTENDS Logistics, SetSums

\* OneOrderEach with what it needs of the order book's shape.
IInv ==
    /\ next_id \in Nat
    /\ pending \subseteq OrderId
    /\ book = [o \in OrderId |-> book[o]]
    /\ OneOrderEach

\* The constants as the proofs use them: the operator and nobody are no agents.
LEMMA NotAgents == Operator \notin Agent /\ None \notin Agent
  BY LogisticsAssumption DEF Operator, Agent, None

\* A placed order belongs to the operator or to nobody, so it takes no agent.
LEMMA PlaceKeeps ==
    ASSUME NEW c, NEW q, NEW by, by \notin Agent,
           IInv, next_id < MaxOrders, place(c, q, by)
    PROVE  IInv'
<1>1. next_id \in OrderId
  BY LogisticsAssumption DEF IInv, OrderId
<1>2. next_id' \in Nat /\ pending' \subseteq OrderId
  BY <1>1 DEF IInv, place
<1>3. /\ book' = [o \in OrderId |-> book'[o]]
      /\ book'[next_id].by = by
      /\ \A o \in OrderId \ {next_id} : book'[o] = book[o]
  BY <1>1 DEF IInv, place
<1>4. OneOrderEach'
  BY <1>1, <1>3 DEF IInv, OneOrderEach, place
<1> QED
  BY <1>2, <1>3, <1>4 DEF IInv

\* Taking an order from its carrier leaves every other carrier its own.
LEMMA ReleaseKeeps ==
    ASSUME NEW o, IInv, book' = Reassigned(o, None), next_id' = next_id, pending' = pending
    PROVE  IInv'
<1>1. /\ book' = [p \in OrderId |-> book'[p]]
      /\ \A p \in OrderId : book'[p].by = IF p = o THEN None ELSE book[p].by
  BY DEF IInv, Reassigned
<1>2. pending' \subseteq OrderId /\ OneOrderEach
  BY DEF IInv
<1>3. OneOrderEach'
  BY <1>1, <1>2, NotAgents DEF OneOrderEach
<1> QED
  BY <1>1, <1>2, <1>3 DEF IInv

\* An order that is fulfilled leaves the pending list.
LEMMA FulfilKeeps ==
    ASSUME NEW o, IInv, fulfil(o)
    PROVE  IInv'
<1>1. /\ book' = [p \in OrderId |-> book'[p]]
      /\ \A p \in OrderId \ {o} : book'[p] = book[p]
  BY DEF IInv, fulfil
<1>2. pending' = pending \ {o} /\ next_id' = next_id
  BY DEF fulfil
<1>3. OneOrderEach'
  BY <1>1, <1>2 DEF IInv, OneOrderEach
<1> QED
  BY <1>1, <1>2, <1>3 DEF IInv

\* The dispatcher asks an agent without an order.
LEMMA AssignKeeps ==
    ASSUME NEW o, NEW blocked, NEW a \in Nearest(o, blocked), IInv,
           book' = Reassigned(o, a), next_id' = next_id, pending' = pending
    PROVE  IInv'
<1>1. a \in Agent /\ Assigned(a) = {}
  BY DEF Nearest, Eligible
<1>2. /\ book' = [p \in OrderId |-> book'[p]]
      /\ \A p \in OrderId : book'[p].by = IF p = o THEN a ELSE book[p].by
  BY DEF IInv, Reassigned
<1>3. pending' \subseteq OrderId /\ OneOrderEach
  BY DEF IInv
<1>4. OneOrderEach'
  <2> SUFFICES ASSUME NEW o1 \in pending, NEW o2 \in pending,
                      book'[o1].by = book'[o2].by, book'[o1].by \in Agent
               PROVE  o1 = o2
    BY DEF OneOrderEach
  <2>1. CASE o1 = o \/ o2 = o
    BY <1>1, <1>2, <1>3, <2>1 DEF Assigned
  <2>2. CASE o1 # o /\ o2 # o
    BY <1>2, <1>3, <2>2 DEF OneOrderEach
  <2> QED
    BY <2>1, <2>2
<1> QED
  BY <1>2, <1>3, <1>4 DEF IInv

\* The whole of the operator's handlers.
LEMMA OperatorKeeps == ASSUME IInv, OperatorActs PROVE IInv'
<1>1. CASE refresh_wallet \/ handle_move \/ handle_buy \/ handle_sell
  <2>1. UNCHANGED orders
    BY <1>1 DEF refresh_wallet, handle_move, handle_buy, handle_sell
  <2> QED
    BY <2>1 DEF IInv, OneOrderEach, orders
<1>2. CASE handle_dispatch_order
  BY <1>2, NotAgents, PlaceKeeps DEF handle_dispatch_order
<1>3. CASE handle_cancel_assignment
  BY <1>3, ReleaseKeeps DEF handle_cancel_assignment
<1> QED
  BY <1>1, <1>2, <1>3 DEF OperatorActs

\* The steps of a pass of the analytics loop.
LEMMA AnalyticsKeeps == ASSUME IInv, Analytics PROVE IInv'
<1>1. ASSUME UNCHANGED orders PROVE IInv'
  BY <1>1 DEF IInv, OneOrderEach, orders
<1>2. CASE StartMarket \/ settle_arrivals \/ StartReorder \/ StartAssign \/ StartSettle \/ EndPass
  BY <1>1, <1>2 DEF StartMarket, settle_arrivals, StartReorder, StartAssign, StartSettle, EndPass
<1>3. CASE evaluate
  <2>1. CASE UNCHANGED orders
    BY <1>1, <2>1
  <2>2. CASE ~ UNCHANGED orders
    <3>1. next_id < MaxOrders /\ place(First(todo), Wanted(First(todo)), None)
      BY <1>3, <2>2 DEF evaluate
    <3> QED
      BY <3>1, NotAgents, PlaceKeeps
  <2> QED
    BY <2>1, <2>2
<1>4. CASE assign_carriers
  <2>1. next_id' = next_id /\ pending' = pending /\ restock' = restock
    BY <1>4 DEF assign_carriers
  <2>2. CASE book' = book
    BY <1>1, <2>1, <2>2 DEF orders
  <2>3. CASE book' # book
    <3>1. PICK blocked \in SUBSET Agent :
           \E a \in Nearest(First(todo), blocked) : book' = Reassigned(First(todo), a)
      BY <1>4, <2>3 DEF assign_carriers
    <3> QED
      BY <2>1, <3>1, AssignKeeps
  <2> QED
    BY <2>2, <2>3
<1>5. CASE settle_orders
  <2> DEFINE o == First(todo)
  <2>1. CASE Deliver(o)
    BY <2>1, FulfilKeeps DEF Deliver
  <2>2. CASE GoOnWaiting(o)
    <3>1. CASE TooOld(o)
      BY <2>2, <3>1, FulfilKeeps DEF GoOnWaiting
    <3>2. CASE ~TooOld(o)
      <4>1. next_id' = next_id /\ pending' = pending /\ restock' = restock
        BY <2>2, <3>2 DEF GoOnWaiting
      <4>2. book' = book \/ book' = Reassigned(o, None)
        BY <2>2, <3>2 DEF GoOnWaiting
      <4> QED
        BY <1>1, <4>1, <4>2, ReleaseKeeps DEF orders
    <3> QED
      BY <3>1, <3>2
  <2> QED
    BY <1>5, <2>1, <2>2 DEF settle_orders
<1> QED
  BY <1>2, <1>3, <1>4, <1>5 DEF Analytics

\* A tick makes orders older and gives none to anybody.
LEMMA TickKeeps == ASSUME IInv, Tick PROVE IInv'
<1>1. next_id' = next_id /\ pending' = pending /\ book' = [o \in OrderId |-> book'[o]]
  BY DEF IInv, Tick
<1>2. \A o \in OrderId : book'[o].by = book[o].by
  BY DEF IInv, Tick, Aged
<1>3. pending \subseteq OrderId /\ OneOrderEach
  BY DEF IInv
<1>4. OneOrderEach'
  BY <1>1, <1>2, <1>3 DEF OneOrderEach
<1> QED
  BY <1>1, <1>3, <1>4 DEF IInv

\* No agent ever carries two orders at a time.
THEOREM OneOrderEachHolds == Spec => []OneOrderEach
<1>1. Init => IInv
  BY DEF Init, IInv, OneOrderEach
<1>2. IInv /\ [Next]_vars => IInv'
  <2> SUFFICES ASSUME IInv, [Next]_vars PROVE IInv'
    OBVIOUS
  <2>1. CASE UNCHANGED orders
    BY <2>1 DEF IInv, OneOrderEach, orders
  <2>2. CASE react_to_volatility \/ reorder_set \/ UNCHANGED vars
    BY <2>1, <2>2 DEF react_to_volatility, reorder_set, vars, orders
  <2> QED
    BY <2>2, TickKeeps, OperatorKeeps, AnalyticsKeeps DEF Next
<1>3. IInv => OneOrderEach
  BY DEF IInv
<1> QED
  BY <1>1, <1>2, <1>3, PTL DEF Spec

----------------------------------------------------------------------------
(* What the proofs need of the constants                                   *)

\* The sizes are numbers.
LEMMA Sizes ==
    /\ NAgents \in Nat /\ NCities \in Nat /\ NCities > 0 /\ MaxInventory \in Nat /\ Capacity \in Nat
    /\ StaleAfter \in Nat /\ PhantomAfter \in Nat /\ DecayTicks \in Nat
    /\ MaxQuantity \in Nat /\ MaxOrders \in Nat
BY LogisticsAssumption

\* The sets that are summed over are finite sets, and the operator is no agent.
LEMMA SetsAreFinite ==
    /\ City \subseteq Nat /\ Agent \subseteq Nat /\ OrderId \subseteq Nat
    /\ IsFiniteSet(City) /\ IsFiniteSet(Agent) /\ IsFiniteSet(Carrier) /\ IsFiniteSet(OrderId)
    /\ Carrier = Agent \cup {Operator} /\ Operator \notin Agent
<1>1. /\ 0 \in Int /\ 1 \in Int /\ NCities \in Int /\ NAgents \in Int
      /\ NAgents - 1 \in Int /\ MaxOrders - 1 \in Int
  BY Sizes
<1>2. IsFiniteSet(City) /\ IsFiniteSet(Agent) /\ IsFiniteSet(Carrier) /\ IsFiniteSet(OrderId)
  BY <1>1, FS_Interval DEF City, Agent, Carrier, OrderId
<1>3. /\ City \subseteq Nat /\ Agent \subseteq Nat /\ OrderId \subseteq Nat
      /\ Carrier = Agent \cup {Operator} /\ Operator \notin Agent
  BY Sizes DEF City, Agent, Carrier, OrderId, Operator
<1> QED
  BY <1>2, <1>3

\* The loops visit something that is there.
LEMMA FirstIn ==
    ASSUME NEW S \in SUBSET Nat, S # {}
    PROVE  First(S) \in S
BY LeastNatural DEF First

\* The level up to which a fraction of the capacity orders.
Level(n) == Larger(2, (MaxInventory * n) \div 100)

\* A greater fraction, a higher level.
LEMMA LevelsGrow ==
    ASSUME NEW m \in 1 .. 100, NEW n \in 1 .. 100, m <= n
    PROVE  Level(m) \in Nat /\ Level(m) <= Level(n)
<1> DEFINE x == MaxInventory * m
           y == MaxInventory * n
<1>1. x \in Nat /\ y \in Nat /\ x <= y
  <2>1. MaxInventory \in Nat
    BY Sizes
  <2>2. MaxInventory * n = x + MaxInventory * (n - m) /\ MaxInventory * (n - m) \in Nat
    BY <2>1
  <2> QED
    BY <2>1, <2>2
<1> HIDE DEF x, y
<1>2. x \div 100 \in Nat /\ y \div 100 \in Nat /\ x \div 100 <= y \div 100
  BY <1>1
<1> QED
  BY <1>2 DEF Level, Larger, x, y

\* There is a highest policy, and no policy in use orders higher.
LEMMA HighestIs ==
    /\ Highest \in Policies
    /\ \A f \in Policies : Fractional(f).big_s <= Fractional(Highest).big_s
    /\ Fractional(Highest).big_s \in Nat
<1>1. \A f \in Policies : f[2] \in 1 .. 100
  BY LogisticsAssumption
<1> DEFINE S == {100 - f[2] : f \in Policies}
<1>2. S \in SUBSET Nat /\ S # {}
  BY <1>1, LogisticsAssumption
<1>3. PICK x \in S : \A y \in S : x <= y
  BY <1>2, LeastNatural
<1>4. PICK f \in Policies : x = 100 - f[2]
  BY <1>3
<1>5. ASSUME NEW g \in Policies
      PROVE  g[2] <= f[2]
  <2>1. 100 - g[2] \in S
    OBVIOUS
  <2>2. 100 - f[2] <= 100 - g[2]
    BY <1>3, <1>4, <2>1
  <2>3. f[2] \in Int /\ g[2] \in Int
    BY <1>1
  <2> HIDE DEF S
  <2> QED
    BY <2>2, <2>3
<1>6. Highest \in Policies /\ \A g \in Policies : g[2] <= Highest[2]
  BY <1>5 DEF Highest
<1>7. \A g \in Policies : Fractional(g).big_s = Level(g[2])
  BY DEF Fractional, Level
<1> QED
  BY <1>1, <1>6, <1>7, LevelsGrow

----------------------------------------------------------------------------
(* The invariant                                                           *)

PolicyRecord == [s : Nat, base : Nat, big_s : Nat, volatile : BOOLEAN, left : 0 .. DecayTicks]

PlaceTypes == position \in [Carrier -> City] /\ previous \in [Agent -> City \cup {0}]
StockTypes ==
    /\ stock \in [City -> 0 .. MaxInventory]
    /\ goods \in [Carrier -> Nat] /\ \A a \in Agent : goods[a] <= Capacity
OrderTypes ==
    /\ next_id \in 0 .. MaxOrders /\ book \in [OrderId -> Order]
    /\ pending \subseteq 0 .. next_id - 1 /\ restock \subseteq 0 .. next_id - 1

\* Each loop of a pass visits what is there.
TodoOK ==
    /\ phase \in Phase
    /\ phase = "idle" => todo = {}
    /\ phase = "market" => todo \subseteq Agent
    /\ phase = "reorder" => todo \subseteq City
    /\ phase \in {"assign", "settle"} => todo \subseteq pending

\* The policy in use is one of those in use.
PolicyOK == policy \in PolicyRecord /\ policy.big_s <= Fractional(Highest).big_s

BookInv == PlaceTypes /\ StockTypes /\ OrderTypes /\ TodoOK /\ PolicyOK /\ OutstandingWithinTarget

\* What is on order for a city, of a set of orders.
Amount(b, S, c) == SumFunctionOnSet([o \in OrderId |-> b[o].quantity], {o \in S : b[o].city = c})

\* OutstandingWithinTarget in terms of Amount, before a step and after it.
LEMMA OutstandingIs ==
    OutstandingWithinTarget <=>
      \A c \in City : Amount(book, pending \cap restock, c) <= Fractional(Highest).big_s
<1>1. \A c \in City : Outstanding(c) \cap restock = {o \in pending \cap restock : book[o].city = c}
  BY DEF Outstanding
<1> QED
  BY <1>1 DEF OutstandingWithinTarget, Quantity, Amount

\* The same of the next state.
LEMMA OutstandingIsNext ==
    OutstandingWithinTarget' <=>
      \A c \in City : Amount(book', pending' \cap restock', c) <= Fractional(Highest).big_s
<1>1. \A c \in City : (Outstanding(c) \cap restock)' = {o \in pending' \cap restock' : book'[o].city = c}
  BY DEF Outstanding
<1> QED
  BY <1>1 DEF OutstandingWithinTarget, Quantity, Amount, Highest, Fractional, OrderId, City

\* Fewer orders, or the same ones, of the same cities and quantities.
LEMMA AmountShrinks ==
    ASSUME NEW b \in [OrderId -> Order], NEW b2 \in [OrderId -> Order],
           NEW S \in SUBSET OrderId, NEW T \in SUBSET S, NEW c,
           \A o \in T : b2[o].city = b[o].city /\ b2[o].quantity = b[o].quantity
    PROVE  Amount(b2, T, c) <= Amount(b, S, c) /\ Amount(b, S, c) \in Nat
<1> DEFINE f == [o \in OrderId |-> b[o].quantity]
           f2 == [o \in OrderId |-> b2[o].quantity]
           A == {o \in S : b[o].city = c}
           A2 == {o \in T : b2[o].city = c}
<1>1. IsFiniteSet(A) /\ IsFiniteSet(A2) /\ A2 \in SUBSET A
  BY SetsAreFinite, FS_Subset
<1>2. \A o \in OrderId : b[o] \in Order /\ b2[o] \in Order
  OBVIOUS
<1>3. \A o \in OrderId : f[o] \in Nat /\ f2[o] \in Nat
  BY <1>2 DEF Order
<1>4. A \subseteq OrderId /\ \A o \in A2 : f2[o] = f[o]
  OBVIOUS
<1> HIDE DEF f, f2, A, A2
<1>5. SumFunctionOnSet(f2, A2) = SumFunctionOnSet(f, A2)
  BY <1>1, <1>4, SumAgree
<1>6. SumFunctionOnSet(f, A2) <= SumFunctionOnSet(f, A)
  BY <1>1, <1>3, <1>4, SumSubset
<1>7. SumFunctionOnSet(f, A) \in Nat
  <2>1. A \in SUBSET A
    OBVIOUS
  <2> QED
    BY <1>1, <1>3, <1>4, <2>1, SumSubset
<1> QED
  BY <1>5, <1>6, <1>7 DEF Amount, f, f2, A, A2

----------------------------------------------------------------------------
(* Goods                                                                   *)

\* The goods there are, on the shelves and with the carriers.
LEMMA TotalIs ==
    ASSUME StockTypes
    PROVE  Total = SumFunctionOnSet(stock, City) + SumFunctionOnSet(goods, Carrier)
BY DEF Total, SumFunction, StockTypes

\* The same of the next state.
LEMMA TotalIsNext ==
    ASSUME StockTypes'
    PROVE  Total' = SumFunctionOnSet(stock', City) + SumFunctionOnSet(goods', Carrier)
<1>1. DOMAIN stock' = City /\ DOMAIN goods' = Carrier
  BY DEF StockTypes, City, Carrier
<1> QED
  BY <1>1 DEF Total, SumFunction

\* There is a number of them.
LEMMA TotalIsNumber ==
    ASSUME StockTypes
    PROVE  Total \in Int
<1>1. \A d \in City : stock[d] \in Int
  BY Sizes DEF StockTypes
<1>2. \A b \in Carrier : goods[b] \in Int
  BY DEF StockTypes
<1>3. SumFunctionOnSet(stock, City) \in Int /\ SumFunctionOnSet(goods, Carrier) \in Int
  BY <1>1, <1>2, SetsAreFinite, SumType
<1> QED
  BY <1>3, TotalIs

\* The same of the next state.
LEMMA TotalIsNumberNext ==
    ASSUME StockTypes'
    PROVE  Total' \in Int
<1>1. \A d \in City : stock'[d] \in Int
  BY Sizes DEF StockTypes, City
<1>2. \A b \in Carrier : goods'[b] \in Int
  BY DEF StockTypes, Carrier
<1>3. SumFunctionOnSet(stock', City) \in Int /\ SumFunctionOnSet(goods', Carrier) \in Int
  BY <1>1, <1>2, SetsAreFinite, SumType
<1> QED
  BY <1>3, TotalIsNext

\* One element changes: here, one shelf and one wallet.
Put(f2, f, i, v) == f2 = [f EXCEPT ![i] = v]

\* What that does to the total.
LEMMA Exchange ==
    ASSUME StockTypes, NEW c \in City, NEW a \in Carrier, NEW x \in 0 .. MaxInventory, NEW y \in Nat,
           a \in Agent => y <= Capacity,
           Put(stock', stock, c, x), Put(goods', goods, a, y)
    PROVE  /\ StockTypes'
           /\ Total \in Int /\ Total' = Total - stock[c] + x - goods[a] + y
<1>1. StockTypes'
  <2>1. stock' \in [City -> 0 .. MaxInventory] /\ goods' \in [Carrier -> Nat]
    BY DEF StockTypes, Put
  <2>2. \A b \in Agent : goods'[b] <= Capacity
    BY SetsAreFinite DEF StockTypes, Put
  <2> QED
    BY <2>1, <2>2 DEF StockTypes, City, Carrier, Agent
<1>2. /\ \A d \in City : stock[d] \in Int
      /\ \A d \in City \ {c} : stock'[d] = stock[d]
      /\ \A b \in Carrier : goods[b] \in Int
      /\ \A b \in Carrier \ {a} : goods'[b] = goods[b]
      /\ stock'[c] = x /\ goods'[a] = y /\ x \in Int /\ y \in Int
      /\ stock'[c] \in Int /\ goods'[a] \in Int
  BY Sizes DEF StockTypes, Put
<1>3. SumFunctionOnSet(stock', City) = SumFunctionOnSet(stock, City) - stock[c] + stock'[c]
  <2>1. IsFiniteSet(City)
    BY SetsAreFinite
  <2> QED
    BY <1>2, <2>1, SumChanged
<1>4. SumFunctionOnSet(goods', Carrier) = SumFunctionOnSet(goods, Carrier) - goods[a] + goods'[a]
  <2>1. IsFiniteSet(Carrier)
    BY SetsAreFinite
  <2> QED
    BY <1>2, <2>1, SumChanged
<1>5. SumFunctionOnSet(stock, City) \in Int /\ SumFunctionOnSet(goods, Carrier) \in Int
  BY <1>2, SetsAreFinite, SumType
<1>6. stock[c] \in Int /\ goods[a] \in Int
  BY <1>2
<1> QED
  BY <1>1, <1>2, <1>3, <1>4, <1>5, <1>6, TotalIs, TotalIsNext

\* What a handler that makes no goods does to the shelves and the wallets.
GoodsKept == StockTypes' /\ Total' <= Total

\* A handler that touches no shelf and no wallet makes nothing.
LEMMA StockUnchanged ==
    ASSUME StockTypes, stock' = stock, goods' = goods
    PROVE  GoodsKept
<1>1. \A d \in City : stock[d] \in Int
  BY Sizes DEF StockTypes
<1>2. \A b \in Carrier : goods[b] \in Int
  BY DEF StockTypes
<1>3. SumFunctionOnSet(stock, City) \in Int /\ SumFunctionOnSet(goods, Carrier) \in Int
  BY <1>1, <1>2, SetsAreFinite, SumType
<1>4. StockTypes'
  BY DEF StockTypes, City, Carrier, Agent
<1> QED
  BY <1>3, <1>4, TotalIs, TotalIsNext DEF GoodsKept

\* All the shelves change, and none gains.
LEMMA ShelvesKept ==
    ASSUME StockTypes, NEW f, stock' = f, f \in [City -> 0 .. MaxInventory],
           \A c \in City : f[c] <= stock[c], goods' = goods
    PROVE  GoodsKept
<1>1. \A d \in City : stock[d] \in Int /\ f[d] \in Int
  BY Sizes DEF StockTypes
<1>2. \A b \in Carrier : goods[b] \in Int
  BY DEF StockTypes
<1>3. /\ SumFunctionOnSet(stock, City) \in Int /\ SumFunctionOnSet(f, City) \in Int
      /\ SumFunctionOnSet(goods, Carrier) \in Int
      /\ SumFunctionOnSet(f, City) <= SumFunctionOnSet(stock, City)
  <2>1. \A d \in City : f[d] \in Int /\ stock[d] \in Int /\ f[d] <= stock[d]
    BY <1>1
  <2> QED
    BY <1>1, <1>2, <2>1, SetsAreFinite, SumType, SumMonotone
<1>4. StockTypes'
  BY DEF StockTypes, City, Carrier, Agent
<1> QED
  BY <1>3, <1>4, TotalIs, TotalIsNext DEF GoodsKept

\* A shelf that is full enough gains nothing at all, and none is overfilled.
LEMMA ShelfTakes ==
    ASSUME StockTypes, NEW c \in City, NEW q \in Nat
    PROVE  /\ Smaller(MaxInventory, stock[c] + q) \in 0 .. MaxInventory
           /\ Smaller(MaxInventory, stock[c] + q) <= stock[c] + q
           /\ stock[c] \in 0 .. MaxInventory
<1>1. stock[c] \in 0 .. MaxInventory
  BY DEF StockTypes
<1> QED
  BY <1>1, Sizes DEF Smaller

----------------------------------------------------------------------------
(* The handlers of the operator                                            *)

\* The operator takes from a shelf what it gets, and gives what a shelf takes or loses it.
LEMMA OperatorGoods ==
    ASSUME PlaceTypes, StockTypes, OperatorActs
    PROVE  GoodsKept
<1> DEFINE c == position[Operator]
           n == goods[Operator]
<1>1. /\ Operator \in Carrier /\ Operator \notin Agent /\ c \in City /\ n \in Nat
      /\ stock[c] \in 0 .. MaxInventory /\ stock[c] \in Nat
      /\ stock = [stock EXCEPT ![c] = stock[c]]
  <2>1. Operator \in Carrier /\ Operator \notin Agent
    BY SetsAreFinite
  <2>2. c \in City /\ n \in Nat
    BY <2>1 DEF PlaceTypes, StockTypes
  <2>3. stock[c] \in 0 .. MaxInventory /\ stock = [stock EXCEPT ![c] = stock[c]]
    BY <2>2 DEF StockTypes
  <2> QED
    BY <2>1, <2>2, <2>3, Sizes
<1> HIDE DEF c, n
<1>2. CASE refresh_wallet
  <2>1. goods' = [goods EXCEPT ![Operator] = 0] /\ stock' = [stock EXCEPT ![c] = stock[c]]
    BY <1>1, <1>2 DEF refresh_wallet
  <2> DEFINE x == stock[c]
             y == 0
  <2>2. Put(stock', stock, c, x) /\ Put(goods', goods, Operator, y)
    BY <2>1 DEF Put
  <2>3. x \in 0 .. MaxInventory /\ y \in Nat
    BY <1>1
  <2> HIDE DEF x, y
  <2>4. StockTypes' /\ Total \in Int /\ Total' = Total - stock[c] + x - goods[Operator] + y
    BY <1>1, <2>2, <2>3, Exchange
  <2> QED
    BY <1>1, <2>4 DEF GoodsKept, n, x, y
<1>3. CASE handle_buy
  <2>1. PICK q \in 1 .. Smaller(stock[c], MaxQuantity - n) :
          goods' = [goods EXCEPT ![Operator] = n + q] /\ stock' = [stock EXCEPT ![c] = stock[c] - q]
    BY <1>3 DEF handle_buy, c, n
  <2>2. q \in Nat /\ q <= stock[c]
    BY <1>1, Sizes DEF Smaller
  <2>3. stock[c] - q \in 0 .. MaxInventory /\ n + q \in Nat
    BY <1>1, <2>2, Sizes
  <2>4. /\ StockTypes' /\ Total \in Int
        /\ Total' = Total - stock[c] + (stock[c] - q) - goods[Operator] + (n + q)
    BY <1>1, <2>1, <2>3, Exchange DEF Put
  <2> QED
    BY <1>1, <2>2, <2>4 DEF GoodsKept, n
<1>4. CASE handle_sell
  <2> DEFINE shelf(q) == Smaller(MaxInventory, stock[c] + q)
  <2>1. PICK q \in 1 .. n :
          goods' = [goods EXCEPT ![Operator] = n - q] /\ stock' = [stock EXCEPT ![c] = shelf(q)]
    BY <1>4 DEF handle_sell, Shelved, c, n
  <2>2. /\ q \in Nat /\ q <= n /\ n - q \in Nat
        /\ shelf(q) \in 0 .. MaxInventory /\ shelf(q) <= stock[c] + q
    BY <1>1, ShelfTakes
  <2> HIDE DEF shelf
  <2>3. /\ StockTypes' /\ Total \in Int
        /\ Total' = Total - stock[c] + shelf(q) - goods[Operator] + (n - q)
    BY <1>1, <2>1, <2>2, Exchange DEF Put
  <2>4. shelf(q) \in Int
    BY <2>2, Sizes
  <2> QED
    BY <1>1, <2>2, <2>3, <2>4 DEF GoodsKept, n
<1>5. CASE handle_move \/ handle_dispatch_order \/ handle_cancel_assignment
  <2>1. stock' = stock /\ goods' = goods
    BY <1>5 DEF handle_move, handle_dispatch_order, handle_cancel_assignment, market
  <2> QED
    BY <2>1, StockUnchanged
<1> QED
  BY <1>2, <1>3, <1>4, <1>5 DEF OperatorActs

----------------------------------------------------------------------------
(* The pass of the analytics loop                                          *)

\* Production is never felt: a hundredth part of a unit is cut off.
LEMMA NothingProduced ==
    ASSUME NEW n \in 0 .. MaxInventory
    PROVE  produced(n) = n
<1>1. n \in Nat /\ n <= MaxInventory
  BY Sizes
<1>2. (100 * n + 15) \div 100 = n
  BY <1>1
<1> QED
  BY <1>1, <1>2, Sizes DEF produced, Smaller

\* A pass of the loop up to the settling of the orders.
LEMMA PassGoods ==
    ASSUME PlaceTypes, StockTypes, TodoOK,
           StartMarket \/ settle_arrivals \/ StartReorder \/ evaluate
           \/ StartAssign \/ assign_carriers \/ StartSettle \/ EndPass
    PROVE  GoodsKept
<1>0. \A c \in City : stock[c] \in 0 .. MaxInventory
  BY DEF StockTypes
<1>1. CASE StartMarket
  <2>1. \A c \in City : produced(stock[c]) = stock[c]
    BY <1>0, NothingProduced
  <2>2. stock' = [c \in City |-> stock[c]] /\ goods' = goods
    BY <1>1, <2>1 DEF StartMarket
  <2>3. stock' = stock
    BY <2>2 DEF StockTypes
  <2> QED
    BY <2>2, <2>3, StockUnchanged
<1>2. CASE settle_arrivals
  <2> DEFINE a == First(todo)
             c == position[a]
             shelf(n) == Smaller(MaxInventory, stock[c] + n)
             kept(n) == goods[a] - n
  <2>1. a \in Agent /\ a \in Carrier
    BY <1>2, SetsAreFinite, FirstIn DEF settle_arrivals, TodoOK
  <2>2. /\ c \in City /\ goods[a] \in Nat /\ goods[a] <= Capacity
        /\ stock[c] \in 0 .. MaxInventory /\ stock[c] \in Nat
    BY <1>0, <2>1, Sizes DEF PlaceTypes, StockTypes
  <2>3. PICK n \in 0 .. goods[a] :
          \E m \in 0 .. Smaller(shelf(n), Capacity - (goods[a] - n)) :
            /\ stock' = [stock EXCEPT ![c] = shelf(n) - m]
            /\ goods' = [goods EXCEPT ![a] = goods[a] - n + m]
    BY <1>2 DEF settle_arrivals
  <2>4. n \in Nat /\ n <= goods[a] /\ kept(n) \in Nat /\ kept(n) <= Capacity
    BY <2>2, Sizes
  <2>5. shelf(n) \in 0 .. MaxInventory /\ shelf(n) <= stock[c] + n
    BY <2>2, <2>4, ShelfTakes
  <2>6. PICK m \in 0 .. Smaller(shelf(n), Capacity - kept(n)) :
            /\ stock' = [stock EXCEPT ![c] = shelf(n) - m]
            /\ goods' = [goods EXCEPT ![a] = kept(n) + m]
    BY <2>3
  <2> HIDE DEF a, c, shelf, kept
  <2>7. m \in Nat /\ m <= shelf(n) /\ kept(n) + m <= Capacity /\ shelf(n) \in Nat
    BY <2>4, <2>5, Sizes DEF Smaller
  <2>8. shelf(n) - m \in 0 .. MaxInventory /\ kept(n) + m \in Nat
    BY <2>4, <2>5, <2>7, Sizes
  <2>9. /\ StockTypes' /\ Total \in Int
        /\ Total' = Total - stock[c] + (shelf(n) - m) - goods[a] + (kept(n) + m)
    BY <2>1, <2>2, <2>6, <2>7, <2>8, Exchange DEF Put
  <2>10. kept(n) = goods[a] - n
    BY DEF kept
  <2> QED
    BY <2>2, <2>4, <2>5, <2>7, <2>9, <2>10 DEF GoodsKept
<1>3. CASE StartReorder
  <2>1. requested = 0
    BY DEF requested
  <2>2. \A c \in City : stock[c] - Smaller(requested, stock[c]) = stock[c]
    BY <1>0, <2>1, Sizes DEF Smaller
  <2>3. stock' = [c \in City |-> stock[c]] /\ goods' = goods
    BY <1>3, <2>2 DEF StartReorder, Served
  <2>4. stock' = stock
    BY <2>3 DEF StockTypes
  <2> QED
    BY <2>3, <2>4, StockUnchanged
<1>4. CASE evaluate \/ StartAssign \/ assign_carriers \/ StartSettle \/ EndPass
  <2>1. stock' = stock /\ goods' = goods
    BY <1>4 DEF evaluate, StartAssign, assign_carriers, StartSettle, EndPass, market
  <2> QED
    BY <2>1, StockUnchanged
<1> QED
  BY <1>1, <1>2, <1>3, <1>4

\* An order is fulfilled from a carrier's cargo, or it is left where it is, or it is too old.
LEMMA SettleGoods ==
    ASSUME StockTypes, OrderTypes, TodoOK, settle_orders
    PROVE  StockTypes' /\ (Total' <= Total \/ \E o \in pending \ pending' : ~CarrierArrived(o))
<1> DEFINE o == First(todo)
           c == book[o].city
           q == book[o].quantity
           b == book[o].by
           shelf == Smaller(MaxInventory, stock[c] + q)
<1>1. o \in pending /\ o \in OrderId /\ book[o] \in Order
  <2>1. todo \subseteq pending /\ pending \subseteq OrderId /\ todo # {}
    BY Sizes DEF settle_orders, TodoOK, OrderTypes, OrderId
  <2>2. o \in pending /\ o \in OrderId
    BY <2>1, SetsAreFinite, FirstIn
  <2> QED
    BY <2>2 DEF OrderTypes
<1>2. c \in City /\ q \in Nat
  BY <1>1 DEF Order
<1>3. shelf \in 0 .. MaxInventory /\ shelf <= stock[c] + q /\ stock[c] \in 0 .. MaxInventory
  BY <1>2, ShelfTakes
<1>4. stock[c] \in Int /\ shelf \in Int
  BY <1>3, Sizes
<1>5. CASE Deliver(o)
  <2>1. /\ b \in Agent /\ b \in Carrier /\ goods[b] >= q
        /\ goods' = [goods EXCEPT ![b] = goods[b] - q] /\ stock' = [stock EXCEPT ![c] = shelf]
    BY <1>5, SetsAreFinite DEF Deliver, CarrierArrived, Shelved
  <2>2. goods[b] \in Nat /\ goods[b] <= Capacity /\ goods[b] - q \in Nat /\ goods[b] - q <= Capacity
    BY <1>2, <2>1, Sizes DEF StockTypes
  <2> HIDE DEF o, c, q, b, shelf
  <2>3. /\ StockTypes' /\ Total \in Int
        /\ Total' = Total - stock[c] + shelf - goods[b] + (goods[b] - q)
    BY <1>2, <1>3, <2>1, <2>2, Exchange DEF Put
  <2> QED
    BY <1>2, <1>3, <1>4, <2>2, <2>3
<1>6. CASE GoOnWaiting(o) /\ TooOld(o)
  <2>1. /\ o \in pending \ pending' /\ ~CarrierArrived(o)
        /\ goods' = goods /\ stock' = [stock EXCEPT ![c] = shelf]
    BY <1>1, <1>6 DEF GoOnWaiting, fulfil, Shelved
  <2>2. StockTypes'
    <3> HIDE DEF c, shelf
    <3>1. stock' \in [City -> 0 .. MaxInventory]
      BY <1>2, <1>3, <2>1 DEF StockTypes
    <3> QED
      BY <2>1, <3>1 DEF StockTypes, City, Carrier, Agent
  <2> QED
    BY <2>1, <2>2
<1>7. CASE GoOnWaiting(o) /\ ~TooOld(o)
  <2>1. stock' = stock /\ goods' = goods
    BY <1>7 DEF GoOnWaiting
  <2> QED
    BY <2>1, StockUnchanged DEF GoodsKept
<1> QED
  BY <1>5, <1>6, <1>7 DEF settle_orders

----------------------------------------------------------------------------
(* The reorder policy                                                      *)

\* A hundredth of a product is a number.
LEMMA Hundredths ==
    ASSUME NEW m \in Nat, NEW n \in Nat
    PROVE  (m * n) \div 100 \in Nat
<1> DEFINE x == m * n
<1>1. x \in Nat
  OBVIOUS
<1> HIDE DEF x
<1>2. x \div 100 \in Nat
  BY <1>1
<1> QED
  BY <1>2 DEF x

\* Every policy that can be set is a policy, and none orders higher than the highest.
LEMMA FractionalOK ==
    ASSUME NEW f \in Policies
    PROVE  Fractional(f) \in PolicyRecord /\ Fractional(f).big_s <= Fractional(Highest).big_s
<1>1. f[1] \in Nat /\ f[2] \in Nat
  BY LogisticsAssumption
<1>2. (MaxInventory * f[1]) \div 100 \in Nat /\ (MaxInventory * f[2]) \div 100 \in Nat
  BY <1>1, Sizes, Hundredths
<1> DEFINE base == Larger(1, (MaxInventory * f[1]) \div 100)
           big == Larger(2, (MaxInventory * f[2]) \div 100)
<1>3. base \in Nat /\ big \in Nat /\ 0 \in 0 .. DecayTicks
  BY <1>2, Sizes DEF Larger
<1>4. Fractional(f) = [s |-> base, base |-> base, big_s |-> big, volatile |-> FALSE, left |-> 0]
  BY DEF Fractional
<1> HIDE DEF base, big
<1>5. Fractional(f) \in PolicyRecord
  BY <1>3, <1>4 DEF PolicyRecord
<1> QED
  BY <1>5, HighestIs

\* Spikes raise the point at which a city orders, never the level up to which it does.
LEMMA PolicySteps ==
    ASSUME PolicyOK, [Next]_vars
    PROVE  PolicyOK'
<1>0. policy \in PolicyRecord /\ policy.big_s <= Fractional(Highest).big_s
  BY DEF PolicyOK
<1>1. ASSUME policy' \in PolicyRecord, policy'.big_s <= Fractional(Highest).big_s
      PROVE  PolicyOK'
  BY <1>1 DEF PolicyOK, PolicyRecord, Fractional, Highest
<1>2. CASE Tick
  <2>1. Larger(0, policy.left - 1) \in 0 .. DecayTicks
    BY <1>0, Sizes DEF PolicyRecord, Larger
  <2>2. policy' = [policy EXCEPT !.left = Larger(0, policy.left - 1)]
    BY <1>2 DEF Tick
  <2>3. policy' \in PolicyRecord /\ policy'.big_s = policy.big_s
    BY <1>0, <2>1, <2>2 DEF PolicyRecord
  <2> QED
    BY <1>0, <1>1, <2>3
<1>3. CASE react_to_volatility
  <2> DEFINE point(m) == Larger(1, (policy.base * m) \div 100)
  <2>1. PICK m \in Spikes :
          policy' = [policy EXCEPT !.s = point(m), !.volatile = m # 100, !.left = DecayTicks]
    BY <1>3 DEF react_to_volatility
  <2>2. m \in Nat /\ policy.base \in Nat
    BY <1>0, LogisticsAssumption DEF PolicyRecord
  <2>3. point(m) \in Nat /\ (m # 100) \in BOOLEAN /\ DecayTicks \in 0 .. DecayTicks
    BY <2>2, Sizes, Hundredths DEF Larger
  <2> HIDE DEF point
  <2>4. policy' \in PolicyRecord /\ policy'.big_s = policy.big_s
    BY <1>0, <2>1, <2>3 DEF PolicyRecord
  <2> QED
    BY <1>0, <1>1, <2>4
<1>4. CASE reorder_set
  BY <1>1, <1>4, FractionalOK DEF reorder_set
<1>5. CASE StartReorder
  <2>1. CASE policy' = policy
    BY <1>0, <1>1, <2>1
  <2>2. CASE policy' = [policy EXCEPT !.s = policy.base, !.volatile = FALSE]
    <3>1. policy' \in PolicyRecord /\ policy'.big_s = policy.big_s
      BY <1>0, <2>2 DEF PolicyRecord
    <3> QED
      BY <1>0, <1>1, <3>1
  <2> QED
    BY <1>5, <2>1, <2>2 DEF StartReorder
<1>6. CASE policy' = policy
  BY <1>0, <1>1, <1>6
<1>7. OperatorActs => policy' = policy
  BY DEF OperatorActs, refresh_wallet, handle_move, handle_buy, handle_sell,
         handle_dispatch_order, handle_cancel_assignment
<1>8. Analytics => policy' = policy \/ StartReorder
  BY DEF Analytics, StartMarket, settle_arrivals, evaluate, StartAssign, assign_carriers,
         StartSettle, settle_orders, EndPass
<1> QED
  BY <1>2, <1>3, <1>4, <1>5, <1>6, <1>7, <1>8 DEF Next, vars

----------------------------------------------------------------------------
(* The loops of a pass                                                     *)

\* An order leaves the pending list only in the loop that visits it.
LEMMA TodoSteps ==
    ASSUME TodoOK, [Next]_vars
    PROVE  TodoOK'
<1>0. ASSUME phase' \in Phase,
             phase' = "idle" => todo' = {},
             phase' = "market" => todo' \subseteq Agent,
             phase' = "reorder" => todo' \subseteq City,
             phase' \in {"assign", "settle"} => todo' \subseteq pending'
      PROVE  TodoOK'
  BY <1>0 DEF TodoOK, Phase, Agent, City
<1>1. CASE phase' = phase /\ todo' = todo /\ pending \subseteq pending'
  BY <1>0, <1>1 DEF TodoOK
<1>2. Tick \/ react_to_volatility \/ reorder_set =>
        phase' = phase /\ todo' = todo /\ pending \subseteq pending'
  BY DEF Tick, react_to_volatility, reorder_set, orders
<1>3. OperatorActs => phase' = phase /\ todo' = todo /\ pending \subseteq pending'
  BY DEF OperatorActs, refresh_wallet, handle_move, handle_buy, handle_sell,
         handle_dispatch_order, handle_cancel_assignment, orders, place
<1>4. CASE StartMarket \/ settle_arrivals \/ StartReorder
  BY <1>0, <1>4 DEF TodoOK, StartMarket, settle_arrivals, StartReorder, Phase
<1>5. CASE evaluate
  BY <1>0, <1>5 DEF TodoOK, evaluate
<1>6. CASE StartAssign \/ assign_carriers \/ StartSettle
  BY <1>0, <1>6 DEF TodoOK, StartAssign, assign_carriers, StartSettle, orders, Phase, Assigned
<1>7. CASE settle_orders
  <2> DEFINE o == First(todo)
  <2>1. phase' = phase /\ todo' = todo \ {o} /\ (Deliver(o) \/ GoOnWaiting(o)) /\ phase = "settle"
    BY <1>7 DEF settle_orders
  <2>2. pending' = pending \ {o} \/ pending' = pending
    BY <2>1 DEF Deliver, GoOnWaiting, fulfil
  <2> QED
    BY <1>0, <2>1, <2>2 DEF TodoOK
<1>8. CASE EndPass
  BY <1>0, <1>8 DEF TodoOK, EndPass, Phase
<1> QED
  BY <1>1, <1>2, <1>3, <1>4, <1>5, <1>6, <1>7, <1>8 DEF Next, Analytics, vars

----------------------------------------------------------------------------
(* The order book and what is on order                                     *)

\* An order is an order whatever happens to its carrier and its age.
LEMMA OrderAged ==
    ASSUME NEW r \in Order
    PROVE  Aged(r) \in Order /\ Aged(r).city = r.city /\ Aged(r).quantity = r.quantity
<1>1. r.city \in City /\ r.quantity \in Nat /\ r.age \in Nat /\ r.since \in Nat
      /\ r.by \in Carrier \cup {None}
  BY Sizes DEF Order
<1> DEFINE age == Smaller(r.age + 1, PhantomAfter)
           since == IF r.by = None THEN 0 ELSE Smaller(r.since + 1, StaleAfter)
<1>2. age \in 0 .. PhantomAfter /\ since \in 0 .. StaleAfter
  BY <1>1, Sizes DEF Smaller
<1>3. Aged(r) = [city |-> r.city, quantity |-> r.quantity, by |-> r.by, age |-> age, since |-> since]
  BY DEF Aged
<1> HIDE DEF age, since
<1> QED
  BY <1>1, <1>2, <1>3 DEF Order

\* The place of no order.
LEMMA BlankIsOrder == Blank \in Order
<1>1. 1 \in City /\ 0 \in 0 .. PhantomAfter /\ 0 \in 0 .. StaleAfter /\ None \in Carrier \cup {None}
  BY Sizes DEF City
<1> QED
  BY <1>1 DEF Blank, Order

\* The same orders, or fewer, for the same cities and in the same quantities.
Fewer ==
    /\ OrderTypes'
    /\ pending' \cap restock' \subseteq pending \cap restock
    /\ \A o \in pending' \cap restock' :
         book'[o].city = book[o].city /\ book'[o].quantity = book[o].quantity

\* A handler that leaves the order book alone.
LEMMA OrdersUnchanged ==
    ASSUME OrderTypes, next_id' = next_id, book' = book, pending' = pending, restock' = restock
    PROVE  Fewer
BY DEF OrderTypes, Fewer, OrderId, Order, City, Carrier

\* No order more, none for another city or amount.
LEMMA FewerIs ==
    ASSUME OrderTypes, next_id' = next_id, book' \in [OrderId -> Order],
           pending' \subseteq pending, restock' = restock,
           \A o \in pending' : book'[o].city = book[o].city /\ book'[o].quantity = book[o].quantity
    PROVE  Fewer
<1>1. OrderTypes'
  BY DEF OrderTypes, OrderId, Order, City, Carrier
<1> QED
  BY <1>1 DEF Fewer

\* An order given, given up or released is the same order.
LEMMA Reassigning ==
    ASSUME OrderTypes, NEW o \in OrderId, NEW by \in Carrier \cup {None},
           book' = Reassigned(o, by), next_id' = next_id, pending' = pending, restock' = restock
    PROVE  Fewer
<1>1. book[o] \in Order /\ 0 \in 0 .. StaleAfter /\ pending \subseteq OrderId
  BY Sizes DEF OrderTypes, OrderId
<1> DEFINE r == [city |-> book[o].city, quantity |-> book[o].quantity,
                 age |-> book[o].age, by |-> by, since |-> 0]
<1>2. r \in Order /\ r.city = book[o].city /\ r.quantity = book[o].quantity
  BY <1>1 DEF Order
<1>3. book' = [book EXCEPT ![o] = r]
  BY DEF Reassigned
<1> HIDE DEF r
<1>4. book' \in [OrderId -> Order]
  BY <1>2, <1>3 DEF OrderTypes
<1>5. \A p \in OrderId : book'[p].city = book[p].city /\ book'[p].quantity = book[p].quantity
  BY <1>2, <1>3 DEF OrderTypes
<1> QED
  BY <1>1, <1>4, <1>5, FewerIs

\* A fulfilled order is on order no more.
LEMMA Fulfilling ==
    ASSUME OrderTypes, NEW o \in OrderId, fulfil(o)
    PROVE  Fewer
<1>1. book' = [book EXCEPT ![o] = Blank] /\ pending' = pending \ {o} /\ pending \subseteq OrderId
      /\ next_id' = next_id /\ restock' = restock
  BY Sizes DEF OrderTypes, OrderId, fulfil
<1>2. book' \in [OrderId -> Order]
  BY <1>1, BlankIsOrder DEF OrderTypes
<1>3. \A p \in pending' : book'[p] = book[p]
  BY <1>1 DEF OrderTypes
<1> QED
  BY <1>1, <1>2, <1>3, FewerIs

\* A tick changes nothing but ages.
LEMMA Aging ==
    ASSUME OrderTypes, Tick
    PROVE  Fewer
<1>1. /\ book' = [o \in OrderId |-> IF o \in pending THEN Aged(book[o]) ELSE book[o]]
      /\ next_id' = next_id /\ pending' = pending /\ restock' = restock /\ pending \subseteq OrderId
  BY Sizes DEF Tick, OrderTypes, OrderId
<1>2. \A o \in OrderId : book[o] \in Order
  BY DEF OrderTypes
<1>3. \A o \in OrderId : /\ book'[o] \in Order /\ book'[o].city = book[o].city
                         /\ book'[o].quantity = book[o].quantity
  BY <1>1, <1>2, OrderAged
<1>4. book' \in [OrderId -> Order]
  BY <1>1, <1>3
<1> QED
  BY <1>1, <1>3, <1>4, FewerIs

\* A placed order is a new one.
LEMMA Placing ==
    ASSUME OrderTypes, next_id < MaxOrders, NEW c \in City, NEW q \in Nat,
           NEW by \in Carrier \cup {None}, place(c, q, by)
    PROVE  /\ OrderTypes' /\ next_id \in OrderId
           /\ next_id \notin pending /\ next_id \notin restock
           /\ pending \subseteq OrderId /\ restock \subseteq OrderId
           /\ book'[next_id].city = c /\ book'[next_id].quantity = q
           /\ \A o \in OrderId \ {next_id} : book'[o] = book[o]
<1> DEFINE r == [city |-> c, quantity |-> q, age |-> 0, by |-> by, since |-> 0]
<1>1. r \in Order /\ r.city = c /\ r.quantity = q
  <2>1. 0 \in 0 .. PhantomAfter /\ 0 \in 0 .. StaleAfter
    BY Sizes
  <2> QED
    BY <2>1 DEF Order
<1>2. book' = [book EXCEPT ![next_id] = r]
  BY DEF place
<1> HIDE DEF r
<1>3. /\ next_id \in OrderId /\ next_id \notin pending /\ next_id \notin restock
      /\ pending \subseteq OrderId /\ restock \subseteq OrderId
  BY Sizes DEF OrderTypes, OrderId
<1>4. book' \in [OrderId -> Order] /\ book'[next_id] = r /\ \A o \in OrderId \ {next_id} : book'[o] = book[o]
  BY <1>1, <1>2, <1>3 DEF OrderTypes
<1>5. next_id' \in 0 .. MaxOrders
  BY Sizes DEF OrderTypes, place
<1>6. pending' \subseteq 0 .. next_id' - 1 /\ restock' \subseteq 0 .. next_id' - 1
  BY Sizes DEF OrderTypes, place
<1>7. OrderTypes'
  BY <1>4, <1>5, <1>6 DEF OrderTypes, OrderId, Order, City, Carrier
<1> QED
  BY <1>1, <1>3, <1>4, <1>7

\* Book b2 holds order n, and those of S as b does.
OneMore(b2, T, b, S, n) ==
    /\ b \in [OrderId -> Order] /\ b2 \in [OrderId -> Order]
    /\ S \in SUBSET OrderId /\ n \in OrderId /\ n \notin S /\ T = S \cup {n}
    /\ \A o \in S : b2[o] = b[o]

\* It adds what it is for, to the city that it is for.
LEMMA AmountGrows ==
    ASSUME NEW b, NEW b2, NEW S, NEW T, NEW n, OneMore(b2, T, b, S, n), NEW c
    PROVE  /\ b2[n].city = c => Amount(b2, T, c) = b2[n].quantity + Amount(b, S, c)
           /\ b2[n].city # c => Amount(b2, T, c) = Amount(b, S, c)
<1> DEFINE f == [o \in OrderId |-> b[o].quantity]
           f2 == [o \in OrderId |-> b2[o].quantity]
           A == {o \in S : b[o].city = c}
           A2 == {o \in T : b2[o].city = c}
<1>0. /\ b \in [OrderId -> Order] /\ b2 \in [OrderId -> Order] /\ S \subseteq OrderId
      /\ n \in OrderId /\ n \notin S /\ T = S \cup {n} /\ \A o \in S : b2[o] = b[o]
  BY DEF OneMore
<1>1. IsFiniteSet(A) /\ A \subseteq OrderId /\ n \notin A
  BY <1>0, SetsAreFinite, FS_Subset
<1>2. \A o \in OrderId : f[o] \in Int /\ f2[o] \in Int
  <2>1. \A o \in OrderId : b[o] \in Order /\ b2[o] \in Order
    BY <1>0
  <2> QED
    BY <2>1 DEF Order
<1>3. \A o \in A : f2[o] = f[o]
  BY <1>0
<1>4. CASE b2[n].city = c
  <2>1. A2 = A \cup {n} /\ f2[n] = b2[n].quantity
    BY <1>0, <1>4
  <2> HIDE DEF f, f2, A, A2
  <2>2. \A o \in A \cup {n} : f2[o] \in Int
    BY <1>0, <1>1, <1>2
  <2>3. SumFunctionOnSet(f2, A \cup {n}) = f2[n] + SumFunctionOnSet(f2, A)
    BY <1>1, <2>2, SumWith
  <2>4. SumFunctionOnSet(f2, A) = SumFunctionOnSet(f, A)
    BY <1>1, <1>3, SumAgree
  <2> QED
    BY <1>4, <2>1, <2>3, <2>4 DEF Amount, f, f2, A, A2
<1>5. CASE b2[n].city # c
  <2>1. A2 = A
    BY <1>0, <1>5
  <2>2. Amount(b2, T, c) = SumFunctionOnSet(f2, A2) /\ Amount(b, S, c) = SumFunctionOnSet(f, A)
    BY DEF Amount
  <2> HIDE DEF f, f2, A, A2
  <2>3. SumFunctionOnSet(f2, A) = SumFunctionOnSet(f, A) /\ SumFunctionOnSet(f, A) \in Int
    BY <1>1, <1>2, <1>3, SumAgree, SumType
  <2> QED
    BY <1>5, <2>1, <2>2, <2>3
<1> QED
  BY <1>4, <1>5

\* What a step that places nothing for a city leaves within the target.
LEMMA FewerKeeps ==
    ASSUME OrderTypes, OutstandingWithinTarget, Fewer
    PROVE  OrderTypes' /\ OutstandingWithinTarget'
<1>1. /\ book \in [OrderId -> Order] /\ book' \in [OrderId -> Order] /\ OrderTypes'
      /\ pending \cap restock \in SUBSET OrderId
      /\ pending' \cap restock' \in SUBSET (pending \cap restock)
  <2>1. OrderTypes' /\ pending' \cap restock' \in SUBSET (pending \cap restock)
    BY DEF Fewer
  <2>2. book' \in [OrderId -> Order]
    BY <2>1 DEF OrderTypes, OrderId, Order, City, Carrier
  <2>3. book \in [OrderId -> Order] /\ pending \cap restock \in SUBSET OrderId
    BY Sizes DEF OrderTypes, OrderId
  <2> QED
    BY <2>1, <2>2, <2>3
<1>2. ASSUME NEW c \in City
      PROVE  Amount(book', pending' \cap restock', c) <= Fractional(Highest).big_s
  <2>1. /\ Amount(book', pending' \cap restock', c) <= Amount(book, pending \cap restock, c)
        /\ Amount(book, pending \cap restock, c) \in Nat
    BY <1>1, AmountShrinks DEF Fewer
  <2>2. Amount(book', pending' \cap restock', c) \in Nat
    BY <1>1, AmountShrinks
  <2>3. Amount(book, pending \cap restock, c) <= Fractional(Highest).big_s
    BY OutstandingIs
  <2> QED
    BY <2>1, <2>2, <2>3, HighestIs
<1> QED
  BY <1>1, <1>2, OutstandingIsNext

\* An order of the operator is not one that the cities placed.
LEMMA DispatchKeeps ==
    ASSUME OrderTypes, OutstandingWithinTarget, handle_dispatch_order
    PROVE  OrderTypes' /\ OutstandingWithinTarget'
<1>1. PICK c \in City, q \in 1 .. MaxQuantity : place(c, q, Operator)
  BY DEF handle_dispatch_order
<1>2. next_id < MaxOrders /\ q \in Nat /\ Operator \in Carrier \cup {None} /\ Operator # None
  BY Sizes, SetsAreFinite DEF handle_dispatch_order, Operator, None
<1>3. /\ OrderTypes' /\ next_id \notin restock /\ pending \subseteq OrderId
      /\ \A o \in OrderId \ {next_id} : book'[o] = book[o]
  BY <1>1, <1>2, Placing
<1>4. pending' = pending \cup {next_id} /\ restock' = restock
  BY <1>1, <1>2 DEF place
<1>5. Fewer
  BY <1>3, <1>4 DEF Fewer
<1> QED
  BY <1>5, FewerKeeps

\* A city asks what is already on order before it orders up to its level.
LEMMA EvaluateKeeps ==
    ASSUME StockTypes, OrderTypes, TodoOK, PolicyOK, OutstandingWithinTarget, evaluate
    PROVE  OrderTypes' /\ OutstandingWithinTarget'
<1> DEFINE c == First(todo)
           S == pending \cap restock
           q == Wanted(c)
<1>1. c \in City /\ City \subseteq Nat
  BY SetsAreFinite, FirstIn DEF evaluate, TodoOK
<1>2. book \in [OrderId -> Order] /\ pending \in SUBSET OrderId /\ S \in SUBSET pending /\ S \in SUBSET OrderId
  BY Sizes DEF OrderTypes, OrderId
<1>3. CASE UNCHANGED orders
  <2>1. Fewer
    BY <1>3, OrdersUnchanged DEF orders
  <2> QED
    BY <2>1, FewerKeeps
<1>4. CASE ~ UNCHANGED orders
  <2> DEFINE on_order == Amount(book, pending, c)
             level == Fractional(Highest).big_s
  <2>1. q > 0 /\ next_id < MaxOrders /\ place(c, q, None)
    BY <1>4 DEF evaluate
  <2>2. \A d : Outstanding(d) = {o \in pending : book[o].city = d}
    BY DEF Outstanding
  <2>3. Quantity(Outstanding(c)) = on_order
    BY <2>2 DEF Quantity, Amount
  <2>4. on_order \in Nat /\ Amount(book, S, c) \in Nat /\ Amount(book, S, c) <= on_order
    BY <1>2, AmountShrinks
  <2>5. stock[c] \in Nat
    <3> HIDE DEF c
    <3>1. stock[c] \in 0 .. MaxInventory
      BY <1>1 DEF StockTypes
    <3> QED
      BY <3>1, Sizes
  <2>6. policy.s \in Nat /\ policy.big_s \in Nat /\ policy.big_s <= level /\ level \in Nat
    BY HighestIs DEF PolicyOK, PolicyRecord
  <2>7. q \in Nat /\ q + on_order <= level
    <3> HIDE DEF c, on_order, level
    <3>1. q = LET have == stock[c] + on_order
              IN  IF have < policy.s THEN Larger(0, policy.big_s - have) ELSE 0
      BY <2>3 DEF Wanted
    <3> HIDE DEF q
    <3> QED
      BY <2>1, <2>4, <2>5, <2>6, <3>1 DEF Larger
  <2>8. /\ OrderTypes' /\ next_id \in OrderId /\ next_id \notin pending
        /\ book'[next_id].city = c /\ book'[next_id].quantity = q
        /\ \A o \in OrderId \ {next_id} : book'[o] = book[o]
    <3>1. None \in Carrier \cup {None}
      OBVIOUS
    <3> HIDE DEF c, q
    <3> QED
      BY <1>1, <2>1, <2>7, <3>1, Placing
  <2>9. pending' \cap restock' = S \cup {next_id}
    BY <1>2, <2>1, <2>8, Placing DEF place
  <2>10. book' \in [OrderId -> Order]
    BY <2>8 DEF OrderTypes, OrderId, Order, City, Carrier
  <2>11. ASSUME NEW d \in City
         PROVE  Amount(book', pending' \cap restock', d) <= level
    <3> HIDE DEF c, q, S
    <3>1. next_id \notin S /\ \A o \in S : book'[o] = book[o]
      BY <1>2, <2>8
    <3>2. /\ book'[next_id].city = d => Amount(book', pending' \cap restock', d)
                                           = book'[next_id].quantity + Amount(book, S, d)
          /\ book'[next_id].city # d =>
                Amount(book', pending' \cap restock', d) = Amount(book, S, d)
      <4>1. OneMore(book', pending' \cap restock', book, S, next_id)
        BY <1>2, <2>8, <2>9, <2>10, <3>1 DEF OneMore
      <4> QED
        BY <4>1, AmountGrows
    <3>3. Amount(book, S, d) \in Nat
      BY <1>2, AmountShrinks
    <3>4. Amount(book, S, d) <= level
      BY OutstandingIs DEF S
    <3> HIDE DEF on_order, level
    <3>5. CASE d = c
      <4>1. Amount(book', pending' \cap restock', d) = q + Amount(book, S, c)
        BY <2>8, <2>9, <3>2, <3>5
      <4>2. q + Amount(book, S, c) <= q + on_order /\ q + Amount(book, S, c) \in Nat
        BY <2>4, <2>7
      <4> QED
        BY <2>4, <2>6, <2>7, <4>1, <4>2
    <3>6. CASE d # c
      BY <2>8, <2>9, <3>2, <3>3, <3>4, <3>6
    <3> QED
      BY <3>5, <3>6
  <2> QED
    BY <2>8, <2>11, OutstandingIsNext
<1> QED
  BY <1>3, <1>4

\* The order book through every step.
LEMMA OrderSteps ==
    ASSUME StockTypes, OrderTypes, TodoOK, PolicyOK, OutstandingWithinTarget, [Next]_vars
    PROVE  OrderTypes' /\ OutstandingWithinTarget'
<1>1. ASSUME UNCHANGED orders
      PROVE  OrderTypes' /\ OutstandingWithinTarget'
  BY <1>1, OrdersUnchanged, FewerKeeps DEF orders
<1>2. react_to_volatility \/ reorder_set \/ UNCHANGED vars => UNCHANGED orders
  BY DEF react_to_volatility, reorder_set, orders, vars
<1>3. refresh_wallet \/ handle_move \/ handle_buy \/ handle_sell => UNCHANGED orders
  BY DEF refresh_wallet, handle_move, handle_buy, handle_sell
<1>4. StartMarket \/ settle_arrivals \/ StartReorder \/ StartAssign \/ StartSettle \/ EndPass
        => UNCHANGED orders
  BY DEF StartMarket, settle_arrivals, StartReorder, StartAssign, StartSettle, EndPass
<1>5. pending \subseteq OrderId /\ OrderId \subseteq Nat
  BY Sizes, SetsAreFinite DEF OrderTypes, OrderId
<1>6. CASE Tick
  BY <1>6, Aging, FewerKeeps
<1>7. CASE handle_cancel_assignment
  <2>1. PICK o \in pending : book' = Reassigned(o, None)
    BY <1>7 DEF handle_cancel_assignment, Assigned
  <2>2. next_id' = next_id /\ pending' = pending /\ restock' = restock /\ None \in Carrier \cup {None}
    BY <1>7 DEF handle_cancel_assignment
  <2>3. Fewer
    BY <1>5, <2>1, <2>2, Reassigning
  <2> QED
    BY <2>3, FewerKeeps
<1>8. CASE assign_carriers
  <2> DEFINE o == First(todo)
  <2>1. o \in OrderId
    BY <1>5, <1>8, FirstIn DEF assign_carriers, TodoOK
  <2>2. next_id' = next_id /\ pending' = pending /\ restock' = restock
    BY <1>8 DEF assign_carriers
  <2>3. CASE book' = book
    BY <1>1, <2>2, <2>3 DEF orders
  <2>4. CASE book' # book
    <3>1. PICK blocked \in SUBSET Agent : \E a \in Nearest(o, blocked) : book' = Reassigned(o, a)
      BY <1>8, <2>4 DEF assign_carriers
    <3>2. PICK a \in Nearest(o, blocked) : book' = Reassigned(o, a)
      BY <3>1
    <3>3. a \in Carrier \cup {None}
      BY SetsAreFinite DEF Nearest, Eligible
    <3> HIDE DEF o
    <3>4. Fewer
      BY <2>1, <2>2, <3>2, <3>3, Reassigning
    <3> QED
      BY <3>4, FewerKeeps
  <2> QED
    BY <2>3, <2>4
<1>9. CASE settle_orders
  <2> DEFINE o == First(todo)
  <2>1. o \in OrderId
    BY <1>5, <1>9, FirstIn DEF settle_orders, TodoOK
  <2>2. Deliver(o) \/ GoOnWaiting(o)
    BY <1>9 DEF settle_orders
  <2> HIDE DEF o
  <2>3. CASE fulfil(o)
    BY <2>1, <2>3, Fulfilling, FewerKeeps
  <2>4. CASE ~fulfil(o)
    <3>1. next_id' = next_id /\ pending' = pending /\ restock' = restock
          /\ (book' = book \/ book' = Reassigned(o, None))
      BY <2>2, <2>4 DEF Deliver, GoOnWaiting
    <3>2. CASE book' = book
      BY <1>1, <3>1, <3>2 DEF orders
    <3>3. CASE book' = Reassigned(o, None)
      <4>1. None \in Carrier \cup {None}
        OBVIOUS
      <4>2. Fewer
        BY <2>1, <3>1, <3>3, <4>1, Reassigning
      <4> QED
        BY <4>2, FewerKeeps
    <3> QED
      BY <3>1, <3>2, <3>3
  <2> QED
    BY <2>3, <2>4
<1> QED
  BY <1>1, <1>2, <1>3, <1>4, <1>6, <1>7, <1>8, <1>9, DispatchKeeps, EvaluateKeeps
     DEF Next, OperatorActs, Analytics

----------------------------------------------------------------------------
(* The theorems                                                            *)

\* Agents and operator stay in the cities.
LEMMA PlaceSteps ==
    ASSUME PlaceTypes, [Next]_vars
    PROVE  PlaceTypes'
<1>1. ASSUME position' \in [Carrier -> City], previous' \in [Agent -> City \cup {0}]
      PROVE  PlaceTypes'
  BY <1>1 DEF PlaceTypes, Carrier, City, Agent
<1>2. CASE UNCHANGED <<position, previous>>
  BY <1>1, <1>2 DEF PlaceTypes
<1>3. CASE Tick
  <2>1. PICK moved \in [Agent -> City] :
          position' = [a \in Carrier |-> IF a = Operator THEN position[a] ELSE moved[a]]
    BY <1>3 DEF Tick
  <2>2. previous' = previous
    BY <1>3 DEF Tick
  <2> QED
    BY <1>1, <2>1, <2>2, SetsAreFinite DEF PlaceTypes
<1>4. CASE handle_move
  BY <1>1, <1>4 DEF PlaceTypes, handle_move
<1>5. CASE StartMarket
  BY <1>1, <1>5, SetsAreFinite DEF PlaceTypes, StartMarket
<1>6. OperatorActs => handle_move \/ UNCHANGED <<position, previous>>
  BY DEF OperatorActs, refresh_wallet, handle_buy, handle_sell,
         handle_dispatch_order, handle_cancel_assignment, market
<1>7. Analytics => StartMarket \/ UNCHANGED <<position, previous>>
  BY DEF Analytics, settle_arrivals, StartReorder, evaluate, StartAssign, assign_carriers,
         StartSettle, settle_orders, EndPass, market
<1>8. react_to_volatility \/ reorder_set \/ UNCHANGED vars => UNCHANGED <<position, previous>>
  BY DEF react_to_volatility, reorder_set, market, vars
<1> QED
  BY <1>2, <1>3, <1>4, <1>5, <1>6, <1>7, <1>8 DEF Next

\* What a step does to the goods.
LEMMA GoodsSteps ==
    ASSUME BookInv, [Next]_vars
    PROVE  StockTypes' /\ (Total' <= Total \/ \E o \in pending \ pending' : ~CarrierArrived(o))
<1>1. PlaceTypes /\ StockTypes /\ OrderTypes /\ TodoOK
  BY DEF BookInv
<1>2. Tick \/ react_to_volatility \/ reorder_set \/ UNCHANGED vars => stock' = stock /\ goods' = goods
  BY DEF Tick, react_to_volatility, reorder_set, market, vars
<1> QED
  BY <1>1, <1>2, StockUnchanged, OperatorGoods, PassGoods, SettleGoods DEF Next, Analytics, GoodsKept

\* The invariant holds at first, is kept by every step, and says what BookSound says.
LEMMA BookInit == Init => BookInv
<1> SUFFICES ASSUME Init
             PROVE  BookInv
  OBVIOUS
<1>1. PlaceTypes
  BY DEF Init, PlaceTypes
<1>2. StockTypes
  <2>1. MaxInventory \div 2 \in 0 .. MaxInventory
    BY Sizes
  <2> QED
    BY <2>1, SetsAreFinite, Sizes DEF Init, StockTypes
<1>3. OrderTypes
  BY BlankIsOrder, Sizes DEF Init, OrderTypes
<1>4. TodoOK
  BY DEF Init, TodoOK, Phase
<1>5. PolicyOK
  BY LogisticsAssumption, FractionalOK DEF Init, PolicyOK
<1>6. OutstandingWithinTarget
  <2>1. ASSUME NEW c \in City
        PROVE  Amount(book, pending \cap restock, c) <= Fractional(Highest).big_s
    <3>1. {o \in pending \cap restock : book[o].city = c} = {}
      BY DEF Init
    <3>2. Amount(book, pending \cap restock, c) = 0
      BY <3>1, SumEmpty DEF Amount
    <3> QED
      BY <3>2, HighestIs
  <2> QED
    BY <2>1, OutstandingIs
<1> QED
  BY <1>1, <1>2, <1>3, <1>4, <1>5, <1>6 DEF BookInv

\* Every step keeps it.
LEMMA BookNext == BookInv /\ [Next]_vars => BookInv'
BY PlaceSteps, GoodsSteps, OrderSteps, TodoSteps, PolicySteps DEF BookInv

\* It says what BookSound says.
LEMMA BookInvIsSound == BookInv => BookSound
<1> SUFFICES ASSUME BookInv
             PROVE  BookSound
  OBVIOUS
<1>1. todo \subseteq Int /\ phase \in Phase
  <2>1. pending \subseteq Int /\ Agent \subseteq Int /\ City \subseteq Int
    BY SetsAreFinite, Sizes DEF BookInv, OrderTypes
  <2> QED
    BY <2>1 DEF BookInv, TodoOK, Phase
<1>2. policy \in [s : Nat, base : Nat, big_s : Nat, volatile : BOOLEAN, left : 0 .. DecayTicks]
  BY DEF BookInv, PolicyOK, PolicyRecord
<1>3. TypeOK
  BY <1>1, <1>2 DEF BookInv, PlaceTypes, StockTypes, OrderTypes, TypeOK
<1> QED
  BY <1>3 DEF BookInv, BookSound

\* No shelf, cargo or wallet leaves its bounds, and no city has more on order by itself than the
\* highest order-up-to level in use, for any number of cities, agents and orders.
THEOREM BookSoundHolds == Spec => []BookSound
BY BookInit, BookNext, BookInvIsSound, PTL DEF Spec

\* No handler makes goods, save where an order that no carrier has brought is fulfilled by nobody.
THEOREM NoGoodsFromNothingHolds == Spec => NoGoodsFromNothing
<1>1. BookInv /\ [Next]_vars =>
        [Total' > Total => \E o \in pending \ pending' : ~CarrierArrived(o)]_vars
  <2> SUFFICES ASSUME BookInv, [Next]_vars, Total' > Total
               PROVE  \E o \in pending \ pending' : ~CarrierArrived(o)
    OBVIOUS
  <2>1. Total \in Int /\ Total' \in Int
    BY GoodsSteps, TotalIsNumber, TotalIsNumberNext DEF BookInv
  <2> QED
    BY <2>1, GoodsSteps
<1> QED
  BY <1>1, BookInit, BookNext, PTL DEF Spec, NoGoodsFromNothing
==============================================================================
