SPECIFICATION FairSpec
CONSTANTS
  NAgents = 1
  NCities = 2
  MaxInventory = 2
  Capacity = 2
  StaleAfter = 1
  PhantomAfter = 2
  Policies <- DefaultPolicy
  Spikes = {100, 300}
  DecayTicks = 0
  MaxQuantity = 1
  MaxOrders = 2
INVARIANTS OneOrderEach 
PROPERTIES  OrdersSettle
