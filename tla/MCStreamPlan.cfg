SPECIFICATION PlanSpec
CONSTANTS
  Strategies = {"forward", "rebalance"}
  Parallelisms = {0, 1, 2}
  SlotOffers <- SmallOffers
  MaxNodes = 3
  MaxEdges = 3
INVARIANTS
  GraphMirrorsWiring
  OrderIsTopological
  PlanFits
  RoutesAreConnected
CHECK_DEADLOCK FALSE
