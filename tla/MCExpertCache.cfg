SPECIFICATION Spec
CONSTANTS
  NumLayers = 2
  NumExperts = 2
  TopK = 1
  Capacity = 2
  BrokerUnits = 4
  Depth = 1
  MaxUnion = 2
  MaxHints = 3
INVARIANTS
  PlanIsHeld
  FootprintBounded
  DemandNotStarved
  PrefetchAccounted
PROPERTY
  RefusalJustified
