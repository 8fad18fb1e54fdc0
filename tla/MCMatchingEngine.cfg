\* Self-trade prevention off, the book fed by the engine alone.
SPECIFICATION Spec
CONSTANTS
  Refs = {1, 2, 3, 4}
  Prices = {2, 3, 7}
  Traders = {0}
  ReferencePrice = 2
  HalfWidth = 1
  OrderCapacity = 3
  IndexCapacity = 4
  PriceSpan = 8
  ShareSpan = 16
  PreventSelfTrade = FALSE
  Incoming <- MCIncoming
  UniqueRefs = TRUE
  MixedFeed = FALSE
  Quantities = {1}
  RestingRefs = {1, 2, 3}
  OtherRef = 4
  Sizes = {1, 2}
  OtherSizes = {0, 1, 3}
  ActiveTraders = {0}
INVARIANTS
  TypeOK
  Conservation
  FOKAtomic
  NotCrossed
  KillsOnlyWhenExhausted
PROPERTIES
  EventsMatchBook
