\* Self-trade prevention on, FOK orders against a book with blocked orders.
SPECIFICATION Spec
CONSTANTS
  Refs = {1, 2, 3, 4}
  Prices = {2, 7}
  Traders = {0, 1}
  ReferencePrice = 2
  HalfWidth = 1
  OrderCapacity = 3
  IndexCapacity = 4
  PriceSpan = 8
  ShareSpan = 16
  PreventSelfTrade = TRUE
  Incoming <- MCIncoming
  UniqueRefs = TRUE
  MixedFeed = FALSE
  Quantities = {1}
  RestingRefs = {1, 2, 3}
  OtherRef = 4
  Sizes = {1, 2}
  OtherSizes = {3}
  ActiveTraders = {0, 1}
INVARIANTS
  FOKAllOrNothing
