\* Self-trade prevention on; the book is also fed by direct adds and
\* replaces, and references may be submitted twice.  Two orders of different
\* traders can rest at one level.
SPECIFICATION Spec
CONSTANTS
  Refs = {1, 2}
  Prices = {2, 7}
  Traders = {0, 1}
  ReferencePrice = 2
  HalfWidth = 1
  OrderCapacity = 2
  IndexCapacity = 2
  PriceSpan = 8
  ShareSpan = 16
  PreventSelfTrade = TRUE
  Incoming <- MCIncoming
  UniqueRefs = FALSE
  MixedFeed = TRUE
  Quantities = {1, 2}
  RestingRefs = {1, 2}
  OtherRef = 2
  Sizes = {1}
  OtherSizes = {3}
  ActiveTraders = {1}
INVARIANTS
  RestsOnlyWhenBlocked
PROPERTIES
  NoSelfTrade
  PriceTimePriority
  SubmitTerminates
