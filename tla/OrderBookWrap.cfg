\* Two orders whose shares add up to the span of the 32-bit level total.
SPECIFICATION Spec
CONSTANTS
  Refs = {1, 2, 3}
  Prices = {1, 7}
  Traders = {0}
  ReferencePrice = 0
  HalfWidth = 1
  OrderCapacity = 3
  IndexCapacity = 4
  PriceSpan = 8
  ShareSpan = 4
  ShareInputs = {2}
INVARIANTS
  BestExact
