\* Three orders, at one level or at three, and a flat window that reaches
\* below price zero: slot 0 of the flat array gets the wrapped price 7, which
\* is also the price of an outlier level.
SPECIFICATION Spec
CONSTANTS
  Refs = {1, 2, 3}
  Prices = {0, 1, 7}
  Traders = {0}
  ReferencePrice = 0
  HalfWidth = 1
  OrderCapacity = 3
  IndexCapacity = 4
  PriceSpan = 8
  ShareSpan = 16
  ShareInputs = {1, 2}
INVARIANTS
  BestExact
PROPERTIES
  TimePriority
