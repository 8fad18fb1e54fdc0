\* Two slots and a table of two for three references, under every hash; 3 is
\* a flat level and 7 an outlier.
SPECIFICATION Spec
CONSTANTS
  Refs = {1, 2, 3}
  Prices = {3, 7}
  Traders = {0}
  ReferencePrice = 3
  HalfWidth = 0
  OrderCapacity = 2
  PriceSpan = 8
  ShareSpan = 16
  ShareInputs = {1, 2}
  Hashes <- MCHashes
INVARIANTS
  PointersSound
  ImplementsBook
