\* A ring of three slots, rounded up to four; the indices wrap after eight
\* pushes, the longest stream has twelve messages that decode.
SPECIFICATION Spec
CONSTANTS
  Refs = {1, 2}
  Prices = {3, 7}
  Traders = {0}
  ReferencePrice = 3
  HalfWidth = 1
  OrderCapacity = 2
  IndexCapacity = 2
  PriceSpan = 8
  ShareSpan = 16
  Items <- MCItems
  NoItem = NoItem
  RingCapacity = 3
  IndexSpan = 8
  Streams <- MCStreams
INVARIANTS
  TypeOK
  RaceFree
  BookIsSequential
  AllProcessed
PROPERTIES
  ImplementsFifo
  Terminates
