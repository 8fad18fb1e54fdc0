\* Streams of two orders, with one symbol as in the integration tests: share
\* counts and prices that take more than one byte, and a replace that takes
\* the price below zero.  Every record with up to two bytes that are not zero.
\* Two places for readers and one address more than they can own.
SPECIFICATION MCSpec
CONSTANTS
  Refs <- MCRefs
  Prices = {0, 297, 298, 299}
  Traders = {0}
  ReferencePrice = 0
  HalfWidth = 1
  OrderCapacity = 2
  IndexCapacity = 2
  PriceSpan = 300
  ShareSpan = 1024
  ByteSpan = 16
  Letter <- MCLetter
  Space = 1
  Symbols <- MCSymbols
  NumOrders = 2
  BasePrice = 0
  Jitters <- MCJitters
  ShareDraws = {200, 500}
  MaxRef = 4
  ByteValues = {0, 1}
  MaxNonzero = 2
  MaxExtra = 1
  Readers = {r1, r2}
  Files <- MCFiles
  Addresses = {a1, a2, a3}
  Null = Null
SYMMETRY Symmetry
INVARIANTS
  WireExact
  StreamConsistent
  ReadsInside
  OwnedOnce
  RecordsInOrder
PROPERTIES
  OneByteOneField
