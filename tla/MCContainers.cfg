\* Four slots for five keys (key 0 is also what an erased slot holds), and
\* two lists over a pool of four: an inner node has neighbours on both sides
\* while another node is elsewhere, and free lists are not sorted.
SPECIFICATION Spec
CONSTANTS
  Keys = {0, 1, 2, 3, 4}
  Values = {a}
  NoValue = NoValue
  CapacityHint = 3
  Hashes <- MCHashes
  MaxLive = 5
  PoolCapacity = 4
  Nodes <- PoolSlots
  Null = 0
  Lists = {bids, asks}
  Objects <- MCObjects
  NewNode <- MCNewNode
INVARIANTS
  MapTypeOK
  FindExact
  AnswersExact
  LinksSound
PROPERTIES
  ImplementsMap
  ImplementsStack
  ImplementsSequences
