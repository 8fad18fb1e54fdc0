\* Two slots for three references; 2 and 4 are the first and the last price of
\* the flat window, 1 and 5 the outlier prices next to it.
SPECIFICATION Spec
CONSTANTS
  Refs = {1, 2, 3}
  Prices = {1, 2, 4, 5}
  Traders = {0}
  ReferencePrice = 3
  HalfWidth = 1
  OrderCapacity = 2
  IndexCapacity = 2
  PriceSpan = 8
  ShareSpan = 16
  ShareInputs = {0, 1, 2}
INVARIANTS
  TypeOK
  Coherent
  AnswersAgree
  RefusalsChangeNothing
  TotalsExact
  WalkExact
PROPERTIES
  ImplementsReference
