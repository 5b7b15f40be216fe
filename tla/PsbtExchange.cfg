SPECIFICATION PlanSpec
CONSTANTS
  a = a
  b = b
  k1 = k1
  k2 = k2
  l1 = l1
  g1 = g1
  tx1 = tx1
  tx2 = tx2
  None = None
  NumInputs = 1
  NumOutputs = 1
  NumXpubs = 2
  Key = {k1, k2}
  Leaf = {}
  Tag = {g1}
  OutputValue <- OneOutput
  U64Max = 4000
  BaseWeight = 400
  WitnessWeight = 100
  MaxFeeRate = 5
  Party = {a, b}
  Tx = {tx1, tx2}
  UnsignedTx = {tx1}
  Held <- HeldByEach
  Offers <- OffersOfPlans
  OutputOffers <- OutputOffersOfPlans
  XpubOffers <- XpubOffersOfPlans
  Newer <- NewerOfPlans
  Finalizers = {a}
  MaxMail = 2
  MaxFaults = 1
  Plans <- CombinePlans
PROPERTIES XpubPathsGrow ImplementsKnowledge Converges
